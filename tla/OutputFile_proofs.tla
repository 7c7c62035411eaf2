------------------------- MODULE OutputFile_proofs -------------------------
(***************************************************************************)
(* Theorems about OutputFile, for any number of children, workers, servers, *)
(* runs of clean_os.sh and killed processes.                                *)
(***************************************************************************)
EXTENDS OutputFile, FiniteSetTheorems, TLAPS

(* The part of TypeOK that SEMbuf depends on.                               *)
SemTypeOK ==
  /\ semval \in [Sem -> Nat] /\ semadj \in [Child -> [Sem -> Int]]
  /\ set \in Sem /\ semid \in [Child -> Sem]
  /\ pc \in [Child -> ChildPc] /\ wpc \in [Worker -> WorkerPc]

(* A child has no thread before it is forked.                               *)
Unborn == \A w \in Worker : pc[ChildOf[w]] = "none" => wpc[w] = "none"

(* A set that clean_os.sh has yet to make room for is untouched.            *)
Untouched == \A x \in Sem : x > set => semval[x] = 0 /\ \A c \in Child : semadj[c][x] = 0

(* Where the one token of SEMbuf is: not made yet, in the semaphore, or     *)
(* with the one worker inside fileWriter, whose process gives it back when  *)
(* it dies.                                                                 *)
Token ==
  /\ semval[set] \in {0, 1}
  /\ \A w \in Worker : Holds(w) =>
       semval[set] = 0 /\ semadj[ChildOf[w]][set] = 1 /\ semid[ChildOf[w]] = set
  /\ \A c \in Child : (\A w \in Of(c) : ~Holds(w)) => semadj[c][set] = 0
  /\ \A v, w \in Worker : Holds(v) /\ Holds(w) => v = w

(* Nothing is known any more once the set was removed or set to 1 under the *)
(* worker that holds it.                                                    *)
BufInv == SemTypeOK /\ Unborn /\ Untouched /\ (~broken => Token)

LEMMA BufInvInit == Init => BufInv
  BY OutputAssumption
  DEF Init, BufInv, SemTypeOK, Unborn, Untouched, Token, Holds, Sem, ChildPc, WorkerPc, Of

(* The end of a child, by exit, a fault or a signal.                        *)
LEMMA ChildEndsKeeps ==
  ASSUME BufInv, NEW c \in Child, pc[c] # "none",
         NEW l \in {"exited", "dead"}, ChildEnds(c, l)
  PROVE  BufInv'
  <1> USE OutputAssumption DEF BufInv
  <1>0. /\ set' = set /\ semid' = semid /\ broken' = broken
        /\ pc' = [pc EXCEPT ![c] = l]
        /\ wpc' = [w \in Worker |-> IF ChildOf[w] = c /\ wpc[w] \notin {"none", "done"}
                                      THEN "dead" ELSE wpc[w]]
        /\ semval' = [x \in Sem |-> IF semval[x] + semadj[c][x] > 0
                                      THEN semval[x] + semadj[c][x] ELSE 0]
        /\ semadj' = [semadj EXCEPT ![c] = [x \in Sem |-> 0]]
    BY DEF ChildEnds, ChildAt, K!Undo, serv, Sem
  <1>1. SemTypeOK'
    BY <1>0 DEF SemTypeOK, ChildPc, WorkerPc
  <1>2. Unborn'
    BY <1>0 DEF Unborn, SemTypeOK, ChildPc
  <1>3. Untouched'
    BY <1>0 DEF Untouched, SemTypeOK
  <1>4. ASSUME ~broken' PROVE Token'
    <2>1. Token
      BY <1>0, <1>4
    <2>2. \A w \in Worker : Holds(w)' <=> Holds(w) /\ ChildOf[w] # c
      BY <1>0 DEF Holds, SemTypeOK, WorkerPc
    <2>3. semval'[set] = IF semval[set] + semadj[c][set] > 0
                           THEN semval[set] + semadj[c][set] ELSE 0
      BY <1>0 DEF SemTypeOK
    <2>4. \A k \in Child : semadj'[k][set] = IF k = c THEN 0 ELSE semadj[k][set]
      BY <1>0 DEF SemTypeOK
    <2>5. CASE \E w \in Of(c) : Holds(w)
      <3>1. PICK w \in Worker : ChildOf[w] = c /\ Holds(w)
        BY <2>5 DEF Of
      <3>2. semval'[set] = 1
        BY <2>1, <2>3, <3>1 DEF Token
      <3>3. \A v \in Worker : ~Holds(v)'
        BY <2>1, <2>2, <3>1 DEF Token
      <3>4. \A k \in Child \ {c} : semadj[k][set] = 0
        BY <2>1, <3>1 DEF Token, Of
      <3> QED
        BY <1>0, <2>4, <3>2, <3>3, <3>4 DEF Token
    <2>6. CASE \A w \in Of(c) : ~Holds(w)
      <3>1. semval'[set] = semval[set] /\ \A k \in Child : semadj'[k][set] = semadj[k][set]
        BY <2>1, <2>3, <2>4, <2>6 DEF Token
      <3>2. \A w \in Worker : Holds(w)' <=> Holds(w)
        BY <2>2, <2>6 DEF Of
      <3>3. \A k \in Child : Of(k)' = Of(k)
        BY DEF Of
      <3> QED
        BY <1>0, <2>1, <3>1, <3>2, <3>3 DEF Token, SemTypeOK, Of
    <2> QED
      BY <2>5, <2>6
  <1> QED
    BY <1>1, <1>2, <1>3, <1>4

(* A step that leaves the semaphores alone and brings nobody into or out of *)
(* fileWriter.                                                              *)
LEMMA QuietKeeps ==
  ASSUME BufInv, UNCHANGED ipc, set' = set, broken' = broken,
         semid' \in [Child -> Sem], pc' \in [Child -> ChildPc], wpc' \in [Worker -> WorkerPc],
         Unborn',
         \A w \in Worker : Holds(w)' <=> Holds(w),
         \A w \in Worker : Holds(w) => semid'[ChildOf[w]] = semid[ChildOf[w]]
  PROVE  BufInv'
  <1> USE OutputAssumption DEF BufInv, ipc
  <1>1. SemTypeOK'
    BY DEF SemTypeOK
  <1>2. Untouched'
    BY DEF Untouched
  <1>3. ASSUME ~broken' PROVE Token'
    <2>1. \A c \in Child : Of(c)' = Of(c)
      BY DEF Of
    <2> QED
      BY <1>3, <2>1 DEF Token, Of
  <1> QED
    BY <1>1, <1>2, <1>3

LEMMA ServerKeeps ==
  ASSUME BufInv, ServerStep \/ ServerKilled \/ ExitArrives
  PROVE  BufInv'
  <1> USE OutputAssumption
  <1>0. SemTypeOK /\ Unborn /\ Untouched /\ (~broken => Token)
    BY DEF BufInv
  <1>1. CASE InitBuf
    <2>1. /\ set' = set /\ semid' = semid /\ pc' = pc /\ wpc' = wpc
          /\ semval' = [semval EXCEPT ![set] = 1]
          /\ semadj' = [c \in Child |-> [semadj[c] EXCEPT ![set] = 0]]
          /\ ~broken' => \A w \in Worker : ~Holds(w)
      BY <1>1 DEF InitBuf, ServerAt, K!SetVal, proc
    <2>2. SemTypeOK' /\ Unborn' /\ Untouched'
      BY <1>0, <2>1 DEF SemTypeOK, Unborn, Untouched, Sem
    <2>3. ~broken' => Token'
      BY <1>0, <2>1 DEF SemTypeOK, Token, Holds
    <2> QED
      BY <2>2, <2>3 DEF BufInv
  <1>2. ASSUME NEW c \in Child, Fork(c) PROVE BufInv'
    <2>1. /\ set' = set /\ wpc' = wpc /\ UNCHANGED ipc /\ broken' = broken
          /\ pc[c] = "none" /\ pc' = [pc EXCEPT ![c] = "forked"]
          /\ semid' = [semid EXCEPT ![c] = set]
      BY <1>2 DEF Fork, ServerAt, hist
    <2>2. \A w \in Worker : Holds(w) => ChildOf[w] # c
      BY <1>0, <2>1 DEF Unborn, Holds
    <2>3. Unborn'
      BY <1>0, <2>1 DEF Unborn, SemTypeOK
    <2>4. /\ semid' \in [Child -> Sem] /\ pc' \in [Child -> ChildPc]
          /\ wpc' \in [Worker -> WorkerPc]
      BY <1>0, <2>1 DEF SemTypeOK, ChildPc
    <2>5. \A w \in Worker : Holds(w) => semid'[ChildOf[w]] = semid[ChildOf[w]]
      BY <1>0, <2>1, <2>2 DEF SemTypeOK
    <2>6. \A w \in Worker : Holds(w)' <=> Holds(w)
      BY <2>1 DEF Holds
    <2> QED
      BY <2>1, <2>3, <2>4, <2>5, <2>6, QuietKeeps
  <1>3. CASE \/ ServerStarts \/ InitFile \/ Recurse \/ ExitSeen \/ Return
             \/ ServerKilled \/ ExitArrives
    <2>1. /\ set' = set /\ wpc' = wpc /\ UNCHANGED ipc /\ broken' = broken
          /\ pc' = pc /\ semid' = semid
      BY <1>3 DEF ServerStarts, InitFile, InitFileTo, Recurse, ExitSeen, Return, ServerKilled,
                  ExitArrives, ServerMoves, ServerAt, proc, hist
    <2>2. Unborn' /\ \A w \in Worker : Holds(w)' <=> Holds(w)
      BY <1>0, <2>1 DEF Unborn, Holds
    <2> QED
      BY <1>0, <2>1, <2>2, QuietKeeps DEF SemTypeOK
  <1> QED
    BY <1>1, <1>2, <1>3 DEF ServerStep

(* clean_os.sh: the new set has no token and no debts.                      *)
LEMMA CleanKeeps ==
  ASSUME BufInv, CleanOs
  PROVE  BufInv'
  <1> USE OutputAssumption
  <1>0. SemTypeOK /\ Unborn /\ Untouched
    BY DEF BufInv
  <1>1. /\ set' = set + 1 /\ set < MaxCleans /\ semval' = semval /\ semadj' = semadj
        /\ pc' = pc /\ wpc' = wpc /\ semid' = semid
        /\ ~broken' => \A w \in Worker : ~Holds(w)
    BY DEF CleanOs, ipc, proc
  <1>2. set + 1 \in Sem
    BY <1>0, <1>1 DEF SemTypeOK, Sem
  <1>3. semval[set + 1] = 0 /\ \A c \in Child : semadj[c][set + 1] = 0
    BY <1>0, <1>2 DEF Untouched, SemTypeOK, Sem
  <1>4. SemTypeOK' /\ Unborn' /\ Untouched'
    BY <1>0, <1>1, <1>2 DEF SemTypeOK, Unborn, Untouched, Sem
  <1>5. ~broken' => Token'
    BY <1>1, <1>3 DEF Token, Holds
  <1> QED
    BY <1>4, <1>5 DEF BufInv

LEMMA ChildKeeps ==
  ASSUME BufInv, NEW c \in Child, ChildStep(c) \/ ChildKilled(c)
  PROVE  BufInv'
  <1> USE OutputAssumption
  <1>0. SemTypeOK /\ Unborn
    BY DEF BufInv
  <1>1. CASE ChildPlays(c) \/ OpenDir(c) \/ CloseDir(c)
    <2>1. /\ set' = set /\ wpc' = wpc /\ UNCHANGED ipc /\ broken' = broken /\ semid' = semid
          /\ pc[c] # "none"
      BY <1>1 DEF ChildPlays, OpenDir, CloseDir, ChildMoves, ChildAt, serv
    <2>2. \E l \in ChildPc \ {"none"} : pc' = [pc EXCEPT ![c] = l]
      BY <1>1 DEF ChildPlays, OpenDir, CloseDir, ChildMoves, ChildAt, ChildPc
    <2>3. pc' \in [Child -> ChildPc] /\ Unborn'
      BY <1>0, <2>1, <2>2 DEF SemTypeOK, Unborn
    <2>4. \A w \in Worker : Holds(w)' <=> Holds(w)
      BY <2>1 DEF Holds
    <2> QED
      BY <1>0, <2>1, <2>3, <2>4, QuietKeeps DEF SemTypeOK
  <1>2. ASSUME NEW w \in Worker, CreateWorker(c, w) PROVE BufInv'
    <2>1. /\ set' = set /\ UNCHANGED ipc /\ broken' = broken /\ semid' = semid /\ pc' = pc
          /\ pc[ChildOf[w]] # "none" /\ wpc[w] = "none"
      BY <1>2 DEF CreateWorker, serv, proc, hist
    <2>2. \E l \in {"search", "failed"} : wpc' = [wpc EXCEPT ![w] = l]
      BY <1>2 DEF CreateWorker
    <2>3. wpc' \in [Worker -> WorkerPc] /\ Unborn'
      BY <1>0, <2>1, <2>2 DEF SemTypeOK, WorkerPc, Unborn
    <2>4. \A v \in Worker : Holds(v)' <=> Holds(v)
      BY <1>0, <2>1, <2>2 DEF Holds, SemTypeOK
    <2> QED
      BY <1>0, <2>1, <2>3, <2>4, QuietKeeps DEF SemTypeOK
  <1>3. CASE \/ ChildStops(c) \/ OpenDirFails(c) \/ JoinThreads(c) \/ JoinFaults(c)
             \/ ChildKilled(c)
    BY <1>3, ChildEndsKeeps
    DEF ChildStops, OpenDirFails, JoinThreads, JoinBut, JoinFaults, ChildKilled
  <1> QED
    BY <1>1, <1>2, <1>3 DEF ChildStep

LEMMA WorkerKeeps ==
  ASSUME BufInv, NEW w \in Worker, WorkerStep(w)
  PROVE  BufInv'
  <1> USE OutputAssumption
  <1>0. SemTypeOK /\ Unborn /\ Untouched /\ (~broken => Token)
    BY DEF BufInv
  <1>1. CASE OpenFails(w)
    <2>1. ChildOf[w] \in Child /\ pc[ChildOf[w]] # "none"
      BY <1>0, <1>1 DEF OpenFails, Unborn
    <2> QED
      BY <1>1, <2>1, ChildEndsKeeps DEF OpenFails
  <1>2. CASE WaitBuf(w)
    <2>1. /\ set' = set /\ semid' = semid /\ pc' = pc
          /\ wpc[w] = "wait_buf" /\ wpc' = [wpc EXCEPT ![w] = "fopen"]
      BY <1>2 DEF WaitBuf, WorkerAt, serv, proc
    <2>2. Unborn'
      BY <1>0, <2>1 DEF Unborn, SemTypeOK
    <2>3. CASE Stale(w)
      <3>1. broken' = TRUE /\ semval' = semval /\ semadj' = semadj
        BY <1>2, <2>3 DEF WaitBuf, ipc
      <3> QED
        BY <1>0, <2>1, <2>2, <3>1 DEF BufInv, SemTypeOK, WorkerPc, Untouched
    <2>4. CASE ~Stale(w)
      <3>1. /\ broken' = broken /\ semval[set] > 0 /\ semval' = [semval EXCEPT ![set] = @ - 1]
            /\ semadj' = [semadj EXCEPT ![ChildOf[w]][set] = @ + 1]
            /\ semid[ChildOf[w]] = set
        BY <1>2, <2>4 DEF WaitBuf, K!Waits, Stale
      <3>2. SemTypeOK'
        BY <1>0, <2>1, <3>1 DEF SemTypeOK, WorkerPc
      <3>3. Untouched'
        BY <1>0, <2>1, <3>1 DEF SemTypeOK, Untouched, Sem
      <3>4. ASSUME ~broken' PROVE Token'
        <4>1. Token
          BY <1>0, <3>1, <3>4
        <4>2. \A v \in Worker : ~Holds(v)
          BY <3>1, <4>1 DEF Token
        <4>3. \A v \in Worker : Holds(v)' <=> v = w
          BY <1>0, <2>1, <4>2 DEF Holds, SemTypeOK
        <4>4. semval'[set] = 0
          BY <1>0, <3>1, <4>1 DEF Token, SemTypeOK
        <4>5. \A c \in Child : semadj'[c][set] = IF c = ChildOf[w] THEN 1 ELSE 0
          BY <1>0, <3>1, <4>1, <4>2 DEF Token, SemTypeOK, Of
        <4> QED
          BY <2>1, <3>1, <4>3, <4>4, <4>5 DEF Token, Of
      <3> QED
        BY <2>2, <3>2, <3>3, <3>4 DEF BufInv
    <2> QED
      BY <2>3, <2>4
  <1>3. CASE SignalBuf(w)
    <2>1. /\ set' = set /\ semid' = semid /\ pc' = pc /\ broken' = broken
          /\ wpc[w] = "signal" /\ wpc' = [wpc EXCEPT ![w] = "done"]
      BY <1>3 DEF SignalBuf, WorkerAt, serv, proc
    <2>2. Unborn'
      BY <1>0, <2>1 DEF Unborn, SemTypeOK
    <2>3. CASE Stale(w)
      <3>1. semval' = semval /\ semadj' = semadj
        BY <1>3, <2>3 DEF SignalBuf, ipc
      <3>2. broken
        BY <1>0, <2>1, <2>3 DEF Token, Holds, Stale
      <3>3. SemTypeOK'
        BY <1>0, <2>1, <3>1 DEF SemTypeOK, WorkerPc
      <3>4. Untouched'
        BY <1>0, <2>1, <3>1 DEF Untouched
      <3> QED
        BY <2>1, <2>2, <3>2, <3>3, <3>4 DEF BufInv
    <2>4. CASE ~Stale(w)
      <3>1. /\ semval' = [semval EXCEPT ![set] = @ + 1]
            /\ semadj' = [semadj EXCEPT ![ChildOf[w]][set] = @ - 1]
        BY <1>3, <2>4 DEF SignalBuf, K!Signals
      <3>2. SemTypeOK'
        BY <1>0, <2>1, <3>1 DEF SemTypeOK, WorkerPc
      <3>3. Untouched'
        <4>1. ASSUME NEW x \in Sem, x > set PROVE x # set
          BY <1>0, <4>1 DEF SemTypeOK, Sem
        <4>2. \A x \in Sem : x # set =>
                semval'[x] = semval[x] /\ \A c \in Child : semadj'[c][x] = semadj[c][x]
          BY <1>0, <3>1 DEF SemTypeOK
        <4> QED
          BY <1>0, <2>1, <4>1, <4>2 DEF Untouched
      <3>4. ASSUME ~broken' PROVE Token'
        <4>1. Token /\ Holds(w)
          BY <1>0, <2>1, <3>4 DEF Holds
        <4>2. \A v \in Worker : ~Holds(v)'
          BY <1>0, <2>1, <4>1 DEF Holds, SemTypeOK, Token
        <4>3. semval'[set] = 1
          BY <1>0, <3>1, <4>1 DEF Token, SemTypeOK
        <4>4. \A c \in Child : semadj'[c][set] = 0
          <5>1. \A c \in Child \ {ChildOf[w]} : semadj[c][set] = 0
            BY <4>1 DEF Token, Of
          <5> QED
            BY <1>0, <3>1, <4>1, <5>1 DEF Token, SemTypeOK
        <4> QED
          BY <2>1, <4>2, <4>3, <4>4 DEF Token
      <3> QED
        BY <2>2, <3>2, <3>3, <3>4 DEF BufInv
    <2> QED
      BY <2>3, <2>4
  <1>4. CASE Search(w) \/ SearchFails(w) \/ OpenFile(w) \/ Write(w) \/ Close(w)
    <2>1. /\ set' = set /\ semid' = semid /\ pc' = pc /\ UNCHANGED ipc /\ broken' = broken
      BY <1>4 DEF Search, SearchFails, OpenFile, Write, Close, WorkerMoves, WorkerAt,
                  serv, proc
    <2>2. \E l, m \in WorkerPc \ {"none"} :
            /\ wpc[w] = l /\ wpc' = [wpc EXCEPT ![w] = m]
            /\ l \in {"fopen", "write", "signal"} <=> m \in {"fopen", "write", "signal"}
      BY <1>4 DEF Search, SearchFails, OpenFile, Write, Close, WorkerMoves, WorkerAt,
                  WorkerPc
    <2>3. wpc' \in [Worker -> WorkerPc] /\ Unborn' /\ \A v \in Worker : Holds(v)' <=> Holds(v)
      BY <1>0, <2>1, <2>2 DEF SemTypeOK, Unborn, Holds
    <2> QED
      BY <1>0, <2>1, <2>3, QuietKeeps DEF SemTypeOK
  <1> QED
    BY <1>1, <1>2, <1>3, <1>4 DEF WorkerStep

LEMMA BufInvNext == BufInv /\ [Next]_vars => BufInv'
  <1> SUFFICES ASSUME BufInv, [Next]_vars PROVE BufInv'
    OBVIOUS
  <1>1. CASE UNCHANGED vars
    <2>1. /\ UNCHANGED ipc /\ set' = set /\ broken' = broken /\ semid' = semid
          /\ pc' = pc /\ wpc' = wpc
      BY <1>1 DEF vars, serv, proc, hist
    <2>2. Unborn' /\ \A w \in Worker : Holds(w)' <=> Holds(w)
      BY <2>1 DEF BufInv, Unborn, Holds
    <2> QED
      BY <2>1, <2>2, QuietKeeps DEF BufInv, SemTypeOK
  <1> QED
    BY <1>1, ServerKeeps, CleanKeeps, ChildKeeps, WorkerKeeps DEF Next

(* waits(SEMbuf) ... signals(SEMbuf) keeps output.txt to one worker of all  *)
(* children, for any number of them and whoever is killed, unless a server  *)
(* or clean_os.sh takes the semaphore from under a worker.                  *)
THEOREM WriterCorrect == Spec => []WriterExclusion
  <1>1. BufInv => WriterExclusion
    BY DEF BufInv, Token, WriterExclusion
  <1> QED
    BY <1>1, BufInvInit, BufInvNext, PTL DEF Spec
-----------------------------------------------------------------------------
(* TypeOK, and why there is a file for every server: one is removed for     *)
(* each.                                                                    *)
TypeInv == TypeOK /\ out <= starts /\ (spc = "init_file" => out < starts)

LEMMA TypeInvInit == Init => TypeInv
  <1> SUFFICES ASSUME Init PROVE TypeInv
    OBVIOUS
  <1> USE OutputAssumption DEF Init
  <1>0. exit \in BOOLEAN /\ broken \in BOOLEAN /\ late \subseteq Child
    BY Zenon
  <1>1. /\ spc \in ServerPc /\ starts \in 0 .. MaxServers /\ set \in Sem
        /\ kills \in 0 .. MaxKills /\ out \in Inode /\ out <= starts
    BY DEF Sem, Inode, ServerPc
  <1>2. /\ pc \in [Child -> ChildPc] /\ owner \in [Child -> 0 .. MaxServers]
        /\ semid \in [Child -> Sem] /\ wpc \in [Worker -> WorkerPc]
    BY DEF Sem, ChildPc, WorkerPc
  <1>3. semval \in [Sem -> Nat] /\ semadj \in [Child -> [Sem -> Int]]
    OBVIOUS
  <1>4. content \in [Inode -> Seq(Line)]
    OBVIOUS
  <1>5. /\ fd \in [Worker -> Inode \cup {-1}] /\ written \in [Worker -> Nat]
        /\ \A w \in Worker : wpc[w] \in {"write", "signal"} => fd[w] # -1
    OBVIOUS
  <1>6. spc # "init_file"
    OBVIOUS
  <1> QED
    BY <1>0, <1>1, <1>2, <1>3, <1>4, <1>5, <1>6 DEF TypeInv, TypeOK

(* What the operations on SEMbuf leave behind.                              *)
LEMMA IpcType ==
  ASSUME TypeOK,
         \/ UNCHANGED ipc
         \/ K!SetVal(set, 1)
         \/ \E c \in Child : K!Waits(c, set) \/ K!Signals(c, set) \/ K!Undo(c)
  PROVE  semval' \in [Sem -> Nat] /\ semadj' \in [Child -> [Sem -> Int]]
  <1>t. /\ semval \in [Sem -> Nat] /\ semadj \in [Child -> [Sem -> Int]] /\ set \in Sem
    BY DEF TypeOK
  <1>1. CASE UNCHANGED ipc
    BY <1>t, <1>1 DEF ipc
  <1>2. CASE K!SetVal(set, 1)
    BY <1>t, <1>2 DEF K!SetVal
  <1>3. ASSUME NEW c \in Child, K!Waits(c, set)
        PROVE  semval' \in [Sem -> Nat] /\ semadj' \in [Child -> [Sem -> Int]]
    BY <1>t, <1>3 DEF K!Waits
  <1>4. ASSUME NEW c \in Child, K!Signals(c, set)
        PROVE  semval' \in [Sem -> Nat] /\ semadj' \in [Child -> [Sem -> Int]]
    BY <1>t, <1>4 DEF K!Signals
  <1>5. ASSUME NEW c \in Child, K!Undo(c)
        PROVE  semval' \in [Sem -> Nat] /\ semadj' \in [Child -> [Sem -> Int]]
    BY <1>t, <1>5 DEF K!Undo
  <1> QED
    BY <1>1, <1>2, <1>3, <1>4, <1>5

LEMMA TypeInvNext == TypeInv /\ [Next]_vars => TypeInv'
  <1> SUFFICES ASSUME TypeInv, [Next]_vars PROVE TypeInv'
    OBVIOUS
  <1> USE OutputAssumption
  <1>t. TypeOK /\ out <= starts /\ (spc = "init_file" => out < starts)
    BY DEF TypeInv
  <1>1. CASE ServerStep \/ ServerKilled \/ ExitArrives \/ CleanOs
    <2>1. semval' \in [Sem -> Nat] /\ semadj' \in [Child -> [Sem -> Int]]
      <3>1. UNCHANGED ipc \/ K!SetVal(set, 1)
        BY <1>1 DEF ServerStep, ServerStarts, InitFile, InitFileTo, InitBuf, Fork, Recurse,
             ExitSeen, Return, ServerKilled, ExitArrives, CleanOs, ServerMoves, ServerAt
      <3> QED
        BY <1>t, <3>1, IpcType
    <2>2. UNCHANGED <<wpc, content, fd, written>>
      BY <1>1 DEF ServerStep, ServerStarts, InitFile, InitFileTo, InitBuf, Fork, Recurse,
           ExitSeen, Return, ServerKilled, ExitArrives, CleanOs, ServerMoves, ServerAt, file
    <2>3. CASE ServerStarts \/ ExitArrives \/ CleanOs
      <3>1. /\ UNCHANGED <<pc, owner, semid, kills, out, late>>
        BY <2>3 DEF ServerStarts, ExitArrives, CleanOs, proc, file, hist
      <3>2. exit' \in BOOLEAN /\ broken' \in BOOLEAN
        BY <1>t, <2>3, Zenon DEF ServerStarts, ExitArrives, CleanOs, hist, TypeOK
      <3>4. set' \in Sem
        <4>1. CASE CleanOs
          BY <1>t, <4>1 DEF CleanOs, TypeOK, Sem
        <4> QED
          BY <1>t, <2>3, <4>1 DEF ServerStarts, ExitArrives, TypeOK
      <3>3. /\ spc' \in ServerPc /\ starts' \in 0 .. MaxServers /\ out <= starts'
            /\ spc' = "init_file" => out < starts'
        <4>1. CASE ServerStarts
          BY <1>t, <4>1 DEF ServerStarts, TypeOK, Inode, ServerPc
        <4>2. CASE ExitArrives \/ CleanOs
          BY <1>t, <4>2 DEF ExitArrives, CleanOs, TypeOK
        <4> QED
          BY <2>3, <4>1, <4>2
      <3> QED
        BY <1>t, <2>1, <2>2, <3>1, <3>2, <3>3, <3>4 DEF TypeInv, TypeOK
    <2>4. CASE InitFile \/ InitBuf \/ Recurse \/ ExitSeen \/ Return \/ ServerKilled
      <3>1. starts' = starts /\ exit' = exit /\ set' = set /\ owner' = owner /\ semid' = semid /\ pc' = pc
        BY <2>4 DEF InitFile, InitFileTo, InitBuf, Recurse, ExitSeen, Return, ServerKilled,
             ServerMoves, ServerAt, proc
      <3>2. spc' \in ServerPc \ {"init_file"} /\ kills' \in 0 .. MaxKills
        <4>1. CASE ServerKilled
          BY <1>t, <4>1 DEF ServerKilled, ServerAt, TypeOK, ServerPc
        <4>2. CASE InitFile \/ InitBuf \/ Recurse \/ ExitSeen \/ Return
          BY <1>t, <4>2 DEF InitFile, InitFileTo, InitBuf, Recurse, ExitSeen, Return,
               ServerMoves, ServerAt, proc, TypeOK, ServerPc
        <4> QED
          BY <2>4, <4>1, <4>2
      <3>3. out' \in Inode /\ out' <= starts
        <4>1. CASE InitFile
          <5>1. out' = out + 1 /\ out < starts
            BY <1>t, <4>1 DEF InitFile, InitFileTo
          <5> QED
            BY <1>t, <5>1 DEF TypeOK, Inode
        <4>2. CASE InitBuf \/ Recurse \/ ExitSeen \/ Return \/ ServerKilled
          BY <1>t, <4>2 DEF InitBuf, Recurse, ExitSeen, Return, ServerKilled, ServerMoves, TypeOK
        <4> QED
          BY <2>4, <4>1, <4>2
      <3>4. late' \subseteq Child /\ broken' \in BOOLEAN
        BY <1>t, <2>4 DEF InitFile, InitFileTo, InitBuf, Recurse, ExitSeen, Return, ServerKilled,
             ServerMoves, ServerAt, hist, TypeOK
      <3> QED
        BY <1>t, <2>1, <2>2, <3>1, <3>2, <3>3, <3>4 DEF TypeInv, TypeOK
    <2>5. ASSUME NEW c \in Child, Fork(c) PROVE TypeInv'
      BY <1>t, <2>1, <2>2, <2>5
      DEF Fork, ServerAt, hist, TypeInv, TypeOK, ServerPc, ChildPc
    <2> QED
      BY <1>1, <2>3, <2>4, <2>5 DEF ServerStep
  <1>2. ASSUME NEW c \in Child, ChildStep(c) \/ ChildKilled(c) \/ \E w \in Worker : ChildOf[w] = c /\ OpenFails(w)
        PROVE  TypeInv'
    <2>1. semval' \in [Sem -> Nat] /\ semadj' \in [Child -> [Sem -> Int]]
      <3>1. UNCHANGED ipc \/ K!Undo(c)
        BY <1>2 DEF ChildStep, ChildPlays, ChildStops, OpenDir, OpenDirFails, CreateWorker,
             CloseDir, JoinThreads, JoinBut, JoinFaults, ChildKilled, OpenFails, ChildMoves, ChildEnds
      <3> QED
        BY <1>t, <3>1, IpcType
    <2>2. UNCHANGED <<serv, owner, semid, file, late, broken>>
      BY <1>2 DEF ChildStep, ChildPlays, ChildStops, OpenDir, OpenDirFails, CreateWorker,
             CloseDir, JoinThreads, JoinBut, JoinFaults, ChildKilled, OpenFails, ChildMoves,
             ChildEnds, ChildAt, proc, hist
    <2>3. kills' \in 0 .. MaxKills
      BY <1>t, <1>2 DEF ChildStep, ChildPlays, ChildStops, OpenDir, OpenDirFails, CreateWorker,
             CloseDir, JoinThreads, JoinBut, JoinFaults, ChildKilled, OpenFails, ChildMoves,
             proc, TypeOK
    <2>4. pc' \in [Child -> ChildPc]
      BY <1>t, <1>2 DEF ChildStep, ChildPlays, ChildStops, OpenDir, OpenDirFails, CreateWorker,
             CloseDir, JoinThreads, JoinBut, JoinFaults, ChildKilled, OpenFails, ChildMoves,
             ChildEnds, ChildAt, proc, TypeOK, ChildPc
    <2>5. wpc' \in [Worker -> WorkerPc]
      BY <1>t, <1>2 DEF ChildStep, ChildPlays, ChildStops, OpenDir, OpenDirFails, CreateWorker,
             CloseDir, JoinThreads, JoinBut, JoinFaults, ChildKilled, OpenFails, ChildMoves,
             ChildEnds, TypeOK, WorkerPc
    <2>6. \A w \in Worker : wpc'[w] \in {"write", "signal"} => wpc[w] \in {"write", "signal"}
      BY <1>t, <1>2 DEF ChildStep, ChildPlays, ChildStops, OpenDir, OpenDirFails, CreateWorker,
             CloseDir, JoinThreads, JoinBut, JoinFaults, ChildKilled, OpenFails, ChildMoves,
             ChildEnds, TypeOK
    <2> QED
      BY <1>t, <2>1, <2>2, <2>3, <2>4, <2>5, <2>6 DEF TypeInv, TypeOK, serv, file
  <1>3. ASSUME NEW w \in Worker, WorkerStep(w), ~OpenFails(w) PROVE TypeInv'
    <2>1. semval' \in [Sem -> Nat] /\ semadj' \in [Child -> [Sem -> Int]]
      <3>1. UNCHANGED ipc \/ K!Waits(ChildOf[w], set) \/ K!Signals(ChildOf[w], set)
        BY <1>3 DEF WorkerStep, Search, SearchFails, WaitBuf, OpenFile, Write, Close,
             SignalBuf, WorkerMoves
      <3> QED
        BY <1>t, <3>1, IpcType
    <2>2. UNCHANGED <<serv, proc, late, out>> /\ broken' \in BOOLEAN
      BY <1>t, <1>3 DEF WorkerStep, Search, SearchFails, WaitBuf, OpenFile, Write, Close,
           SignalBuf, WorkerMoves, WorkerAt, file, TypeOK
    <2>3. wpc' \in [Worker -> WorkerPc]
      BY <1>t, <1>3 DEF WorkerStep, Search, SearchFails, WaitBuf, OpenFile, Write, Close,
           SignalBuf, WorkerMoves, WorkerAt, TypeOK, WorkerPc
    <2>4. fd' \in [Worker -> Inode \cup {-1}] /\ written' \in [Worker -> Nat]
      <3>1. CASE Write(w)
        BY <1>t, <3>1 DEF Write, TypeOK
      <3>2. CASE OpenFile(w)
        BY <1>t, <3>2 DEF OpenFile, TypeOK
      <3> QED
        BY <1>t, <1>3, <3>1, <3>2 DEF WorkerStep, Search, SearchFails, WaitBuf, Close,
             SignalBuf, WorkerMoves, file, TypeOK
    <2>5. content' \in [Inode -> Seq(Line)]
      <3>1. CASE Write(w)
        <4>1. <<w, written[w] + 1>> \in Line
          BY <1>t DEF TypeOK, Line
        <4>2. content' = [content EXCEPT ![fd[w]] = Append(@, <<w, written[w] + 1>>)]
          BY <3>1 DEF Write
        <4>3. content \in [Inode -> Seq(Line)]
          BY <1>t DEF TypeOK
        <4>4. CASE fd[w] \in Inode
          <5>1. Append(content[fd[w]], <<w, written[w] + 1>>) \in Seq(Line)
            BY <4>1, <4>3, <4>4
          <5> QED
            BY <4>2, <4>3, <4>4, <5>1
        <4>5. CASE fd[w] \notin Inode
          BY <4>2, <4>3, <4>5
        <4> QED
          BY <4>4, <4>5
      <3>2. CASE OpenFile(w)
        BY <1>t, <3>2 DEF OpenFile, TypeOK
      <3> QED
        BY <1>t, <1>3, <3>1, <3>2 DEF WorkerStep, Search, SearchFails, WaitBuf, Close,
             SignalBuf, WorkerMoves, file, TypeOK
    <2>6. \A v \in Worker : wpc'[v] \in {"write", "signal"} => fd'[v] # -1
      <3>1. CASE OpenFile(w)
        <4>1. wpc' = [wpc EXCEPT ![w] = "write"] /\ fd' = [fd EXCEPT ![w] = out] /\ out # -1
          BY <1>t, <3>1 DEF OpenFile, WorkerAt, TypeOK, Inode
        <4> QED
          BY <1>t, <4>1 DEF TypeOK
      <3>2. CASE Search(w) \/ SearchFails(w) \/ WaitBuf(w) \/ Write(w) \/ Close(w) \/ SignalBuf(w)
        <4>1. /\ fd' = fd
              /\ \A v \in Worker : wpc'[v] \in {"write", "signal"} => wpc[v] \in {"write", "signal"}
          BY <1>t, <3>2 DEF Search, SearchFails, WaitBuf, Write, Close, SignalBuf, WorkerMoves,
               WorkerAt, file, TypeOK
        <4> QED
          BY <1>t, <4>1 DEF TypeOK
      <3> QED
        BY <1>3, <3>1, <3>2 DEF WorkerStep
    <2> QED
      BY <1>t, <2>1, <2>2, <2>3, <2>4, <2>5, <2>6 DEF TypeInv, TypeOK, serv, proc
  <1>4. CASE UNCHANGED vars
    BY <1>t, <1>4 DEF vars, serv, ipc, proc, file, hist, TypeInv, TypeOK
  <1> QED
    BY <1>1, <1>2, <1>3, <1>4 DEF Next

(* Types, for every value of the constants.                                 *)
THEOREM TypeCorrect == Spec => []TypeOK
  BY TypeInvInit, TypeInvNext, PTL DEF Spec, TypeInv
-----------------------------------------------------------------------------
(* A line is in the file its worker has opened, and its worker has counted  *)
(* it; a worker has written nothing before it opens the file.               *)
Placed ==
  /\ \A i \in Inode : \A j \in 1 .. Len(content[i]) :
       LET l == content[i][j] IN fd[l[1]] = i /\ 1 <= l[2] /\ l[2] <= written[l[1]]
  /\ \A w \in Worker :
       wpc[w] \in {"none", "search", "failed", "wait_buf", "fopen"} => written[w] = 0
  /\ \A w \in Worker : wpc[w] = "write" => fd[w] \in Inode

(* A worker in the middle of its lines wrote the last line of its file.     *)
WroteLast ==
  \A w \in Worker : wpc[w] = "write" /\ written[w] > 0 =>
    LET f == content[fd[w]] IN Len(f) > 0 /\ f[Len(f)] = <<w, written[w]>>

PieceInv == Placed /\ (~broken => WroteLast /\ \A i \in Inode : InOnePiece(content[i]))

LEMMA PieceInvInit == Init => PieceInv
  BY DEF Init, PieceInv, Placed, WroteLast, InOnePiece

(* A step in which no worker opens or writes.                               *)
LEMMA PieceQuiet ==
  ASSUME TypeInv, PieceInv, UNCHANGED <<content, fd, written>>, broken => broken',
         \A w \in Worker : wpc'[w] = "write" => wpc[w] = "write",
         \A w \in Worker : wpc'[w] \in {"none", "search", "failed", "wait_buf", "fopen"} =>
                             wpc[w] \in {"none", "search", "failed", "wait_buf", "fopen"}
  PROVE  PieceInv'
  BY DEF PieceInv, Placed, WroteLast, InOnePiece

(* One more line of a worker goes behind its last one.                      *)
LEMMA AppendInPiece ==
  ASSUME NEW f \in Seq(Line), NEW w \in Worker, NEW n \in Nat, InOnePiece(f),
         \A j \in 1 .. Len(f) : f[j][1] = w => 1 <= f[j][2] /\ f[j][2] <= n,
         n > 0 => Len(f) > 0 /\ f[Len(f)] = <<w, n>>
  PROVE  InOnePiece(Append(f, <<w, n + 1>>))
  <1> DEFINE g == Append(f, <<w, n + 1>>)
  <1>1. Len(g) = Len(f) + 1 /\ g[Len(f) + 1] = <<w, n + 1>> /\ \A i \in 1 .. Len(f) : g[i] = f[i]
    OBVIOUS
  <1>2. Len(f) \in Nat /\ \A i \in 1 .. Len(f) : f[i] = <<f[i][1], f[i][2]>> /\ f[i][2] \in Nat
    BY DEF Line
  <1> HIDE DEF g
  <1>3. SUFFICES ASSUME NEW j \in 1 .. Len(g), NEW k \in 1 .. Len(g), j <= k,
                        g[j][1] = g[k][1], NEW m \in j .. k
                 PROVE  g[m] = <<g[j][1], g[j][2] + m - j>>
    BY DEF InOnePiece, g
  <1>4. CASE k <= Len(f)
    <2>1. j \in 1 .. Len(f) /\ k \in 1 .. Len(f) /\ m \in 1 .. Len(f)
      BY <1>1, <1>2, <1>3, <1>4
    <2> QED
      BY <1>1, <1>3, <2>1 DEF InOnePiece
  <1>5. CASE k = Len(f) + 1 /\ j = Len(f) + 1
    BY <1>1, <1>2, <1>5
  <1>6. CASE k = Len(f) + 1 /\ j <= Len(f)
    <2>1. j \in 1 .. Len(f) /\ f[j][1] = w /\ g[j] = f[j]
      BY <1>1, <1>2, <1>3, <1>6
    <2>2. n > 0
      BY <1>2, <2>1
    <2>3. Len(f) \in 1 .. Len(f) /\ f[Len(f)] = <<w, n>>
      BY <1>2, <2>2
    <2>4. \A i \in j .. Len(f) : f[i] = <<w, f[j][2] + i - j>>
      BY <2>1, <2>3 DEF InOnePiece
    <2>5. Len(f) \in j .. Len(f)
      BY <1>2, <2>1
    <2>6. n = f[j][2] + Len(f) - j
      <3>1. <<w, n>> = <<w, f[j][2] + Len(f) - j>>
        BY <2>3, <2>4, <2>5
      <3> QED
        BY <3>1
    <2>7. CASE m = Len(f) + 1
      BY <1>1, <1>2, <2>1, <2>6, <2>7
    <2>8. CASE m \in j .. Len(f)
      <3>1. m \in 1 .. Len(f) /\ g[m] = f[m]
        BY <1>1, <1>2, <2>1, <2>8
      <3> QED
        BY <2>1, <2>4, <2>8, <3>1
    <2> QED
      BY <1>1, <1>2, <1>3, <1>6, <2>1, <2>7, <2>8
  <1> QED
    BY <1>1, <1>2, <1>3, <1>4, <1>5, <1>6

LEMMA PieceInvNext == TypeInv /\ BufInv /\ PieceInv /\ [Next]_vars => PieceInv'
  <1> SUFFICES ASSUME TypeInv, BufInv, PieceInv, [Next]_vars PROVE PieceInv'
    OBVIOUS
  <1> USE OutputAssumption
  <1>t. /\ wpc \in [Worker -> WorkerPc] /\ content \in [Inode -> Seq(Line)] /\ out \in Inode
        /\ fd \in [Worker -> Inode \cup {-1}] /\ written \in [Worker -> Nat]
    BY DEF TypeInv, TypeOK
  <1>p. Placed /\ (~broken => WroteLast /\ \A i \in Inode : InOnePiece(content[i]))
    BY DEF PieceInv
  <1>1. CASE ServerStep \/ ServerKilled \/ ExitArrives \/ CleanOs \/ UNCHANGED vars
    <2>1. UNCHANGED <<wpc, content, fd, written>>
      BY <1>1 DEF ServerStep, ServerStarts, InitFile, InitFileTo, InitBuf, Fork, Recurse,
           ExitSeen, Return, ServerKilled, ExitArrives, CleanOs, ServerMoves, ServerAt, file, vars
    <2>2. CASE InitBuf \/ CleanOs
      <3>1. broken => broken'
        BY <2>2, Zenon DEF InitBuf, CleanOs
      <3> QED
        BY <2>1, <3>1, PieceQuiet
    <2>3. CASE ~(InitBuf \/ CleanOs)
      <3>1. broken' = broken
        BY <1>1, <2>3 DEF ServerStep, ServerStarts, InitFile, InitFileTo, Fork, Recurse,
             ExitSeen, Return, ServerKilled, ExitArrives, ServerMoves, hist, vars
      <3> QED
        BY <2>1, <3>1, PieceQuiet
    <2> QED
      BY <2>2, <2>3
  <1>2. ASSUME NEW c \in Child, ChildStep(c) \/ ChildKilled(c)
                                  \/ \E w \in Worker : ChildOf[w] = c /\ OpenFails(w)
        PROVE  PieceInv'
    <2>1. UNCHANGED <<content, fd, written, broken>>
      BY <1>2 DEF ChildStep, ChildPlays, ChildStops, OpenDir, OpenDirFails, CreateWorker,
           CloseDir, JoinThreads, JoinBut, JoinFaults, ChildKilled, OpenFails, ChildMoves,
           ChildEnds, ChildAt, file, hist
    <2>2. \/ wpc' = wpc
          \/ \E w \in Worker : wpc[w] = "none" /\ \E l \in {"search", "failed"} :
                                 wpc' = [wpc EXCEPT ![w] = l]
          \/ wpc' = [w \in Worker |-> IF ChildOf[w] = c /\ wpc[w] \notin {"none", "done"}
                                        THEN "dead" ELSE wpc[w]]
      BY <1>2 DEF ChildStep, ChildPlays, ChildStops, OpenDir, OpenDirFails, CreateWorker,
           CloseDir, JoinThreads, JoinBut, JoinFaults, ChildKilled, OpenFails, ChildMoves, ChildEnds
    <2>3. /\ \A w \in Worker : wpc'[w] = "write" => wpc[w] = "write"
          /\ \A w \in Worker : wpc'[w] \in {"none", "search", "failed", "wait_buf", "fopen"} =>
                                 wpc[w] \in {"none", "search", "failed", "wait_buf", "fopen"}
      BY <1>t, <2>2
    <2> QED
      BY <2>1, <2>3, PieceQuiet
  <1>3. ASSUME NEW w \in Worker, Search(w) \/ SearchFails(w) \/ WaitBuf(w) \/ Close(w) \/ SignalBuf(w)
        PROVE  PieceInv'
    <2>1. UNCHANGED <<content, fd, written>> /\ (broken => broken')
      BY <1>3 DEF Search, SearchFails, WaitBuf, Close, SignalBuf, WorkerMoves, file
    <2>2. \/ wpc[w] \in {"search", "wait_buf"} /\ \E l \in {"wait_buf", "fopen", "done"} :
                                                     wpc' = [wpc EXCEPT ![w] = l]
          \/ \E l \in {"signal", "done"} : wpc' = [wpc EXCEPT ![w] = l]
      BY <1>3 DEF Search, SearchFails, WaitBuf, Close, SignalBuf, WorkerMoves, WorkerAt
    <2>3. /\ \A v \in Worker : wpc'[v] = "write" => wpc[v] = "write"
          /\ \A v \in Worker : wpc'[v] \in {"none", "search", "failed", "wait_buf", "fopen"} =>
                                 wpc[v] \in {"none", "search", "failed", "wait_buf", "fopen"}
      BY <1>t, <2>2
    <2> QED
      BY <2>1, <2>3, PieceQuiet
  <1>4. ASSUME NEW w \in Worker, OpenFile(w) PROVE PieceInv'
    <2>1. /\ wpc[w] = "fopen" /\ wpc' = [wpc EXCEPT ![w] = "write"]
          /\ fd' = [fd EXCEPT ![w] = out] /\ content' = content
          /\ written' = written /\ broken' = broken
      BY <1>t, <1>4 DEF OpenFile, WorkerAt
    <2>2. written[w] = 0
      BY <1>p, <2>1 DEF Placed
    <2>3. \A i \in Inode : \A j \in 1 .. Len(content[i]) : content[i][j][1] \in Worker \ {w}
      <3> SUFFICES ASSUME NEW i \in Inode, NEW j \in 1 .. Len(content[i])
                   PROVE  content[i][j][1] \in Worker \ {w}
        OBVIOUS
      <3>1. content[i][j] \in Line
        BY <1>t
      <3>2. content[i][j][1] \in Worker /\ content[i][j][2] \in Nat
        BY <3>1 DEF Line
      <3>3. 1 <= content[i][j][2] /\ content[i][j][2] <= written[content[i][j][1]]
        BY <1>p DEF Placed
      <3> QED
        BY <2>2, <3>2, <3>3
    <2>4. Placed'
      BY <1>t, <1>p, <2>1, <2>2, <2>3 DEF Placed
    <2>5. WroteLast => WroteLast'
      BY <1>t, <2>1, <2>2 DEF WroteLast
    <2> QED
      BY <1>p, <2>1, <2>4, <2>5 DEF PieceInv, InOnePiece
  <1>5. ASSUME NEW w \in Worker, Write(w) PROVE PieceInv'
    <2> DEFINE n == written[w]
               f == content[fd[w]]
    <2>1. /\ wpc[w] = "write" /\ wpc' = wpc /\ fd' = fd /\ broken' = broken
          /\ written' = [written EXCEPT ![w] = n + 1]
          /\ content' = [content EXCEPT ![fd[w]] = Append(f, <<w, n + 1>>)]
      BY <1>t, <1>5 DEF Write, WorkerAt
    <2>2. fd[w] \in Inode /\ f \in Seq(Line) /\ n \in Nat
      BY <1>t, <1>p, <2>1 DEF Placed
    <2>3. /\ content'[fd[w]] = Append(f, <<w, n + 1>>)
          /\ \A i \in Inode \ {fd[w]} : content'[i] = content[i]
      BY <1>t, <2>1, <2>2
    <2>4. /\ Len(content'[fd[w]]) = Len(f) + 1 /\ content'[fd[w]][Len(f) + 1] = <<w, n + 1>>
          /\ \A j \in 1 .. Len(f) : content'[fd[w]][j] = f[j]
      BY <2>2, <2>3
    <2>5. \A v \in Worker : written'[v] = IF v = w THEN n + 1 ELSE written[v]
      BY <1>t, <2>1
    <2>6. Placed'
      <3>1. ASSUME NEW i \in Inode, NEW j \in 1 .. Len(content'[i])
            PROVE  LET l == content'[i][j] IN fd'[l[1]] = i /\ 1 <= l[2] /\ l[2] <= written'[l[1]]
        <4>0. ASSUME NEW k \in 1 .. Len(content[i])
              PROVE  LET l == content[i][k] IN fd'[l[1]] = i /\ 1 <= l[2] /\ l[2] <= written'[l[1]]
          <5>1. content[i][k] \in Line
            BY <1>t
          <5>2. content[i][k][1] \in Worker /\ content[i][k][2] \in Nat
            BY <5>1 DEF Line
          <5>3. /\ fd[content[i][k][1]] = i
                /\ 1 <= content[i][k][2] /\ content[i][k][2] <= written[content[i][k][1]]
            BY <1>p DEF Placed
          <5> QED
            BY <1>t, <2>1, <2>5, <5>2, <5>3
        <4>1. CASE i # fd[w]
          BY <2>3, <4>0, <4>1
        <4>2. CASE i = fd[w] /\ j = Len(f) + 1
          BY <2>1, <2>2, <2>4, <2>5, <4>2
        <4>3. CASE i = fd[w] /\ j \in 1 .. Len(f)
          BY <2>4, <4>0, <4>3
        <4> QED
          BY <2>2, <2>4, <4>1, <4>2, <4>3
      <3>2. \A v \in Worker :
              wpc'[v] \in {"none", "search", "failed", "wait_buf", "fopen"} => written'[v] = 0
        BY <1>p, <2>1, <2>5 DEF Placed
      <3>3. \A v \in Worker : wpc'[v] = "write" => fd'[v] \in Inode
        BY <1>p, <2>1 DEF Placed
      <3> QED
        BY <3>1, <3>2, <3>3 DEF Placed
    <2>7. ASSUME ~broken' PROVE WroteLast' /\ \A i \in Inode : InOnePiece(content'[i])
      <3>0. WroteLast /\ (\A i \in Inode : InOnePiece(content[i])) /\ Token
        BY <1>p, <2>1, <2>7 DEF BufInv
      <3>1. \A v \in Worker : wpc[v] = "write" => v = w
        BY <2>1, <3>0 DEF Token, Holds
      <3>2. WroteLast'
        BY <2>1, <2>2, <2>4, <2>5, <3>1 DEF WroteLast
      <3>3. \A j \in 1 .. Len(f) : f[j][1] = w => 1 <= f[j][2] /\ f[j][2] <= n
        BY <1>p, <2>2 DEF Placed
      <3>4. n > 0 => Len(f) > 0 /\ f[Len(f)] = <<w, n>>
        BY <2>1, <3>0 DEF WroteLast
      <3>5. InOnePiece(Append(f, <<w, n + 1>>))
        BY <2>2, <3>0, <3>3, <3>4, AppendInPiece
      <3> QED
        BY <2>3, <3>0, <3>2, <3>5
    <2> QED
      BY <2>6, <2>7 DEF PieceInv, InOnePiece
  <1> QED
    BY <1>1, <1>2, <1>3, <1>4, <1>5 DEF Next, WorkerStep

(* In output.txt the lines of one file are in one piece and in order, for   *)
(* any number of children, files and lines and whoever is killed in the     *)
(* middle of them, unless the semaphore was taken from under a worker.      *)
THEOREM UnmixedCorrect == Spec => []Unmixed
  <1>1. PieceInv => Unmixed
    BY DEF PieceInv, Unmixed
  <1> QED
    BY <1>1, TypeInvInit, TypeInvNext, BufInvInit, BufInvNext, PieceInvInit, PieceInvNext, PTL DEF Spec
-----------------------------------------------------------------------------
(* What becomes of a worker's thread, its file and its lines: a thread runs *)
(* only between openDir and the end of its process, has a file only from    *)
(* fopen on, leaves fopen's file only after its last line, and is joined    *)
(* before exit(1).                                                          *)
Active == {"readdir", "join"}

ThreadInv ==
  \A w \in Worker :
    /\ pc[ChildOf[w]] \in {"none", "forked", "opendir"} => wpc[w] = "none"
    /\ wpc[w] \notin {"none", "done", "dead"} => pc[ChildOf[w]] \in Active
    /\ fd[w] # -1 => wpc[w] \in {"write", "signal", "done", "dead"}
    /\ pc[ChildOf[w]] = "exited" /\ wpc[w] = "dead" => fd[w] = -1
    /\ wpc[w] = "signal" \/ (wpc[w] = "done" /\ fd[w] # -1) => written[w] = Matches[w]

LEMMA ThreadInvInit == Init => ThreadInv
  BY OutputAssumption DEF Init, ThreadInv

(* The end of a process, after its threads were joined if by exit(1).       *)
LEMMA ThreadEnds ==
  ASSUME TypeInv, ThreadInv, NEW c \in Child, NEW l \in Ended, ChildEnds(c, l),
         l = "exited" => \A w \in Of(c) : wpc[w] \in {"none", "done", "failed"}
  PROVE  ThreadInv'
  <1>1. /\ pc \in [Child -> ChildPc] /\ wpc \in [Worker -> WorkerPc]
        /\ ChildOf \in [Worker -> Child]
    BY OutputAssumption DEF TypeInv, TypeOK
  <1>2. /\ pc' = [pc EXCEPT ![c] = l] /\ fd' = fd /\ written' = written
        /\ wpc' = [w \in Worker |-> IF ChildOf[w] = c /\ wpc[w] \notin {"none", "done"}
                                      THEN "dead" ELSE wpc[w]]
    BY DEF ChildEnds, ChildAt, file
  <1> SUFFICES ASSUME NEW w \in Worker
               PROVE  /\ pc'[ChildOf[w]] \in {"none", "forked", "opendir"} => wpc'[w] = "none"
                      /\ wpc'[w] \notin {"none", "done", "dead"} => pc'[ChildOf[w]] \in Active
                      /\ fd'[w] # -1 => wpc'[w] \in {"write", "signal", "done", "dead"}
                      /\ pc'[ChildOf[w]] = "exited" /\ wpc'[w] = "dead" => fd'[w] = -1
                      /\ wpc'[w] = "signal" \/ (wpc'[w] = "done" /\ fd'[w] # -1)
                           => written'[w] = Matches[w]
    BY DEF ThreadInv
  <1>3. CASE ChildOf[w] = c
    <2>1. pc'[ChildOf[w]] = l /\ wpc'[w] = IF wpc[w] \notin {"none", "done"} THEN "dead" ELSE wpc[w]
      BY <1>1, <1>2, <1>3
    <2>2. l = "exited" /\ wpc'[w] = "dead" => wpc[w] \in {"failed", "dead"}
      BY <1>1, <1>3, <2>1 DEF Of
    <2>3. l = "exited" => wpc[w] # "dead"
      BY <1>3 DEF Of
    <2> QED
      BY <1>2, <1>3, <2>1, <2>2, <2>3 DEF ThreadInv, Ended, Active
  <1>4. CASE ChildOf[w] # c
    BY <1>1, <1>2, <1>4 DEF ThreadInv
  <1> QED
    BY <1>3, <1>4

LEMMA ThreadInvNext == TypeInv /\ ThreadInv /\ [Next]_vars => ThreadInv'
  <1> SUFFICES ASSUME TypeInv, ThreadInv, [Next]_vars PROVE ThreadInv'
    OBVIOUS
  <1>t. /\ pc \in [Child -> ChildPc] /\ wpc \in [Worker -> WorkerPc]
        /\ fd \in [Worker -> Inode \cup {-1}] /\ written \in [Worker -> Nat]
        /\ ChildOf \in [Worker -> Child] /\ out \in Nat
    BY OutputAssumption DEF TypeInv, TypeOK, Inode
  <1>1. CASE \/ ServerStarts \/ InitFile \/ InitBuf \/ Recurse \/ ExitSeen \/ Return
             \/ ServerKilled \/ ExitArrives \/ CleanOs \/ UNCHANGED vars
    <2>1. UNCHANGED <<pc, wpc, fd, written>>
      BY <1>1 DEF ServerStarts, InitFile, InitFileTo, InitBuf, Recurse, ExitSeen, Return,
           ServerKilled, ExitArrives, CleanOs, ServerMoves, ServerAt, proc, file, vars
    <2> QED
      BY <2>1 DEF ThreadInv
  <1>2. ASSUME NEW c \in Child, Fork(c) PROVE ThreadInv'
    <2>1. /\ UNCHANGED <<wpc, fd, written>> /\ pc[c] = "none"
          /\ pc' = [pc EXCEPT ![c] = "forked"]
      BY <1>2 DEF Fork, ServerAt
    <2> QED
      BY <1>t, <2>1 DEF ThreadInv, Active
  <1>3. ASSUME NEW c \in Child, ChildPlays(c) \/ OpenDir(c) \/ CloseDir(c) PROVE ThreadInv'
    <2>1. UNCHANGED <<wpc, fd, written>>
      BY <1>3 DEF ChildPlays, OpenDir, CloseDir, ChildMoves, ChildAt, file
    <2>2. \E l \in {"opendir", "readdir", "join"} :
            /\ pc' = [pc EXCEPT ![c] = l]
            /\ l = "opendir" => pc[c] = "forked"
      BY <1>3 DEF ChildPlays, OpenDir, CloseDir, ChildMoves, ChildAt
    <2>3. pc[c] \in {"forked", "opendir", "readdir"}
      BY <1>3 DEF ChildPlays, OpenDir, CloseDir
    <2> QED
      BY <1>t, <2>1, <2>2, <2>3 DEF ThreadInv, Active
  <1>4. ASSUME NEW c \in Child, NEW w \in Worker, CreateWorker(c, w) PROVE ThreadInv'
    <2>1. UNCHANGED <<pc, fd, written>> /\ pc[ChildOf[w]] = "readdir" /\ wpc[w] = "none"
      BY <1>4 DEF CreateWorker, proc, file
    <2>2. \E l \in {"search", "failed"} : wpc' = [wpc EXCEPT ![w] = l]
      BY <1>4 DEF CreateWorker
    <2> QED
      BY <1>t, <2>1, <2>2 DEF ThreadInv, Active
  <1>5. ASSUME NEW c \in Child, OpenDirFails(c) \/ JoinFaults(c) \/ ChildKilled(c) PROVE ThreadInv'
    BY <1>5, ThreadEnds DEF OpenDirFails, JoinFaults, ChildKilled, Ended
  <1>6. ASSUME NEW c \in Child, ChildStops(c) PROVE ThreadInv'
    <2>1. \A w \in Of(c) : wpc[w] = "none"
      BY <1>6 DEF ChildStops, ThreadInv, Of
    <2> QED
      BY <1>6, <2>1, ThreadEnds DEF ChildStops, Ended
  <1>7. ASSUME NEW c \in Child, JoinThreads(c) PROVE ThreadInv'
    <2> DEFINE Late == {w \in Of(c) : wpc[w] \notin {"done", "failed"}}
    <2>1. Cardinality(Late) <= 0
      BY <1>7 DEF JoinThreads, JoinBut
    <2>2. IsFiniteSet(Late)
      <3>1. Late \subseteq Worker
        BY DEF Of
      <3> QED
        BY <3>1, OutputAssumption, FS_Subset
    <2> HIDE DEF Late
    <2>3. Late = {}
      BY <2>1, <2>2, FS_EmptySet, FS_CardinalityType
    <2>4. \A w \in Of(c) : wpc[w] \in {"done", "failed"}
      BY <2>3 DEF Late
    <2> QED
      BY <1>7, <2>4, ThreadEnds DEF JoinThreads, JoinBut, Ended
  <1>8. ASSUME NEW w \in Worker, OpenFails(w) PROVE ThreadInv'
    BY <1>8, <1>t, ThreadEnds DEF OpenFails, Ended
  <1>9. ASSUME NEW w \in Worker, Search(w) \/ SearchFails(w) \/ WaitBuf(w) PROVE ThreadInv'
    <2>1. UNCHANGED <<pc, fd, written>> /\ wpc[w] \in {"search", "wait_buf"}
      BY <1>9 DEF Search, SearchFails, WaitBuf, WorkerMoves, WorkerAt, proc, file
    <2>2. \E l \in {"wait_buf", "done", "fopen"} : wpc' = [wpc EXCEPT ![w] = l]
      BY <1>9 DEF Search, SearchFails, WaitBuf, WorkerMoves, WorkerAt
    <2> QED
      BY <1>t, <2>1, <2>2 DEF ThreadInv, Active
  <1>10. ASSUME NEW w \in Worker, OpenFile(w) PROVE ThreadInv'
    <2>1. /\ UNCHANGED <<pc, written>> /\ wpc[w] = "fopen" /\ wpc' = [wpc EXCEPT ![w] = "write"]
          /\ fd' = [fd EXCEPT ![w] = out]
      BY <1>10 DEF OpenFile, WorkerAt, proc
    <2> QED
      BY <1>t, <2>1 DEF ThreadInv, Active
  <1>11. ASSUME NEW w \in Worker, Write(w) PROVE ThreadInv'
    <2>1. /\ UNCHANGED <<pc, fd>> /\ wpc[w] = "write" /\ wpc' = wpc
          /\ \A v \in Worker \ {w} : written'[v] = written[v]
      BY <1>t, <1>11 DEF Write, WorkerAt, proc
    <2> QED
      BY <1>t, <2>1 DEF ThreadInv, Active
  <1>12. ASSUME NEW w \in Worker, Close(w) \/ SignalBuf(w) PROVE ThreadInv'
    <2>1. UNCHANGED <<pc, fd, written>>
      BY <1>12 DEF Close, SignalBuf, WorkerMoves, WorkerAt, proc, file
    <2>2. \/ wpc[w] = "write" /\ wpc' = [wpc EXCEPT ![w] = "signal"] /\ written[w] = Matches[w]
          \/ wpc[w] = "signal" /\ wpc' = [wpc EXCEPT ![w] = "done"]
      BY <1>12 DEF Close, SignalBuf, WorkerMoves, WorkerAt
    <2> QED
      BY <1>t, <2>1, <2>2 DEF ThreadInv, Active
  <1> QED
    BY <1>1, <1>2, <1>3, <1>4, <1>5, <1>6, <1>7, <1>8, <1>9, <1>10, <1>11, <1>12
    DEF Next, ServerStep, ChildStep, WorkerStep
-----------------------------------------------------------------------------
(* Every line a worker has counted is in the file it opened, in the order   *)
(* of its counting, also when another worker writes between them.           *)
LinesInv ==
  /\ \A w \in Worker : fd[w] # -1 =>
       \A k \in 1 .. written[w] : \E j \in 1 .. Len(content[fd[w]]) : content[fd[w]][j] = <<w, k>>
  /\ \A i \in Inode : \A j, k \in 1 .. Len(content[i]) :
       j < k /\ content[i][j][1] = content[i][k][1] => content[i][j][2] < content[i][k][2]

LEMMA LinesInvInit == Init => LinesInv
  BY DEF Init, LinesInv

LEMMA LinesInvNext == TypeInv /\ PieceInv /\ LinesInv /\ [Next]_vars => LinesInv'
  <1> SUFFICES ASSUME TypeInv, PieceInv, LinesInv, [Next]_vars PROVE LinesInv'
    OBVIOUS
  <1>t. /\ content \in [Inode -> Seq(Line)] /\ fd \in [Worker -> Inode \cup {-1}]
        /\ written \in [Worker -> Nat] /\ out \in Inode
    BY DEF TypeInv, TypeOK
  <1>p. Placed
    BY DEF PieceInv
  <1>1. CASE UNCHANGED <<content, fd, written>>
    BY <1>1 DEF LinesInv
  <1>2. ASSUME NEW w \in Worker, OpenFile(w) PROVE LinesInv'
    <2>1. /\ UNCHANGED <<content, written>> /\ wpc[w] = "fopen" /\ fd' = [fd EXCEPT ![w] = out]
      BY <1>2 DEF OpenFile, WorkerAt
    <2>2. written[w] = 0
      BY <1>p, <2>1 DEF Placed
    <2>3. ASSUME NEW v \in Worker, fd'[v] # -1, NEW k \in 1 .. written'[v]
          PROVE  \E j \in 1 .. Len(content'[fd'[v]]) : content'[fd'[v]][j] = <<v, k>>
      <3>1. v # w
        BY <2>1, <2>2, <2>3
      <3>2. fd'[v] = fd[v]
        BY <1>t, <2>1, <3>1
      <3> QED
        BY <2>1, <2>3, <3>2 DEF LinesInv
    <2> QED
      BY <2>1, <2>3 DEF LinesInv
  <1>3. ASSUME NEW w \in Worker, Write(w) PROVE LinesInv'
    <2> DEFINE n == written[w]
               f == content[fd[w]]
               g == content'[fd[w]]
    <2>1. /\ fd' = fd /\ written' = [written EXCEPT ![w] = n + 1] /\ wpc[w] = "write"
          /\ content' = [content EXCEPT ![fd[w]] = Append(f, <<w, n + 1>>)]
      BY <1>t, <1>3 DEF Write, WorkerAt
    <2>2. fd[w] \in Inode /\ f \in Seq(Line) /\ n \in Nat /\ Len(f) \in Nat
      BY <1>t, <1>p, <2>1 DEF Placed
    <2>3. /\ Len(g) = Len(f) + 1 /\ g[Len(f) + 1] = <<w, n + 1>>
          /\ \A j \in 1 .. Len(f) : g[j] = f[j]
          /\ \A i \in Inode \ {fd[w]} : content'[i] = content[i]
      BY <1>t, <2>1, <2>2
    <2>4. \A v \in Worker : written'[v] = IF v = w THEN n + 1 ELSE written[v]
      BY <1>t, <2>1
    <2>5. \A j \in 1 .. Len(f) : f[j][1] = w => f[j][2] < n + 1
      <3> TAKE j \in 1 .. Len(f)
      <3>1. f[j] \in Line
        BY <2>2
      <3>2. f[j][2] \in Nat
        BY <3>1 DEF Line
      <3>3. f[j][1] = w => f[j][2] <= n
        BY <1>p, <2>2 DEF Placed
      <3> QED
        BY <2>2, <3>2, <3>3
    <2> HIDE DEF n, f, g
    <2>6. ASSUME NEW v \in Worker, fd[v] # -1, NEW k \in 1 .. written'[v]
          PROVE  \E j \in 1 .. Len(content'[fd[v]]) : content'[fd[v]][j] = <<v, k>>
      <3>1. CASE v = w /\ k = n + 1
        BY <2>2, <2>3, <3>1 DEF g
      <3>2. CASE ~(v = w /\ k = n + 1)
        <4>1. k \in 1 .. written[v]
          BY <1>t, <2>4, <3>2 DEF n
        <4>2. PICK j \in 1 .. Len(content[fd[v]]) : content[fd[v]][j] = <<v, k>>
          BY <2>6, <4>1 DEF LinesInv
        <4>3. fd[v] \in Inode
          BY <1>t, <2>6
        <4>4. CASE fd[v] = fd[w]
          <5>1. j \in 1 .. Len(f) /\ f[j] = <<v, k>>
            BY <4>2, <4>4 DEF f
          <5>2. j \in 1 .. Len(g) /\ g[j] = <<v, k>>
            BY <2>2, <2>3, <5>1
          <5> QED
            BY <4>4, <5>2 DEF g
        <4>5. CASE fd[v] # fd[w]
          BY <2>3, <4>2, <4>3, <4>5
        <4> QED
          BY <4>4, <4>5
      <3> QED
        BY <3>1, <3>2
    <2>7. ASSUME NEW i \in Inode, NEW j \in 1 .. Len(content'[i]), NEW k \in 1 .. Len(content'[i]),
                 j < k, content'[i][j][1] = content'[i][k][1]
          PROVE  content'[i][j][2] < content'[i][k][2]
      <3>1. CASE i # fd[w]
        BY <2>3, <2>7, <3>1 DEF LinesInv
      <3>2. CASE i = fd[w]
        <4>0. content'[i] = g /\ j \in 1 .. Len(f)
          BY <2>2, <2>3, <2>7, <3>2 DEF g
        <4>1. CASE k \in 1 .. Len(f)
          <5>1. f[j][1] = f[k][1]
            BY <2>3, <2>7, <4>0, <4>1
          <5>2. f[j][2] < f[k][2]
            BY <2>2, <2>7, <4>0, <4>1, <5>1 DEF LinesInv, f
          <5> QED
            BY <2>3, <4>0, <4>1, <5>2
        <4>2. CASE k = Len(f) + 1
          <5>1. f[j][1] = w
            BY <2>3, <2>7, <4>0, <4>2
          <5> QED
            BY <2>3, <2>5, <4>0, <4>2, <5>1
        <4> QED
          BY <2>2, <2>3, <2>7, <4>0, <4>1, <4>2
      <3> QED
        BY <3>1, <3>2
    <2>8. \A v \in Worker : fd'[v] # -1 =>
            \A k \in 1 .. written'[v] :
              \E j \in 1 .. Len(content'[fd'[v]]) : content'[fd'[v]][j] = <<v, k>>
      BY <2>1, <2>6, Zenon
    <2>9. \A i \in Inode : \A j, k \in 1 .. Len(content'[i]) :
            j < k /\ content'[i][j][1] = content'[i][k][1] => content'[i][j][2] < content'[i][k][2]
      BY <2>7, Zenon
    <2> QED
      BY <2>8, <2>9, Zenon DEF LinesInv
  <1>4. CASE ServerStep \/ ServerKilled \/ ExitArrives \/ CleanOs \/ UNCHANGED vars
    BY <1>1, <1>4 DEF ServerStep, ServerStarts, InitFile, InitFileTo, InitBuf, Fork, Recurse,
         ExitSeen, Return, ServerKilled, ExitArrives, CleanOs, ServerMoves, ServerAt, file, vars
  <1>5. ASSUME NEW c \in Child, ChildStep(c) \/ ChildKilled(c) PROVE LinesInv'
    BY <1>1, <1>5 DEF ChildStep, ChildPlays, ChildStops, OpenDir, OpenDirFails, CreateWorker,
         CloseDir, JoinThreads, JoinBut, JoinFaults, ChildKilled, ChildMoves, ChildEnds, ChildAt, file
  <1>6. ASSUME NEW w \in Worker,
               Search(w) \/ SearchFails(w) \/ WaitBuf(w) \/ OpenFails(w) \/ Close(w) \/ SignalBuf(w)
        PROVE  LinesInv'
    BY <1>1, <1>6 DEF Search, SearchFails, WaitBuf, OpenFails, Close, SignalBuf, WorkerMoves,
         ChildEnds, ChildAt, file
  <1> QED
    BY <1>2, <1>3, <1>4, <1>5, <1>6 DEF Next, WorkerStep

LEMMA WholeFromInv == TypeInv /\ ThreadInv /\ PieceInv /\ LinesInv => WholeOutput
  <1> SUFFICES ASSUME TypeInv, ThreadInv, PieceInv, LinesInv, NEW w \in Worker,
                      pc[ChildOf[w]] = "exited", fd[w] # -1
               PROVE  LET f == content[fd[w]]
                      IN  /\ {f[j][2] : j \in LinesOf(w, fd[w])} = 1 .. Matches[w]
                          /\ \A j, k \in LinesOf(w, fd[w]) : j < k => f[j][2] < f[k][2]
                          /\ \A i \in Inode \ {fd[w]} : LinesOf(w, i) = {}
    BY DEF WholeOutput
  <1> DEFINE f == content[fd[w]]
  <1>1. fd[w] \in Inode /\ f \in Seq(Line) /\ \A j \in 1 .. Len(f) : f[j] \in Line
    BY DEF TypeInv, TypeOK
  <1>2. written[w] = Matches[w] /\ Matches[w] \in Nat
    BY OutputAssumption DEF ThreadInv, TypeInv, TypeOK, Active
  <1>3. Placed
    BY DEF PieceInv
  <1>4. ASSUME NEW j \in LinesOf(w, fd[w]) PROVE j \in 1 .. Len(f) /\ f[j][2] \in 1 .. Matches[w]
    <2>1. j \in 1 .. Len(f) /\ f[j][1] = w
      BY DEF LinesOf
    <2>2. f[j][2] \in Nat
      BY <1>1, <2>1 DEF Line
    <2>3. 1 <= f[j][2] /\ f[j][2] <= written[w]
      BY <1>1, <1>3, <2>1 DEF Placed
    <2> QED
      BY <1>2, <2>1, <2>2, <2>3
  <1>5. ASSUME NEW k \in 1 .. Matches[w] PROVE \E j \in LinesOf(w, fd[w]) : f[j][2] = k
    <2>1. PICK j \in 1 .. Len(f) : f[j] = <<w, k>>
      BY <1>2 DEF LinesInv
    <2> QED
      BY <2>1 DEF LinesOf
  <1>6. {f[j][2] : j \in LinesOf(w, fd[w])} = 1 .. Matches[w]
    BY <1>4, <1>5
  <1>7. \A j, k \in LinesOf(w, fd[w]) : j < k => f[j][2] < f[k][2]
    BY <1>1 DEF LinesOf, LinesInv
  <1>8. \A i \in Inode \ {fd[w]} : LinesOf(w, i) = {}
    BY <1>3 DEF Placed, LinesOf
  <1> QED
    BY <1>6, <1>7, <1>8

(* joinThreads before exit(1) is enough for whole output, for any number of *)
(* children, files, lines, kills and lost semaphores.                       *)
THEOREM WholeCorrect == Spec => []WholeOutput
  <1>1. Init => TypeInv /\ BufInv /\ ThreadInv /\ PieceInv /\ LinesInv
    BY TypeInvInit, BufInvInit, ThreadInvInit, PieceInvInit, LinesInvInit
  <1>2. TypeInv /\ BufInv /\ ThreadInv /\ PieceInv /\ LinesInv /\ [Next]_vars
          => (TypeInv /\ BufInv /\ ThreadInv /\ PieceInv /\ LinesInv)'
    BY TypeInvNext, BufInvNext, ThreadInvNext, PieceInvNext, LinesInvNext
  <1> QED
    BY <1>1, <1>2, WholeFromInv, PTL DEF Spec
-----------------------------------------------------------------------------
(* Whose lines may get into the running server's output.txt: no worker has  *)
(* a file that is yet to be made, and the children that are at work, or     *)
(* whose workers opened the present file, are the running server's or were  *)
(* late for its init_file.                                                  *)
AtWork(c) == pc[c] \notin {"none"} \cup Ended

LateInv ==
  /\ \A w \in Worker : fd[w] <= out
  /\ Running =>
       /\ \A c \in Child : AtWork(c) => owner[c] = starts \/ c \in late
       /\ \A w \in Worker : fd[w] = out => owner[ChildOf[w]] = starts \/ ChildOf[w] \in late

LEMMA LateInvInit == Init => LateInv
  BY DEF Init, LateInv, Running

LEMMA LateInvNext == TypeInv /\ ThreadInv /\ LateInv /\ [Next]_vars => LateInv'
  <1> SUFFICES ASSUME TypeInv, ThreadInv, LateInv, [Next]_vars PROVE LateInv'
    OBVIOUS
  <1>t. /\ pc \in [Child -> ChildPc] /\ fd \in [Worker -> Inode \cup {-1}] /\ out \in Nat
        /\ owner \in [Child -> 0 .. MaxServers] /\ ChildOf \in [Worker -> Child]
        /\ \A w \in Worker : fd[w] \in Int
    BY OutputAssumption DEF TypeInv, TypeOK, Inode
  <1>1. CASE InitFile
    <2>1. /\ out' = out + 1 /\ late' = {c \in Child : AtWork(c)}
          /\ UNCHANGED <<fd, pc, owner, starts>>
      BY <1>1 DEF InitFile, InitFileTo, ServerAt, proc, AtWork
    <2>2. \A w \in Worker : fd[w] <= out /\ fd[w] # out + 1 /\ fd[w] <= out + 1
      BY <1>t DEF LateInv
    <2> QED
      BY <1>t, <2>1, <2>2 DEF LateInv, AtWork
  <1>2. CASE ServerStarts \/ ServerKilled
    <2>1. UNCHANGED <<out, fd>> /\ ~Running'
      BY <1>2 DEF ServerStarts, ServerKilled, ServerAt, file, Running
    <2> QED
      BY <2>1 DEF LateInv
  <1>3. CASE InitBuf \/ Recurse \/ ExitSeen \/ Return \/ ExitArrives \/ CleanOs \/ UNCHANGED vars
    <2>1. UNCHANGED <<out, fd, pc, owner, starts, late>>
      BY <1>3 DEF InitBuf, Recurse, ExitSeen, Return, ExitArrives, CleanOs, ServerMoves, ServerAt,
           file, proc, hist, serv, vars
    <2>2. Running' => Running
      BY <1>3 DEF InitBuf, Recurse, ExitSeen, Return, ExitArrives, CleanOs, ServerMoves, ServerAt,
           serv, vars, Running
    <2> QED
      BY <2>1, <2>2 DEF LateInv, AtWork
  <1>4. ASSUME NEW c \in Child, Fork(c) PROVE LateInv'
    <2>1. /\ UNCHANGED <<out, fd, starts, late>> /\ Running
          /\ pc' = [pc EXCEPT ![c] = "forked"] /\ owner' = [owner EXCEPT ![c] = starts]
      BY <1>4 DEF Fork, ServerAt, hist, Running
    <2> QED
      BY <1>t, <2>1 DEF LateInv, AtWork
  <1>5. ASSUME NEW c \in Child, ChildStep(c) \/ ChildKilled(c)
                                  \/ \E w \in Worker : ChildOf[w] = c /\ OpenFails(w)
        PROVE  LateInv'
    <2>1. UNCHANGED <<out, fd, starts, spc, owner, late>>
      BY <1>5 DEF ChildStep, ChildPlays, ChildStops, OpenDir, OpenDirFails, CreateWorker,
           CloseDir, JoinThreads, JoinBut, JoinFaults, ChildKilled, OpenFails, ChildMoves,
           ChildEnds, ChildAt, file, proc, serv, hist
    <2>2. \/ pc' = pc
          \/ /\ pc[c] \notin {"none"} \cup Ended
             /\ \E l \in ChildPc : pc' = [pc EXCEPT ![c] = l]
          \/ \E l \in Ended : pc' = [pc EXCEPT ![c] = l]
      BY <1>5 DEF ChildStep, ChildPlays, ChildStops, OpenDir, OpenDirFails, CreateWorker,
           CloseDir, JoinThreads, JoinBut, JoinFaults, ChildKilled, OpenFails, ChildMoves,
           ChildEnds, ChildAt, proc, Ended, ChildPc
    <2>3. \A d \in Child : AtWork(d)' => AtWork(d)
      BY <1>t, <2>2 DEF AtWork, Ended
    <2> QED
      BY <2>1, <2>3 DEF LateInv, Running
  <1>6. ASSUME NEW w \in Worker, OpenFile(w) PROVE LateInv'
    <2>1. /\ UNCHANGED <<pc, out, starts, spc, owner, late>> /\ wpc[w] = "fopen"
          /\ fd' = [fd EXCEPT ![w] = out]
      BY <1>6 DEF OpenFile, WorkerAt, proc, serv
    <2>2. AtWork(ChildOf[w]) /\ ChildOf[w] \in Child
      BY <1>t, <2>1 DEF ThreadInv, AtWork, Active, Ended
    <2> QED
      BY <1>t, <2>1, <2>2 DEF LateInv, Running, AtWork
  <1>7. ASSUME NEW w \in Worker,
               Search(w) \/ SearchFails(w) \/ WaitBuf(w) \/ Write(w) \/ Close(w) \/ SignalBuf(w)
        PROVE  LateInv'
    <2>1. UNCHANGED <<pc, out, fd, starts, spc, owner, late>>
      BY <1>7 DEF Search, SearchFails, WaitBuf, Write, Close, SignalBuf, WorkerMoves, WorkerAt,
           proc, serv, file
    <2> QED
      BY <2>1 DEF LateInv, Running, AtWork
  <1> QED
    BY <1>1, <1>2, <1>3, <1>4, <1>5, <1>6, <1>7, <1>t DEF Next, ServerStep, WorkerStep

(* Only a child that outlived init_file brings an older server's lines into *)
(* output.txt, however many servers, children and kills there are.          *)
THEOREM OwnOrLateCorrect == Spec => []OwnOrLate
  <1>1. Init => TypeInv /\ BufInv /\ ThreadInv /\ PieceInv /\ LateInv
    BY TypeInvInit, BufInvInit, ThreadInvInit, PieceInvInit, LateInvInit
  <1>2. TypeInv /\ BufInv /\ ThreadInv /\ PieceInv /\ LateInv /\ [Next]_vars
          => (TypeInv /\ BufInv /\ ThreadInv /\ PieceInv /\ LateInv)'
    BY TypeInvNext, BufInvNext, ThreadInvNext, PieceInvNext, LateInvNext
  <1>3. TypeInv /\ PieceInv /\ LateInv => OwnOrLate
    <2> SUFFICES ASSUME TypeInv, PieceInv, LateInv, Running, NEW j \in 1 .. Len(content[out])
                 PROVE  LET c == ChildOf[content[out][j][1]] IN owner[c] = starts \/ c \in late
      BY DEF OwnOrLate
    <2>1. out \in Inode /\ content[out] \in Seq(Line)
      BY DEF TypeInv, TypeOK
    <2>2. content[out][j][1] \in Worker
      BY <2>1 DEF Line
    <2>3. fd[content[out][j][1]] = out
      BY <2>1 DEF PieceInv, Placed
    <2> QED
      BY <2>2, <2>3 DEF LateInv
  <1> QED
    BY <1>1, <1>2, <1>3, PTL DEF Spec
=============================================================================
