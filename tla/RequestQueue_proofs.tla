------------------------ MODULE RequestQueue_proofs ------------------------
(***************************************************************************)
(* Theorems about RequestQueue, for any number of clients, requests and     *)
(* directories, any lines and any number of kills and restarts unless the   *)
(* theorem says otherwise.                                                  *)
(***************************************************************************)
EXTENDS RequestQueue, SequenceTheorems, FiniteSetTheorems, TLAPS

(* The part of TypeOK that the semaphores depend on.                        *)
SemTypeOK ==
  /\ semval \in [Sem -> Nat] /\ semadj \in [Proc -> [Sem -> Int]]
  /\ cpc \in [Client -> ClientPc]
  /\ kpc \in [Request -> ChildPc]

(* Between init_shm's sem_ini and its signals.                              *)
Starting == spc \in {"init_shm", "signal_rq"}

(* Where the one token of SEMrq is: nowhere until init_shm's signals, then  *)
(* in the semaphore, or with the one client that writes, whose undo value   *)
(* gives it back; or gone with the server, whose own undo value can only    *)
(* take it away.                                                            *)
Token ==
  /\ semval[SEMrq] \in {0, 1}
  /\ \A c \in Client : Writing(c) => semadj[c][SEMrq] = 1 /\ semval[SEMrq] = 0
  /\ \A c \in Client : ~Writing(c) => semadj[c][SEMrq] = 0
  /\ \A r \in Request : semadj[r][SEMrq] = 0
  /\ semadj[Server][SEMrq] \in {0, -1}
  /\ Starting => /\ semval[SEMrq] = 0 /\ semadj[Server][SEMrq] = 0
                 /\ \A c \in Client : ~Writing(c)
  /\ \A c, d \in Client : Writing(c) /\ Writing(d) => c = d

(* Nothing is known any more once a new server has reset SEMrq under a      *)
(* client that holds it.                                                    *)
TokenInv == ~overlap => Token

RqInv == SemTypeOK /\ TokenInv

-----------------------------------------------------------------------------
(* What the operations of SysVSem do to the types and to SEMrq.             *)

LEMMA SetValEffect ==
  ASSUME SemTypeOK, NEW x \in Sem, NEW v \in Nat, K!SetVal(x, v)
  PROVE  /\ semval' \in [Sem -> Nat] /\ semadj' \in [Proc -> [Sem -> Int]]
         /\ semval'[SEMrq] = IF x = SEMrq THEN v ELSE semval[SEMrq]
         /\ \A p \in Proc : semadj'[p][SEMrq] = IF x = SEMrq THEN 0 ELSE semadj[p][SEMrq]
  BY DEF K!SetVal, SemTypeOK, Sem

LEMMA WaitsEffect ==
  ASSUME SemTypeOK, NEW p \in Proc, NEW x \in Sem, K!Waits(p, x)
  PROVE  /\ semval' \in [Sem -> Nat] /\ semadj' \in [Proc -> [Sem -> Int]]
         /\ semval[x] > 0
         /\ semval'[SEMrq] = IF x = SEMrq THEN semval[SEMrq] - 1 ELSE semval[SEMrq]
         /\ \A q \in Proc : semadj'[q][SEMrq] = IF x = SEMrq /\ q = p THEN semadj[q][SEMrq] + 1
                                                                 ELSE semadj[q][SEMrq]
  BY DEF K!Waits, SemTypeOK, Sem

LEMMA SignalsEffect ==
  ASSUME SemTypeOK, NEW p \in Proc, NEW x \in Sem, K!Signals(p, x)
  PROVE  /\ semval' \in [Sem -> Nat] /\ semadj' \in [Proc -> [Sem -> Int]]
         /\ semval'[SEMrq] = IF x = SEMrq THEN semval[SEMrq] + 1 ELSE semval[SEMrq]
         /\ \A q \in Proc : semadj'[q][SEMrq] = IF x = SEMrq /\ q = p THEN semadj[q][SEMrq] - 1
                                                                 ELSE semadj[q][SEMrq]
  BY DEF K!Signals, SemTypeOK, Sem

LEMMA UndoEffect ==
  ASSUME SemTypeOK, NEW p \in Proc, K!Undo(p)
  PROVE  /\ semval' \in [Sem -> Nat] /\ semadj' \in [Proc -> [Sem -> Int]]
         /\ semval'[SEMrq] = IF semval[SEMrq] + semadj[p][SEMrq] > 0
                               THEN semval[SEMrq] + semadj[p][SEMrq] ELSE 0
         /\ \A q \in Proc : semadj'[q][SEMrq] = IF q = p THEN 0 ELSE semadj[q][SEMrq]
  BY DEF K!Undo, SemTypeOK, Sem

(* Whatever a step does to the semaphores is one operation of SysVSem.      *)
LEMMA TypeKeeps == SemTypeOK /\ [Next]_vars => SemTypeOK'
  <1> SUFFICES ASSUME SemTypeOK, [Next]_vars PROVE SemTypeOK'
    OBVIOUS
  <1>p. /\ Server \in Proc /\ SEMrq \in Sem /\ \A c \in Client : c \in Proc
        /\ \A r \in Request : r \in Proc /\ DirOf[r] \in Sem
    BY QueueAssumption DEF Proc, Sem
  <1> DEFINE IpcStep == \/ UNCHANGED ipc
                        \/ \E x \in Sem, v \in Nat : K!SetVal(x, v)
                        \/ \E q \in Proc, x \in Sem : K!Waits(q, x) \/ K!Signals(q, x)
                        \/ \E q \in Proc : K!Undo(q)
  <1>1. ASSUME ServerStep \/ ServerKilled \/ ServerRestarts
        PROVE  IpcStep /\ cpc' = cpc /\ kpc' \in [Request -> ChildPc]
    <2>1. CASE InitSem
      BY <1>p, <2>1 DEF InitSem, InitSemTo, ServerAt, cli, SemTypeOK
    <2>2. CASE SignalRq
      BY <1>p, <2>2 DEF SignalRq, ServerAt, cli, SemTypeOK
    <2>3. CASE DequeueItem
      BY <1>p, <2>3 DEF DequeueItem, DequeueTo, cli, SemTypeOK
    <2>4. CASE CountOverrunFaults \/ DequeueOverrun \/ Return \/ ServerKilled
      BY <1>p, <2>4 DEF CountOverrunFaults, DequeueOverrun, Return, ServerKilled, ServerEnds,
                        ServerAt, cli, SemTypeOK
    <2>5. CASE \/ InitShm \/ Loop \/ Count \/ CountOverrunReturns \/ Recheck \/ Fork
               \/ ForkFails \/ ForkSkipped \/ Recurse \/ ParentExit \/ ServerRestarts
      BY <2>5 DEF InitShm, Loop, Count, CountAbove, CountOverrunReturns, Recheck, Fork, ForkFails,
                  ForkSkipped, Recurse, ParentExit, ServerRestarts, ServerMoves, ServerAt,
                  cli, SemTypeOK, ChildPc
    <2> QED
      BY <1>1, <2>1, <2>2, <2>3, <2>4, <2>5 DEF ServerStep
  <1>2. ASSUME NEW r \in Request, ChildStep(r)
        PROVE  IpcStep /\ cpc' = cpc /\ kpc' \in [Request -> ChildPc]
    <2>1. cpc' = cpc /\ kpc' \in [Request -> ChildPc]
      BY <1>2 DEF ChildStep, ChildCheck, ChildStops, ChildSets, ChildWaitFr, ChildOpens,
                  ChildOpenFails, ChildSignalFr, ChildExits, ChildEnds, ChildMoves, cli,
                  SemTypeOK, ChildPc
    <2>2. CASE ChildSets(r)
      BY <2>1, <2>2, QueueAssumption DEF ChildSets, SetZero
    <2>3. CASE ~ChildSets(r)
      BY <1>p, <1>2, <2>1, <2>3
      DEF ChildStep, ChildCheck, ChildStops, ChildWaitFr, ChildOpens, ChildOpenFails,
          ChildSignalFr, ChildExits, ChildEnds
    <2> QED
      BY <2>2, <2>3
  <1>3. ASSUME NEW c \in Client, ClientStarts(c) \/ ClientStep(c) \/ ClientKilled(c)
        PROVE  IpcStep /\ kpc' = kpc /\ cpc' \in [Client -> ClientPc]
    <2>1. kpc' = kpc /\ cpc' \in [Client -> ClientPc]
      BY <1>3 DEF ClientStarts, ClientStep, ClientKilled, ClientWaits, Seek, SeekFrom,
                  SeekOverrunFaults, SeekOverrunReturns, Memcpy, WriteGt, WriteLt, WriteFaults,
                  ClientSignals, ClientReturns, ClientEnds, ClientMoves, ClientAt, SemTypeOK, ClientPc
    <2>2. IpcStep
      BY <1>p, <1>3
      DEF ClientStarts, ClientStep, ClientKilled, ClientWaits, Seek, SeekFrom,
          SeekOverrunFaults, SeekOverrunReturns, Memcpy, WriteGt, WriteLt, WriteFaults,
          ClientSignals, ClientReturns, ClientEnds
    <2> QED
      BY <2>1, <2>2
  <1>4. CASE UNCHANGED vars
    BY <1>4 DEF vars, ipc, cli, SemTypeOK
  <1>5. ASSUME IpcStep PROVE semval' \in [Sem -> Nat] /\ semadj' \in [Proc -> [Sem -> Int]]
    <2>1. CASE UNCHANGED ipc
      BY <2>1 DEF ipc, SemTypeOK
    <2>2. CASE \E x \in Sem, v \in Nat : K!SetVal(x, v)
      BY <2>2, SetValEffect
    <2>3. CASE \E q \in Proc, x \in Sem : K!Waits(q, x) \/ K!Signals(q, x)
      BY <2>3, WaitsEffect, SignalsEffect
    <2>4. CASE \E q \in Proc : K!Undo(q)
      BY <2>4, UndoEffect
    <2> QED
      BY <1>5, <2>1, <2>2, <2>3, <2>4
  <1> QED
    BY <1>1, <1>2, <1>3, <1>4, <1>5 DEF Next, SemTypeOK

(* A step that leaves SEMrq and the clients alone.                          *)
LEMMA Frame ==
  ASSUME Token, SemTypeOK,
         semval'[SEMrq] = semval[SEMrq],
         \A p \in Proc : semadj'[p][SEMrq] = semadj[p][SEMrq],
         cpc' = cpc, Starting' => Starting
  PROVE  Token'
  BY DEF Token, Writing, Proc

(* A server or child that ends has no token to give back.                   *)
LEMMA FrameUndo ==
  ASSUME Token, SemTypeOK, NEW p \in Request \cup {Server}, K!Undo(p),
         cpc' = cpc, Starting' => Starting
  PROVE  Token'
  <1>1. p \in Proc
    BY DEF Proc
  <1>2. /\ semval'[SEMrq] = IF semval[SEMrq] + semadj[p][SEMrq] > 0
                              THEN semval[SEMrq] + semadj[p][SEMrq] ELSE 0
        /\ \A q \in Proc : semadj'[q][SEMrq] = IF q = p THEN 0 ELSE semadj[q][SEMrq]
    BY <1>1, UndoEffect
  <1>3. semadj[p][SEMrq] \in {0, -1}
    BY DEF Token
  <1>4. semval'[SEMrq] \in {0, 1} /\ (semval[SEMrq] = 0 => semval'[SEMrq] = 0)
    BY <1>2, <1>3 DEF Token
  <1>5. \A c \in Client : c # p /\ c \in Proc
    BY QueueAssumption DEF Proc
  <1>6. Server \in Proc /\ \A r \in Request : r \in Proc
    BY DEF Proc
  <1> QED
    BY <1>2, <1>4, <1>5, <1>6 DEF Token, Writing

(* A client that ends gives back the token it has, and only that.           *)
LEMMA ClientEndKeeps ==
  ASSUME Token, SemTypeOK, NEW c \in Client, K!Undo(c),
         cpc' = [cpc EXCEPT ![c] = "exited"], spc' = spc
  PROVE  Token'
  <1>1. c \in Proc /\ Server \in Proc /\ Server # c
    BY QueueAssumption DEF Proc
  <1>2. /\ semval'[SEMrq] = IF semval[SEMrq] + semadj[c][SEMrq] > 0
                              THEN semval[SEMrq] + semadj[c][SEMrq] ELSE 0
        /\ \A q \in Proc : semadj'[q][SEMrq] = IF q = c THEN 0 ELSE semadj[q][SEMrq]
    BY <1>1, UndoEffect
  <1>3. \A d \in Client : d \in Proc /\ Writing(d)' = (d # c /\ Writing(d))
    BY DEF Proc, Writing, SemTypeOK
  <1>4. \A r \in Request : r \in Proc /\ r # c
    BY QueueAssumption DEF Proc
  <1>5. CASE Writing(c)
    <2>1. semval'[SEMrq] = 1 /\ ~Starting
      BY <1>2, <1>5 DEF Token
    <2>2. \A d \in Client : ~Writing(d)'
      BY <1>3, <1>5 DEF Token
    <2>3. \A d \in Client : semadj'[d][SEMrq] = 0
      BY <1>2, <1>3, <1>5 DEF Token
    <2> QED
      BY <2>1, <2>2, <2>3, <1>1, <1>2, <1>4 DEF Token, Starting
  <1>6. CASE ~Writing(c)
    <2>1. semval'[SEMrq] = semval[SEMrq]
      BY <1>2, <1>6 DEF Token
    <2> QED
      BY <2>1, <1>1, <1>2, <1>3, <1>4 DEF Token, Starting
  <1> QED
    BY <1>5, <1>6

-----------------------------------------------------------------------------
LEMMA RqInvInit == Init => RqInv
  BY QueueAssumption
  DEF Init, RqInv, SemTypeOK, TokenInv, Token, Starting, Writing, ClientPc, ChildPc, Sem, Proc

(* A step, a kill or a start of the server.                                 *)
LEMMA ServerKeeps ==
  ASSUME SemTypeOK, Token, ~overlap', ServerStep \/ ServerKilled \/ ServerRestarts
  PROVE  Token'
  <1>p. /\ Server \in Proc /\ Server \in Request \cup {Server} /\ SEMrq \in Sem
        /\ \A c \in Client : c \in Proc /\ c # Server
        /\ \A r \in Request : r \in Proc /\ r # Server /\ DirOf[r] \in Sem /\ DirOf[r] # SEMrq
    BY QueueAssumption DEF Proc, Sem
  <1>1. CASE InitSem
    <2>1. cpc' = cpc /\ K!SetVal(SEMrq, 0) /\ \A c \in Client : ~Writing(c)
      BY <1>1 DEF InitSem, InitSemTo, ServerAt, cli
    <2>2. semval'[SEMrq] = 0 /\ \A p \in Proc : semadj'[p][SEMrq] = 0
      BY <1>p, <2>1, SetValEffect
    <2> QED
      BY <1>p, <2>1, <2>2 DEF Token, Writing
  <1>2. CASE SignalRq
    <2>1. cpc' = cpc /\ Starting /\ ~Starting' /\ K!Signals(Server, SEMrq)
      BY <1>2 DEF SignalRq, ServerAt, cli, Starting
    <2>2. /\ semval'[SEMrq] = semval[SEMrq] + 1
          /\ semadj'[Server][SEMrq] = semadj[Server][SEMrq] - 1
          /\ \A q \in Proc \ {Server} : semadj'[q][SEMrq] = semadj[q][SEMrq]
      BY <1>p, <2>1, SignalsEffect
    <2>3. \A c \in Client : ~Writing(c) /\ ~Writing(c)'
      BY <2>1 DEF Token, Writing
    <2>4. semval'[SEMrq] = 1 /\ semadj'[Server][SEMrq] = -1
      BY <2>1, <2>2 DEF Token
    <2> QED
      BY <1>p, <2>1, <2>2, <2>3, <2>4 DEF Token
  <1>3. CASE DequeueItem
    <2>1. cpc' = cpc /\ ~Starting'
      BY <1>3 DEF DequeueItem, DequeueTo, cli, Starting
    <2>2. CASE curItem' \in Request
      <3>1. K!SetVal(DirOf[curItem'], 1)
        BY <1>3, <2>2 DEF DequeueItem, DequeueTo
      <3>2. DirOf[curItem'] \in Sem /\ DirOf[curItem'] # SEMrq
        BY <1>p, <2>2
      <3> QED
        BY <2>1, <3>1, <3>2, SetValEffect, Frame
    <2>3. CASE curItem' \notin Request
      <3>1. semval' = semval /\ semadj' = semadj
        BY <1>3, <2>3 DEF DequeueItem, DequeueTo, ipc
      <3> QED
        BY <2>1, <3>1, Frame
    <2> QED
      BY <2>2, <2>3
  <1>4. CASE CountOverrunFaults \/ DequeueOverrun \/ Return \/ ServerKilled
    <2>1. cpc' = cpc /\ ~Starting' /\ K!Undo(Server)
      BY <1>4 DEF CountOverrunFaults, DequeueOverrun, Return, ServerKilled, ServerEnds, ServerAt,
                  cli, Starting
    <2> QED
      BY <1>p, <2>1, FrameUndo
  <1>5. CASE \/ InitShm \/ Loop \/ Count \/ CountOverrunReturns \/ Recheck \/ Fork
             \/ ForkFails \/ ForkSkipped \/ Recurse \/ ParentExit \/ ServerRestarts
    <2>1. semval' = semval /\ semadj' = semadj /\ cpc' = cpc /\ (Starting' => Starting)
      BY <1>5 DEF InitShm, Loop, Count, CountAbove, CountOverrunReturns, Recheck, Fork, ForkFails,
                  ForkSkipped, Recurse, ParentExit, ServerRestarts, ServerMoves, ServerAt, ipc,
                  cli, Starting
    <2> QED
      BY <2>1, Frame
  <1> QED
    BY <1>1, <1>2, <1>3, <1>4, <1>5 DEF ServerStep

(* A step of a child, when the semaphore with the number 0 is not SEMrq.    *)
LEMMA ChildKeeps ==
  ASSUME SemIdZero # SEMrq, SemTypeOK, Token, NEW r \in Request, ChildStep(r)
  PROVE  Token'
  <1>p. r \in Proc /\ r \in Request \cup {Server} /\ DirOf[r] \in Sem /\ DirOf[r] # SEMrq
    BY QueueAssumption DEF Proc, Sem
  <1>1. cpc' = cpc /\ (Starting' => Starting)
    BY DEF ChildStep, ChildCheck, ChildStops, ChildSets, ChildWaitFr, ChildOpens,
           ChildOpenFails, ChildSignalFr, ChildExits, ChildEnds, ChildMoves, cli, serv, Starting
  <1>2. CASE ChildCheck(r) \/ ChildOpens(r)
    <2>1. semval' = semval /\ semadj' = semadj
      BY <1>2 DEF ChildCheck, ChildOpens, ipc
    <2> QED
      BY <1>1, <2>1, Frame
  <1>3. CASE ChildStops(r) \/ ChildOpenFails(r) \/ ChildExits(r)
    <2>1. K!Undo(r)
      BY <1>3 DEF ChildStops, ChildOpenFails, ChildExits, ChildEnds
    <2> QED
      BY <1>p, <1>1, <2>1, FrameUndo
  <1>4. CASE ChildSets(r)
    <2>1. PICK v \in Nat : SetZero(v)
      BY <1>4, QueueAssumption DEF ChildSets
    <2>2. CASE SemIdZero \in Sem
      BY <1>1, <2>1, <2>2, SetValEffect, Frame DEF SetZero
    <2>3. CASE SemIdZero \notin Sem
      BY <1>1, <2>1, <2>3, Frame DEF SetZero, ipc
    <2> QED
      BY <2>2, <2>3
  <1>5. CASE ChildWaitFr(r)
    BY <1>p, <1>1, <1>5, WaitsEffect, Frame DEF ChildWaitFr
  <1>6. CASE ChildSignalFr(r)
    BY <1>p, <1>1, <1>6, SignalsEffect, Frame DEF ChildSignalFr
  <1> QED
    BY <1>2, <1>3, <1>4, <1>5, <1>6 DEF ChildStep

(* A step of a client, or its end by a signal.                              *)
LEMMA ClientKeeps ==
  ASSUME SemTypeOK, Token, NEW c \in Client, ClientStarts(c) \/ ClientStep(c) \/ ClientKilled(c)
  PROVE  Token'
  <1>p. /\ c \in Proc /\ SEMrq \in Sem /\ Server \in Proc /\ Server # c
        /\ \A d \in Client : d \in Proc
        /\ \A r \in Request : r \in Proc /\ r # c
    BY QueueAssumption DEF Proc, Sem
  <1>1. spc' = spc
    BY DEF ClientStarts, ClientStep, ClientKilled, ClientWaits, Seek, SeekFrom, SeekOverrunFaults,
           SeekOverrunReturns, Memcpy, WriteGt, WriteLt, WriteFaults, ClientSignals,
           ClientReturns, ClientEnds, ClientMoves, ClientAt, serv
  <1>2. CASE \/ ClientStarts(c) \/ Seek(c) \/ SeekOverrunReturns(c) \/ Memcpy(c)
             \/ WriteGt(c) \/ WriteLt(c)
    <2>1. /\ semval' = semval /\ semadj' = semadj
          /\ \A d \in Client : Writing(d)' = Writing(d)
      BY <1>2 DEF ClientStarts, Seek, SeekFrom, SeekOverrunReturns, Memcpy, WriteGt, WriteLt,
                  ClientMoves, ClientAt, ipc, Writing, SemTypeOK
    <2> QED
      BY <1>1, <2>1 DEF Token, Starting
  <1>3. CASE SeekOverrunFaults(c) \/ WriteFaults(c) \/ ClientReturns(c) \/ ClientKilled(c)
    <2>1. cpc' = [cpc EXCEPT ![c] = "exited"] /\ K!Undo(c)
      BY <1>3 DEF SeekOverrunFaults, WriteFaults, ClientReturns, ClientKilled, ClientEnds,
                  ClientMoves, ClientAt
    <2> QED
      BY <1>1, <2>1, ClientEndKeeps
  <1>4. CASE ClientWaits(c)
    <2>1. /\ semval[SEMrq] > 0
          /\ semval'[SEMrq] = semval[SEMrq] - 1
          /\ semadj'[c][SEMrq] = semadj[c][SEMrq] + 1
          /\ \A q \in Proc \ {c} : semadj'[q][SEMrq] = semadj[q][SEMrq]
      BY <1>p, <1>4, WaitsEffect DEF ClientWaits
    <2>2. \A d \in Client : ~Writing(d) /\ (Writing(d)' <=> d = c)
      BY <1>4, <2>1 DEF Token, ClientWaits, ClientMoves, ClientAt, Writing, SemTypeOK
    <2>3. semval'[SEMrq] = 0 /\ semadj'[c][SEMrq] = 1 /\ ~Starting
      BY <2>1, <2>2 DEF Token
    <2> QED
      BY <1>1, <1>p, <2>1, <2>2, <2>3 DEF Token, Starting
  <1>5. CASE ClientSignals(c)
    <2>1. /\ semval'[SEMrq] = semval[SEMrq] + 1
          /\ semadj'[c][SEMrq] = semadj[c][SEMrq] - 1
          /\ \A q \in Proc \ {c} : semadj'[q][SEMrq] = semadj[q][SEMrq]
      BY <1>p, <1>5, SignalsEffect DEF ClientSignals
    <2>2. Writing(c) /\ \A d \in Client : ~Writing(d)' /\ (d # c => ~Writing(d))
      BY <1>5 DEF Token, ClientSignals, ClientMoves, ClientAt, Writing, SemTypeOK
    <2>3. semval'[SEMrq] = 1 /\ semadj'[c][SEMrq] = 0 /\ ~Starting
      BY <2>1, <2>2 DEF Token
    <2> QED
      BY <1>1, <1>p, <2>1, <2>2, <2>3 DEF Token, Starting
  <1> QED
    BY <1>2, <1>3, <1>4, <1>5 DEF ClientStep

(* Nothing but init_shm's sem_ini sets overlap, and nothing resets it.      *)
LEMMA OverlapStays == [Next]_vars /\ overlap => overlap'
  BY DEF Next, vars, ServerStep, InitSem, InitSemTo, InitShm, SignalRq, Loop, Count, CountAbove,
         CountOverrunFaults, CountOverrunReturns, Recheck, DequeueItem, DequeueTo, DequeueOverrun,
         Fork, ForkFails, ForkSkipped, Recurse, ParentExit, Return, ServerKilled, ServerRestarts,
         ServerAt, ServerMoves, ServerEnds, ChildStep, ChildCheck, ChildStops, ChildSets,
         ChildWaitFr, ChildOpens, ChildOpenFails, ChildSignalFr, ChildExits, ChildEnds, ChildMoves,
         ClientStarts, ClientStep, ClientKilled, ClientWaits, Seek, SeekFrom, SeekOverrunFaults,
         SeekOverrunReturns, Memcpy, WriteGt, WriteLt, WriteFaults, ClientSignals, ClientReturns,
         ClientEnds, ClientMoves, ClientAt, hist

LEMMA RqInvNext ==
  ASSUME SemIdZero # SEMrq
  PROVE  RqInv /\ [Next]_vars => RqInv'
  <1> SUFFICES ASSUME SemTypeOK, TokenInv, [Next]_vars, ~overlap' PROVE Token'
    BY TypeKeeps DEF RqInv, TokenInv
  <1>0. Token
    BY OverlapStays DEF TokenInv
  <1>1. CASE ServerStep \/ ServerKilled \/ ServerRestarts
    BY <1>0, <1>1, ServerKeeps
  <1>2. ASSUME NEW r \in Request, ChildStep(r) PROVE Token'
    BY <1>0, <1>2, ChildKeeps
  <1>3. ASSUME NEW c \in Client, ClientStarts(c) \/ ClientStep(c) \/ ClientKilled(c)
        PROVE  Token'
    BY <1>0, <1>3, ClientKeeps
  <1>4. CASE UNCHANGED vars
    BY <1>0, <1>4 DEF vars, ipc, serv, cli, Token, Starting, Writing
  <1> QED
    BY <1>1, <1>2, <1>3, <1>4 DEF Next

(* waits(SEMrq) ... signals(SEMrq) keeps the segment to one client, through *)
(* every start, end and kill of servers and clients, unless the kernel      *)
(* numbered SEMrq 0, the semaphore ChildsPlay's sem_ini calls set, or a new *)
(* server has reset it under a client.                                      *)
THEOREM ExclusionCorrect ==
  ASSUME SemIdZero # SEMrq
  PROVE  Spec => []ClientExclusion
  <1>1. Init => RqInv
    BY RqInvInit
  <1>2. RqInv /\ [Next]_vars => RqInv'
    BY RqInvNext
  <1>3. RqInv => ClientExclusion
    BY DEF RqInv, TokenInv, Token, ClientExclusion
  <1> QED
    BY <1>1, <1>2, <1>3, PTL DEF Spec
-----------------------------------------------------------------------------
(* The types.  AddReq has a line while it writes it.                        *)
Filling(c) == cpc[c] \in {"memcpy", "write_gt", "write_lt"}

HasLine == \A c \in Client : Filling(c) => todo[c] # << >>

TypeInv == TypeOK /\ HasLine

LEMMA TypeInit == Init => TypeInv
  <1> SUFFICES ASSUME Init PROVE TypeInv
    OBVIOUS
  <1>1. semval \in [Sem -> Nat] /\ semadj \in [Proc -> [Sem -> Int]]
    BY DEF Init
  <1>2. /\ shm \in [Cell -> CellVal] /\ kpc \in [Request -> ChildPc]
        /\ cpc \in [Client -> ClientPc] /\ taken \in Seq(CellVal)
    BY DEF Init, CellVal, ChildPc, ClientPc
  <1>3. todo \in [Client -> Seq(Body)] /\ HasLine
    BY QueueAssumption DEF Init, Body, HasLine, Filling
  <1>4. /\ s \in [Client -> 0 .. SegSize + 1] /\ (\A c \in Client : s[c] # 1) /\ kills \in 0 .. MaxKills
        /\ restarts \in 0 .. MaxRestarts
    BY QueueAssumption DEF Init
  <1> QED
    BY <1>1, <1>2, <1>3, <1>4 DEF Init, TypeInv, TypeOK, ServerPc

(* What a step of the server, of a child and of a client leaves alone.      *)
LEMMA ServerFrame ==
  ASSUME TypeInv, ServerStep \/ ServerKilled \/ ServerRestarts
  PROVE  UNCHANGED cli /\ (overlap' => overlap \/ InitSem)
  BY DEF ServerStep, InitSem, InitSemTo, InitShm, SignalRq, Loop, Count, CountAbove,
         CountOverrunFaults, CountOverrunReturns, Recheck, DequeueItem, DequeueTo, DequeueOverrun,
         Fork, ForkFails, ForkSkipped, Recurse, ParentExit, Return, ServerKilled, ServerRestarts,
         ServerAt, ServerMoves, ServerEnds, hist

LEMMA ChildFrame ==
  ASSUME NEW r \in Request, ChildStep(r)
  PROVE  UNCHANGED <<shm, serv, cli, hist>>
  BY DEF ChildStep, ChildCheck, ChildStops, ChildSets, ChildWaitFr, ChildOpens, ChildOpenFails,
         ChildSignalFr, ChildExits, ChildEnds, ChildMoves

LEMMA ClientFrame ==
  ASSUME NEW c \in Client, ClientStarts(c) \/ ClientStep(c) \/ ClientKilled(c)
  PROVE  /\ UNCHANGED <<serv, kpc, taken, lost, overlap>>
         /\ \E l \in ClientPc : cpc' = [cpc EXCEPT ![c] = l]
  BY DEF ClientStarts, ClientStep, ClientKilled, ClientWaits, Seek, SeekFrom, SeekOverrunFaults,
         SeekOverrunReturns, Memcpy, WriteGt, WriteLt, WriteFaults, ClientSignals,
         ClientReturns, ClientEnds, ClientMoves, ClientAt, ClientPc

LEMMA ServerTypes ==
  ASSUME TypeInv, ServerStep \/ ServerKilled \/ ServerRestarts
  PROVE  /\ shm' \in [Cell -> CellVal]
         /\ spc' \in ServerPc /\ curItem' \in CellVal \cup {NoItem} /\ forked' \in BOOLEAN
         /\ mine' \subseteq Request /\ restarts' \in 0 .. MaxRestarts
         /\ taken' \in Seq(CellVal) /\ lost' \subseteq CellVal \cup {NoItem}
         /\ wild' \in BOOLEAN /\ overlap' \in BOOLEAN
  <1> USE DEF TypeInv, TypeOK, hist
  <1>1. CASE DequeueItem
    <2>1. PICK h, j \in Cell :
             /\ h < j /\ curItem' = shm[h + 1]
             /\ shm' = [i \in Cell |-> IF i < j - 0 THEN "blank" ELSE IF i = j - 0 THEN "header" ELSE shm[i]]
      BY <1>1 DEF DequeueItem, DequeueTo, Complete
    <2>2. curItem' \in CellVal
      BY <2>1, QueueAssumption DEF Cell
    <2>3. shm' \in [Cell -> CellVal]
      BY <2>1 DEF CellVal
    <2>4. taken' \in Seq(CellVal)
      BY <1>1, <2>2 DEF DequeueItem, DequeueTo
    <2> QED
      BY <1>1, <2>2, <2>3, <2>4 DEF DequeueItem, DequeueTo, ServerPc
  <1>2. CASE InitShm
    BY <1>2, QueueAssumption DEF InitShm, ServerAt, ServerPc, Cell, CellVal
  <1>3. CASE InitSem \/ SignalRq \/ CountOverrunReturns
    BY <1>3 DEF InitSem, InitSemTo, SignalRq, CountOverrunReturns, ServerAt, ServerPc
  <1>4. CASE CountOverrunFaults \/ DequeueOverrun \/ Return \/ ServerKilled
    BY <1>4 DEF CountOverrunFaults, DequeueOverrun, Return, ServerKilled, ServerEnds, ServerAt, ServerPc
  <1>5. CASE Loop \/ Count \/ Recheck \/ ForkSkipped \/ ParentExit
    BY <1>5 DEF Loop, Count, CountAbove, Recheck, ForkSkipped, ParentExit, ServerMoves, ServerAt, ServerPc
  <1>6. CASE Fork \/ ForkFails \/ Recurse
    BY <1>6 DEF Fork, ForkFails, Recurse, ServerPc
  <1>7. CASE ServerRestarts
    <2>1. restarts' \in 0 .. MaxRestarts
      BY <1>7, QueueAssumption DEF ServerRestarts
    <2> QED
      BY <1>7, <2>1 DEF ServerRestarts, ServerPc
  <1> QED
    BY <1>1, <1>2, <1>3, <1>4, <1>5, <1>6, <1>7 DEF ServerStep

LEMMA ClientTypes ==
  ASSUME TypeInv, NEW c \in Client, ClientStarts(c) \/ ClientStep(c) \/ ClientKilled(c)
  PROVE  /\ shm' \in [Cell -> CellVal]
         /\ todo' \in [Client -> Seq(Body)]
         /\ s' \in [Client -> 0 .. SegSize + 1] /\ (\A d \in Client : s'[d] # 1) /\ kills' \in 0 .. MaxKills
         /\ wild' \in BOOLEAN /\ HasLine'
  <1> USE DEF TypeInv, TypeOK
  <1>h. ASSUME todo' = todo, \E l \in ClientPc : cpc' = [cpc EXCEPT ![c] = l],
               Filling(c)' => todo[c] # << >>
        PROVE  HasLine'
    BY <1>h DEF HasLine, Filling
  <1>f. \E l \in ClientPc : cpc' = [cpc EXCEPT ![c] = l]
    BY ClientFrame
  <1>1. CASE \/ ClientStarts(c) \/ ClientWaits(c) \/ SeekOverrunFaults(c) \/ ClientSignals(c)
             \/ ClientReturns(c) \/ ClientKilled(c)
    <2>1. UNCHANGED <<shm, todo, s, wild>> /\ kills' \in 0 .. MaxKills /\ ~Filling(c)'
      BY <1>1, QueueAssumption
      DEF ClientStarts, ClientWaits, SeekOverrunFaults, ClientSignals, ClientReturns, ClientKilled,
          ClientEnds, ClientMoves, ClientAt, Filling
    <2> QED
      BY <1>h, <1>f, <2>1
  <1>2. CASE Seek(c) \/ SeekOverrunReturns(c)
    <2>1. PICK i \in Cell : SeekFrom(c, i)
      BY <1>2, QueueAssumption DEF Seek, SeekOverrunReturns, Cell
    <2>2. /\ UNCHANGED <<shm, todo, kills>> /\ s' = [s EXCEPT ![c] = i + 1]
          /\ todo[c] # << >>
      BY <2>1 DEF SeekFrom
    <2>3. wild' \in BOOLEAN
      BY <1>2 DEF Seek, SeekOverrunReturns
    <2>4. s' \in [Client -> 0 .. SegSize + 1] /\ \A d \in Client : s'[d] # 1
      BY <2>2, QueueAssumption DEF Cell
    <2> QED
      BY <1>h, <1>f, <2>2, <2>3, <2>4
  <1>3. CASE Memcpy(c) \/ WriteGt(c)
    <2>1. UNCHANGED <<todo, s, kills, wild>> /\ Filling(c)
      BY <1>3 DEF Memcpy, WriteGt, ClientMoves, Filling
    <2>2. todo[c] # << >> /\ Head(todo[c]) \in CellVal
      BY <2>1 DEF HasLine, CellVal
    <2>3. shm' \in [Cell -> CellVal]
      BY <1>3, <2>2 DEF Memcpy, WriteGt, CellVal
    <2> QED
      BY <1>h, <1>f, <2>1, <2>2, <2>3
  <1>4. CASE WriteLt(c)
    <2>1. UNCHANGED <<s, kills, wild>> /\ Filling(c)
      BY <1>4 DEF WriteLt, ClientMoves, Filling
    <2>2. todo[c] # << >>
      BY <2>1 DEF HasLine
    <2>3. shm' \in [Cell -> CellVal]
      BY <1>4 DEF WriteLt, CellVal
    <2>4. todo' \in [Client -> Seq(Body)]
      BY <1>4, <2>2 DEF WriteLt
    <2>5. HasLine'
      BY <1>4, <2>2 DEF WriteLt, ClientMoves, ClientAt, HasLine, Filling
    <2> QED
      BY <2>1, <2>3, <2>4, <2>5
  <1>5. CASE WriteFaults(c)
    <2>1. UNCHANGED <<todo, s, kills, wild>> /\ Filling(c) /\ ~Filling(c)'
      BY <1>5 DEF WriteFaults, ClientEnds, ClientMoves, ClientAt, Filling
    <2>2. todo[c] # << >> /\ Head(todo[c]) \in CellVal
      BY <2>1 DEF HasLine, CellVal
    <2>3. shm' \in [Cell -> CellVal]
      BY <1>5, <2>2 DEF WriteFaults
    <2> QED
      BY <1>h, <1>f, <2>1, <2>3
  <1> QED
    BY <1>1, <1>2, <1>3, <1>4, <1>5 DEF ClientStep

LEMMA TypeNext == TypeInv /\ [Next]_vars => TypeInv'
  <1> SUFFICES ASSUME TypeInv, [Next]_vars PROVE TypeInv'
    OBVIOUS
  <1>1. SemTypeOK'
    <2>1. SemTypeOK
      BY DEF TypeInv, TypeOK, SemTypeOK
    <2> QED
      BY <2>1, TypeKeeps
  <1>2. CASE ServerStep \/ ServerKilled \/ ServerRestarts
    BY <1>1, <1>2, ServerFrame, ServerTypes
    DEF TypeInv, TypeOK, HasLine, Filling, SemTypeOK, cli
  <1>3. ASSUME NEW r \in Request, ChildStep(r) PROVE TypeInv'
    BY <1>1, <1>3, ChildFrame DEF TypeInv, TypeOK, HasLine, Filling, SemTypeOK, cli, serv, hist
  <1>4. ASSUME NEW c \in Client, ClientStarts(c) \/ ClientStep(c) \/ ClientKilled(c)
        PROVE  TypeInv'
    BY <1>1, <1>4, ClientFrame, ClientTypes DEF TypeInv, TypeOK, SemTypeOK, serv
  <1>5. CASE UNCHANGED vars
    BY <1>5 DEF vars, ipc, serv, cli, hist, TypeInv, TypeOK, HasLine, Filling
  <1> QED
    BY <1>2, <1>3, <1>4, <1>5 DEF Next

(* Every scan, place, semaphore and history of clients, server and children *)
(* stays in its range, whoever is killed or started again: in particular    *)
(* AddReq never copies a request over the header.                           *)
THEOREM TypeCorrect == Spec => []TypeOK
  <1>1. TypeInv => TypeOK
    BY DEF TypeInv
  <1> QED
    BY <1>1, TypeInit, TypeNext, PTL DEF Spec
-----------------------------------------------------------------------------
(* No request twice.                                                        *)

(* Line i of those client c has still to read or to write.                  *)
Unsent(c, i) ==
  /\ cpc[c] # "exited" /\ i \in 1 .. Len(todo[c])
  /\ i > 1 \/ cpc[c] \notin {"write_gt", "write_lt"}

(* Every request is in one place: before a client, in one cell, or once in  *)
(* taken.                                                                   *)
Distinct ==
  \A c, d \in Client : \A i \in 1 .. Len(todo[c]), j \in 1 .. Len(todo[d]) :
    todo[c][i] = todo[d][j] /\ todo[c][i] \in Request => c = d /\ i = j
UnsentNowhere ==
  \A c \in Client : \A i \in 1 .. Len(todo[c]) :
    Unsent(c, i) /\ todo[c][i] \in Request =>
      /\ \A k \in Cell : shm[k] # todo[c][i]
      /\ \A k \in 1 .. Len(taken) : taken[k] # todo[c][i]
CellsDiffer ==
  /\ \A i, j \in Cell : shm[i] = shm[j] /\ shm[i] \in Request => i = j
  /\ \A i \in Cell : \A k \in 1 .. Len(taken) : shm[i] \in Request => taken[k] # shm[i]

OnceInv == Distinct /\ UnsentNowhere /\ CellsDiffer /\ AtMostOnce

LEMMA OnceInit == Init => OnceInv
  <1> SUFFICES ASSUME Init PROVE OnceInv
    OBVIOUS
  <1>1. Distinct
    BY QueueAssumption DEF Init, Distinct
  <1>2. Len(taken) = 0 /\ \A i \in Cell : shm[i] \notin Request
    BY QueueAssumption DEF Init
  <1>3. UnsentNowhere /\ CellsDiffer
    BY <1>2 DEF UnsentNowhere, CellsDiffer
  <1> QED
    BY <1>1, <1>3 DEF OnceInv, AtMostOnce, Init

(* A step that writes no request.                                           *)
LEMMA OnceFrame ==
  ASSUME OnceInv, taken' = taken, todo' = todo,
         \A c \in Client : \A i \in 1 .. Len(todo[c]) : Unsent(c, i)' => Unsent(c, i),
         \A i \in Cell : shm'[i] \in Request => shm'[i] = shm[i]
  PROVE  OnceInv'
  <1>1. Distinct'
    BY DEF OnceInv, Distinct
  <1>2. CellsDiffer'
    BY DEF OnceInv, CellsDiffer
  <1>3. UnsentNowhere'
    BY DEF OnceInv, UnsentNowhere
  <1> QED
    BY <1>1, <1>2, <1>3 DEF OnceInv, AtMostOnce

(* AddReq's memcpy, whole or cut off by a fault.                            *)
LEMMA OnceAdds ==
  ASSUME TypeInv, OnceInv, NEW c \in Client, cpc[c] = "memcpy", taken' = taken, todo' = todo,
         \E l \in {"write_gt", "exited"} : cpc' = [cpc EXCEPT ![c] = l],
         \A i \in Cell : shm'[i] \in Request => shm'[i] = shm[i] \/ (i = s[c] /\ shm'[i] = Head(todo[c]))
  PROVE  OnceInv'
  <1>1. Unsent(c, 1) /\ Head(todo[c]) = todo[c][1] /\ 1 \in 1 .. Len(todo[c])
    BY DEF TypeInv, TypeOK, HasLine, Filling, Unsent
  <1>2. ~Unsent(c, 1)'
    BY DEF Unsent, TypeInv, TypeOK
  <1>3. \A d \in Client : \A i \in 1 .. Len(todo[d]) : Unsent(d, i)' => Unsent(d, i)
    BY <1>1 DEF Unsent, TypeInv, TypeOK
  <1>4. Distinct'
    BY DEF OnceInv, Distinct
  <1>5. CellsDiffer'
    BY <1>1 DEF OnceInv, CellsDiffer, UnsentNowhere
  <1>6. UnsentNowhere'
    <2> SUFFICES ASSUME NEW d \in Client, NEW i \in 1 .. Len(todo[d]), Unsent(d, i)',
                        todo[d][i] \in Request
                 PROVE  /\ \A k \in Cell : shm'[k] # todo[d][i]
                        /\ \A k \in 1 .. Len(taken) : taken[k] # todo[d][i]
      BY DEF UnsentNowhere
    <2>1. /\ \A k \in Cell : shm[k] # todo[d][i]
          /\ \A k \in 1 .. Len(taken) : taken[k] # todo[d][i]
      BY <1>3 DEF OnceInv, UnsentNowhere
    <2>2. ~(d = c /\ i = 1)
      BY <1>2
    <2>3. todo[d][i] # todo[c][1]
      BY <1>1, <2>2 DEF OnceInv, Distinct
    <2> QED
      BY <1>1, <2>1, <2>3
  <1> QED
    BY <1>4, <1>5, <1>6 DEF OnceInv, AtMostOnce

(* The end of AddReq: the line is done with.                                *)
LEMMA OnceDone ==
  ASSUME TypeInv, OnceInv, NEW c \in Client, WriteLt(c)
  PROVE  OnceInv'
  <1>1. /\ taken' = taken /\ cpc' = [cpc EXCEPT ![c] = "readline"] /\ cpc[c] = "write_lt"
        /\ todo' = [todo EXCEPT ![c] = Tail(@)]
    BY DEF WriteLt, ClientMoves, ClientAt
  <1>2. \A i \in Cell : shm'[i] \in Request => shm'[i] = shm[i]
    BY QueueAssumption DEF WriteLt, TypeInv, TypeOK
  <1>3. /\ todo[c] \in Seq(Body) /\ todo[c] # << >>
        /\ Len(todo'[c]) = Len(todo[c]) - 1 /\ \A i \in 1 .. Len(todo'[c]) : todo'[c][i] = todo[c][i + 1]
    BY <1>1 DEF TypeInv, TypeOK, HasLine, Filling
  <1>4. \A d \in Client : d # c => todo'[d] = todo[d]
    BY <1>1 DEF TypeInv, TypeOK
  <1>5. \A d \in Client : \A i \in 1 .. Len(todo'[d]) :
          /\ d = c => Unsent(d, i + 1) /\ i + 1 \in 1 .. Len(todo[d])
          /\ d # c /\ Unsent(d, i)' => Unsent(d, i)
    BY <1>1, <1>3, <1>4 DEF Unsent, TypeInv, TypeOK
  <1>6. \A d \in Client : \A i \in 1 .. Len(todo'[d]) :
          \E j \in 1 .. Len(todo[d]) :
            /\ todo'[d][i] = todo[d][j] /\ (Unsent(d, i)' => Unsent(d, j))
            /\ j = IF d = c THEN i + 1 ELSE i
    BY <1>3, <1>4, <1>5
  <1>7. Distinct'
    <2> SUFFICES ASSUME NEW a \in Client, NEW b \in Client, NEW i \in 1 .. Len(todo'[a]),
                        NEW j \in 1 .. Len(todo'[b]),
                        todo'[a][i] = todo'[b][j], todo'[a][i] \in Request
                 PROVE  a = b /\ i = j
      BY DEF Distinct
    <2>1. PICK k \in 1 .. Len(todo[a]) :
             todo'[a][i] = todo[a][k] /\ k = IF a = c THEN i + 1 ELSE i
      BY <1>6
    <2>2. PICK m \in 1 .. Len(todo[b]) :
             todo'[b][j] = todo[b][m] /\ m = IF b = c THEN j + 1 ELSE j
      BY <1>6
    <2>3. todo[a][k] = todo[b][m] /\ todo[a][k] \in Request
      BY <2>1, <2>2
    <2>4. Distinct
      BY DEF OnceInv
    <2>5. a = b /\ k = m
      BY <2>3, <2>4 DEF Distinct
    <2> QED
      BY <2>1, <2>2, <2>5
  <1>8. UnsentNowhere'
    <2> SUFFICES ASSUME NEW d \in Client, NEW i \in 1 .. Len(todo'[d]), Unsent(d, i)',
                        todo'[d][i] \in Request
                 PROVE  /\ \A k \in Cell : shm'[k] # todo'[d][i]
                        /\ \A k \in 1 .. Len(taken) : taken[k] # todo'[d][i]
      BY <1>1 DEF UnsentNowhere
    <2>1. PICK k \in 1 .. Len(todo[d]) : todo'[d][i] = todo[d][k] /\ Unsent(d, k)
      BY <1>6
    <2> QED
      BY <1>2, <2>1 DEF OnceInv, UnsentNowhere
  <1>9. CellsDiffer'
    BY <1>1, <1>2 DEF OnceInv, CellsDiffer
  <1> QED
    BY <1>1, <1>7, <1>8, <1>9 DEF OnceInv, AtMostOnce

(* dequeueItem moves a request from its cell to taken.                      *)
LEMMA OnceTakes ==
  ASSUME TypeInv, OnceInv, DequeueItem
  PROVE  OnceInv'
  <1>1. PICK h, j \in Cell :
           /\ h < j /\ curItem' = shm[h + 1]
           /\ {i \in 1 .. j : shm[i] \in Arrows} = {h, j}
           /\ shm' = [i \in Cell |-> IF i < j - 0 THEN "blank" ELSE IF i = j - 0 THEN "header" ELSE shm[i]]
    BY DEF DequeueItem, DequeueTo, Complete
  <1>2. todo' = todo /\ cpc' = cpc /\ taken' = Append(taken, curItem')
    BY DEF DequeueItem, DequeueTo, cli
  <1>3. \A i \in Cell : shm'[i] \in Request => i > j /\ shm'[i] = shm[i]
    BY <1>1, QueueAssumption DEF Cell
  <1>4. h + 1 \in Cell /\ h + 1 <= j
    BY <1>1, QueueAssumption DEF Cell
  <1>5. /\ Len(taken') = Len(taken) + 1 /\ taken'[Len(taken) + 1] = shm[h + 1]
        /\ \A k \in 1 .. Len(taken) : taken'[k] = taken[k]
        /\ Len(taken) \in Nat /\ DOMAIN taken' = 1 .. Len(taken) + 1 /\ DOMAIN taken = 1 .. Len(taken)
    BY <1>1, <1>2, <1>4 DEF TypeInv, TypeOK
  <1>6. Distinct'
    BY <1>2 DEF OnceInv, Distinct
  <1>7. UnsentNowhere'
    <2> SUFFICES ASSUME NEW d \in Client, NEW i \in 1 .. Len(todo[d]), Unsent(d, i)',
                        todo[d][i] \in Request
                 PROVE  /\ \A k \in Cell : shm'[k] # todo[d][i]
                        /\ \A k \in 1 .. Len(taken') : taken'[k] # todo[d][i]
      BY <1>2 DEF UnsentNowhere
    <2>1. Unsent(d, i)
      BY <1>2 DEF Unsent
    <2>2. /\ \A k \in Cell : shm[k] # todo[d][i]
          /\ \A k \in 1 .. Len(taken) : taken[k] # todo[d][i]
      BY <2>1 DEF OnceInv, UnsentNowhere
    <2>3. \A k \in 1 .. Len(taken') : k \in 1 .. Len(taken) \/ k = Len(taken) + 1
      BY <1>5
    <2> QED
      BY <1>3, <1>4, <1>5, <2>2, <2>3
  <1>8. CellsDiffer'
    <2>1. \A i \in Cell : shm'[i] \in Request => shm[h + 1] # shm[i]
      BY <1>3, <1>4 DEF OnceInv, CellsDiffer, Cell
    <2> QED
      BY <1>3, <1>5, <2>1 DEF OnceInv, CellsDiffer
  <1>9. AtMostOnce'
    <2>1. \A k \in 1 .. Len(taken) : shm[h + 1] \in Request => taken[k] # shm[h + 1]
      BY <1>4 DEF OnceInv, CellsDiffer
    <2> QED
      BY <1>5, <2>1 DEF OnceInv, AtMostOnce
  <1> QED
    BY <1>6, <1>7, <1>8, <1>9 DEF OnceInv

LEMMA OnceNext == TypeInv /\ OnceInv /\ [Next]_vars => OnceInv'
  <1> SUFFICES ASSUME TypeInv, OnceInv, [Next]_vars PROVE OnceInv'
    OBVIOUS
  <1>1. CASE DequeueItem
    BY <1>1, OnceTakes
  <1>2. CASE (ServerStep \/ ServerKilled \/ ServerRestarts) /\ ~DequeueItem
    <2>1. /\ taken' = taken
          /\ shm' = shm \/ shm' = [shm EXCEPT ![1] = "header", ![2] = "lt", ![SegSize] = "nul"]
      BY <1>2
      DEF ServerStep, InitSem, InitSemTo, InitShm, SignalRq, Loop, Count, CountAbove,
          CountOverrunFaults, CountOverrunReturns, Recheck, DequeueOverrun,
          Fork, ForkFails, ForkSkipped, Recurse, ParentExit, Return, ServerKilled, ServerRestarts,
          ServerMoves, ServerEnds, hist
    <2>2. \A i \in Cell : shm'[i] \in Request => shm'[i] = shm[i]
      BY <2>1, QueueAssumption DEF TypeInv, TypeOK
    <2>3. cpc' = cpc /\ todo' = todo
      BY <1>2, ServerFrame DEF cli
    <2> QED
      BY <2>1, <2>2, <2>3, OnceFrame DEF Unsent
  <1>3. ASSUME NEW r \in Request, ChildStep(r) PROVE OnceInv'
    BY <1>3, ChildFrame, OnceFrame DEF Unsent, cli, hist
  <1>4. ASSUME NEW c \in Client, ClientStarts(c) \/ ClientStep(c) \/ ClientKilled(c)
        PROVE  OnceInv'
    <2>0. taken' = taken
      BY <1>4, ClientFrame
    <2>1. CASE WriteLt(c)
      BY <2>1, OnceDone
    <2>2. CASE Memcpy(c)
      <3>1. cpc[c] = "memcpy" /\ cpc' = [cpc EXCEPT ![c] = "write_gt"] /\ todo' = todo
        BY <2>2 DEF Memcpy, ClientMoves, ClientAt
      <3>2. \A i \in Cell : shm'[i] \in Request => shm'[i] = shm[i] \/ (i = s[c] /\ shm'[i] = Head(todo[c]))
        BY <2>2, QueueAssumption DEF Memcpy, TypeInv, TypeOK
      <3> QED
        BY <2>0, <3>1, <3>2, OnceAdds
    <2>3. CASE WriteFaults(c) /\ cpc[c] = "memcpy"
      <3>1. cpc' = [cpc EXCEPT ![c] = "exited"] /\ todo' = todo
        BY <2>3 DEF WriteFaults, ClientEnds, ClientMoves, ClientAt
      <3>2. \A i \in Cell : shm'[i] \in Request => shm'[i] = shm[i] \/ (i = s[c] /\ shm'[i] = Head(todo[c]))
        BY <2>3 DEF WriteFaults, TypeInv, TypeOK
      <3> QED
        BY <2>0, <2>3, <3>1, <3>2, OnceAdds
    <2>4. CASE WriteGt(c) \/ (WriteFaults(c) /\ cpc[c] # "memcpy")
      <3>1. /\ todo' = todo /\ cpc[c] \in {"write_gt", "write_lt"}
            /\ \E l \in {"write_lt", "exited"} : cpc' = [cpc EXCEPT ![c] = l]
        BY <2>4 DEF WriteGt, WriteFaults, ClientEnds, ClientMoves, ClientAt
      <3>2. \A i \in Cell : shm'[i] \in Request => shm'[i] = shm[i]
        BY <2>4, QueueAssumption DEF WriteGt, WriteFaults, TypeInv, TypeOK
      <3>3. \A d \in Client : \A i \in 1 .. Len(todo[d]) : Unsent(d, i)' => Unsent(d, i)
        BY <3>1 DEF Unsent, TypeInv, TypeOK
      <3> QED
        BY <2>0, <3>1, <3>2, <3>3, OnceFrame
    <2>5. CASE \/ ClientStarts(c) \/ ClientWaits(c) \/ Seek(c) \/ SeekOverrunFaults(c)
               \/ SeekOverrunReturns(c) \/ ClientSignals(c) \/ ClientReturns(c) \/ ClientKilled(c)
      <3>1. /\ todo' = todo /\ shm' = shm
            /\ \/ cpc[c] \in {"none", "wait_rq", "readline", "return"}
                  /\ \E l \in ClientPc : cpc' = [cpc EXCEPT ![c] = l]
               \/ cpc' = [cpc EXCEPT ![c] = "exited"]
        BY <2>5 DEF ClientStarts, ClientWaits, Seek, SeekFrom, SeekOverrunFaults, SeekOverrunReturns,
                    ClientSignals, ClientReturns, ClientKilled, ClientEnds, ClientMoves, ClientAt, ClientPc
      <3>3. \A d \in Client : \A i \in 1 .. Len(todo[d]) : Unsent(d, i)' => Unsent(d, i)
        BY <3>1 DEF Unsent, TypeInv, TypeOK
      <3> QED
        BY <2>0, <3>1, <3>3, OnceFrame
    <2> QED
      BY <1>4, <2>1, <2>2, <2>3, <2>4, <2>5 DEF ClientStep
  <1>5. CASE UNCHANGED vars
    BY <1>5, OnceFrame DEF vars, cli, hist, Unsent
  <1> QED
    BY <1>1, <1>2, <1>3, <1>4, <1>5 DEF Next

(* dequeueItem returns no request twice, for any clients and any number of  *)
(* kills and restarts: also when a new server goes through what its         *)
(* predecessor left, when two clients write at once because it reset SEMrq, *)
(* and when a write is cut off at the end of the segment.                   *)
THEOREM OnceCorrect == Spec => []AtMostOnce
  <1>1. OnceInv => AtMostOnce
    BY DEF OnceInv
  <1>2. Init => TypeInv /\ OnceInv
    BY TypeInit, OnceInit
  <1>3. TypeInv /\ OnceInv /\ [Next]_vars => TypeInv' /\ OnceInv'
    BY TypeNext, OnceNext
  <1> QED
    BY <1>1, <1>2, <1>3, PTL DEF Spec
-----------------------------------------------------------------------------
(* The text in the segment, as long as no server was started again.         *)

(* The lines of all input files, and those that AddReq has finished.        *)
ScriptLines == {x \in Client \X Nat : x[2] \in 1 .. Len(Script[x[1]])}
SentLines == {x \in ScriptLines : x[2] <= Len(Script[x[1]]) - Len(todo[x[1]])}

(* Nobody is killed and all the lines fit into the segment: then also a     *)
(* server that has counted behind the segment finds the text as it must be. *)
Roomy == /\ MaxKills = 0 /\ IsFiniteSet(ScriptLines)
         /\ 2 * Cardinality(ScriptLines) + 2 <= SegSize

Done == Len(taken)

(* Blanks, the header, and behind it as many requests as have got their '>' *)
(* (g counts them from the start); then a '<', a request without its '>',   *)
(* or nothing, and nothing after that.                                      *)
Laid(g) ==
  /\ Done <= g /\ 2 * Done + 1 \in Cell /\ 2 * g <= SegSize
  /\ \A i \in Cell : i <= 2 * Done => shm[i] = "blank"
  /\ shm[2 * Done + 1] = "header"
  /\ \A k \in Done + 1 .. g : shm[2 * k] \in Body /\ (2 * k + 1 \in Cell => shm[2 * k + 1] = "gt")
  /\ 2 * g + 2 \in Cell => shm[2 * g + 2] \in {"lt", "nul"} \cup Body
  /\ \A i \in Cell : i > 2 * g + 2 => shm[i] = "nul"

(* Who is inside AddReq is at the end of the text.                          *)
Placed(g) ==
  \A c \in Client :
    /\ cpc[c] = "memcpy"   => s[c] = 2 * g + 2 /\ 2 * g + 2 \in Cell /\ shm[2 * g + 2] = "lt"
    /\ cpc[c] = "write_gt" => s[c] = 2 * g + 2 /\ 2 * g + 2 \in Cell /\ shm[2 * g + 2] \in Body
    /\ cpc[c] = "write_lt" => s[c] = 2 * g /\ (2 * g + 2 \in Cell => shm[2 * g + 2] = "nul")

(* What the server knows from its last look still holds.                    *)
Found(g) ==
  /\ spc \in {"recheck", "dequeue"} => Done < g /\ 2 * Done + 3 \in Cell
  /\ spc = "dequeue" => shm[2 * Done + 2] # ExitReq
  /\ spc = "fork" => HasExit \/ (curItem \in Request /\ kpc[curItem] = "none")
  /\ \A i \in 1 .. Done : taken[i] # ExitReq

(* With room for every line: the end of the text counts the lines sent, and *)
(* there is a '<' but for the client inside AddReq.                         *)
Full(g) ==
  /\ 2 * g + 2 \in Cell
  /\ \A c \in Client : Len(todo[c]) <= Len(Script[c])
  /\ (\A c \in Client : cpc[c] # "write_lt") => g = Cardinality(SentLines)
  /\ (\E c \in Client : cpc[c] = "write_lt") => g = Cardinality(SentLines) + 1
  /\ (\A c \in Client : cpc[c] \notin {"write_gt", "write_lt"}) => shm[2 * g + 2] = "lt"

Segment(g) == Laid(g) /\ Placed(g) /\ (~wild => Found(g)) /\ (Roomy => Full(g))

(* Until init_shm has written the header there are zeroes, and no client    *)
(* gets SEMrq.                                                              *)
Virgin ==
  /\ spc \in {"init_sem", "init_shm", "killed"} /\ \A i \in Cell : shm[i] = "nul"
  /\ taken = << >> /\ todo = Script /\ ~wild
  /\ semval[SEMrq] = 0 /\ \A c \in Client : ~Writing(c)

Text == ~wild \/ Roomy => \E g \in Nat : Segment(g)

SegInv ==
  restarts = 0 => /\ ~overlap
                  /\ Virgin \/ (spc \notin {"init_sem", "init_shm"} /\ Text)

(* A child, and a dequeued item, is for a request that was taken.           *)
ServedTaken ==
  /\ curItem \in Request => \E k \in 1 .. Done : taken[k] = curItem
  /\ \A r \in Request : kpc[r] # "none" => \E k \in 1 .. Done : taken[k] = r

-----------------------------------------------------------------------------
(* Reading the text.                                                        *)
LEMMA Halves == \A i \in Nat : \E k \in Nat : i = 2 * k \/ i = 2 * k + 1
  <1> SUFFICES ASSUME NEW i \in Nat PROVE \E k \in Nat : i = 2 * k \/ i = 2 * k + 1
    OBVIOUS
  <1>1. (i \div 2) \in Nat /\ (i = 2 * (i \div 2) \/ i = 2 * (i \div 2) + 1)
    OBVIOUS
  <1> QED
    BY <1>1

LEMMA LaidCells ==
  ASSUME TypeInv, NEW g \in Nat, Laid(g), NEW i \in Cell
  PROVE  /\ shm[i] \in Arrows <=> \E k \in Done .. g : i = 2 * k + 1
         /\ shm[i] \in Body <=> (\E k \in Done + 1 .. g : i = 2 * k) \/ (i = 2 * g + 2 /\ shm[i] \in Body)
         /\ shm[i] = "lt" => i = 2 * g + 2
         /\ shm[i] = "nul" => i >= 2 * g + 2
  <1>0. Done \in Nat /\ i \in Nat /\ i >= 1
    BY QueueAssumption DEF TypeInv, TypeOK, Done, Cell
  <1>b. /\ "gt" \notin Body /\ "header" \notin Body /\ "blank" \notin Body
        /\ "lt" \notin Body /\ "nul" \notin Body
    BY QueueAssumption DEF Body
  <1>1. CASE i <= 2 * Done
    <2>1. shm[i] = "blank"
      BY <1>1 DEF Laid
    <2> QED
      BY <1>0, <1>1, <1>b, <2>1 DEF Arrows, Laid
  <1>2. CASE i = 2 * Done + 1
    <2>1. shm[i] = "header" /\ Done \in Done .. g
      BY <1>0, <1>2 DEF Laid
    <2> QED
      BY <1>0, <1>2, <1>b, <2>1 DEF Arrows, Laid
  <1>3. CASE i > 2 * Done + 1 /\ i <= 2 * g + 1
    <2>1. PICK k \in Nat : i = 2 * k \/ i = 2 * k + 1
      BY <1>0, Halves
    <2>2. k \in Done + 1 .. g /\ k \in Done .. g
      BY <1>0, <1>3, <2>1
    <2>3. CASE i = 2 * k
      <3>1. shm[i] \in Body
        BY <2>2, <2>3 DEF Laid
      <3> QED
        BY <1>0, <1>3, <1>b, <2>2, <2>3, <3>1 DEF Arrows
    <2>4. CASE i = 2 * k + 1
      <3>1. shm[i] = "gt"
        BY <2>2, <2>4 DEF Laid
      <3> QED
        BY <1>0, <1>3, <1>b, <2>2, <2>4, <3>1 DEF Arrows
    <2> QED
      BY <2>1, <2>3, <2>4
  <1>4. CASE i = 2 * g + 2
    <2>1. shm[i] \in {"lt", "nul"} \cup Body
      BY <1>4 DEF Laid
    <2> QED
      BY <1>0, <1>4, <1>b, <2>1 DEF Arrows
  <1>5. CASE i > 2 * g + 2
    <2>1. shm[i] = "nul"
      BY <1>5 DEF Laid
    <2> QED
      BY <1>0, <1>5, <1>b, <2>1 DEF Arrows
  <1> QED
    BY <1>0, <1>1, <1>2, <1>3, <1>4, <1>5

(* The scan for the '<', the scan back, and the count.                      *)
LEMMA Scans ==
  ASSUME TypeInv, NEW g \in Nat, Laid(g), Marked
  PROVE  /\ 2 * g + 2 \in Cell /\ shm[2 * g + 2] = "lt" /\ MarkPos = 2 * g + 2
         /\ \A i \in Cell : Last(MarkPos, i) => i = 2 * g + 1
         /\ charcount > 1 => Done < g /\ 2 * Done + 3 \in Cell
  <1>0. Done \in Nat /\ Done <= g
    BY DEF TypeInv, TypeOK, Done, Laid
  <1>1. 2 * g + 2 \in Cell /\ shm[2 * g + 2] = "lt" /\ \A i \in Cell : shm[i] = "lt" <=> i = 2 * g + 2
    BY LaidCells DEF Marked
  <1>2. \A j \in 1 .. (2 * g + 2) - 1 : j \in Cell /\ j # 2 * g + 2
    BY <1>1, QueueAssumption DEF Cell
  <1>3. MarkPos = 2 * g + 2
    BY <1>1, <1>2 DEF MarkPos
  <1>4. ASSUME NEW i \in Cell, Last(MarkPos, i) PROVE i = 2 * g + 1
    <2>1. PICK k \in Done .. g : i = 2 * k + 1
      BY <1>4, LaidCells DEF Last
    <2>2. 2 * g + 1 \in Cell /\ g \in Done .. g
      BY <1>0, <1>1, QueueAssumption DEF Cell
    <2>3. shm[2 * g + 1] \in Arrows
      BY <2>2, LaidCells
    <2>4. CASE k < g
      <3>1. 2 * g + 1 \in i + 1 .. MarkPos
        BY <1>3, <2>1, <2>4
      <3> QED
        BY <1>4, <2>3, <3>1 DEF Last
    <2> QED
      BY <1>0, <2>1, <2>4
  <1>5. ASSUME charcount > 1 PROVE Done < g
    <2> SUFFICES ASSUME Done = g PROVE FALSE
      BY <1>0
    <2>1. \A i \in 1 .. 2 * g + 2 : i \in Cell /\ (shm[i] \in Arrows <=> i = 2 * g + 1)
      <3> SUFFICES ASSUME NEW i \in 1 .. 2 * g + 2
                   PROVE  i \in Cell /\ (shm[i] \in Arrows <=> i = 2 * g + 1)
        OBVIOUS
      <3>1. i \in Cell
        BY <1>1, QueueAssumption DEF Cell
      <3>2. shm[i] \in Arrows <=> \E k \in Done .. g : i = 2 * k + 1
        BY <3>1, LaidCells
      <3> QED
        BY <1>0, <3>1, <3>2
    <2>2. {i \in 1 .. MarkPos : shm[i] \in Arrows} = {2 * g + 1}
      BY <1>3, <2>1
    <2>3. Cardinality({2 * g + 1}) = 1
      BY FS_Singleton
    <2>4. charcount = 1
      BY <2>2, <2>3, Zenon DEF charcount
    <2> QED
      BY <1>5, <2>4
  <1>6. Done < g => 2 * Done + 3 \in Cell
    BY <1>0, <1>1, QueueAssumption DEF Cell
  <1> QED
    BY <1>1, <1>3, <1>4, <1>5, <1>6

(* What dequeueItem takes is the first request.                             *)
LEMMA FirstRequest ==
  ASSUME TypeInv, NEW g \in Nat, Laid(g), NEW h \in Cell, NEW j \in Cell, Complete(h, j)
  PROVE  h = 2 * Done + 1 /\ j = 2 * Done + 3 /\ Done < g /\ shm[2 * Done + 2] \in Body
  <1>0. Done \in Nat /\ Done <= g /\ 2 * Done + 1 \in Cell
    BY DEF TypeInv, TypeOK, Done, Laid
  <1>1. h < j /\ {i \in 1 .. j : shm[i] \in Arrows} = {h, j}
    BY DEF Complete
  <1>2. \A i \in 1 .. j : i \in Cell
    BY QueueAssumption DEF Cell
  <1>3. h \in 1 .. j /\ j \in 1 .. j /\ shm[h] \in Arrows /\ shm[j] \in Arrows
    BY <1>1
  <1>4. PICK k \in Done .. g : h = 2 * k + 1
    BY <1>3, LaidCells
  <1>5. PICK m \in Done .. g : j = 2 * m + 1
    BY <1>3, LaidCells
  <1>6. 2 * Done + 1 \in 1 .. j /\ shm[2 * Done + 1] \in Arrows
    BY <1>0, <1>5 DEF Laid, Arrows
  <1>7. 2 * Done + 1 \in {h, j}
    BY <1>1, <1>6
  <1>8. h = 2 * Done + 1
    BY <1>0, <1>1, <1>4, <1>5, <1>7
  <1>9. m > Done
    BY <1>0, <1>1, <1>5, <1>8
  <1>10. 2 * Done + 3 \in 1 .. j /\ Done + 1 \in Done .. g
    BY <1>0, <1>5, <1>9
  <1>11. shm[2 * Done + 3] \in Arrows
    <2>1. 2 * Done + 3 \in Cell /\ 2 * Done + 3 = 2 * (Done + 1) + 1
      BY <1>0, <1>2, <1>10
    <2> QED
      BY <1>10, <2>1, LaidCells
  <1>12. 2 * Done + 3 \in {h, j}
    BY <1>1, <1>10, <1>11
  <1>13. j = 2 * Done + 3 /\ Done < g
    BY <1>0, <1>8, <1>9, <1>12
  <1>14. shm[2 * (Done + 1)] \in Body
    <2>1. Done + 1 \in Done + 1 .. g
      BY <1>0, <1>13
    <2> QED
      BY <2>1 DEF Laid
  <1>15. 2 * (Done + 1) = 2 * Done + 2
    BY <1>0
  <1> QED
    BY <1>8, <1>13, <1>14, <1>15

(* "exit" stays visible while the end of the text is written.               *)
LEMMA ExitKept ==
  ASSUME TypeInv, NEW g \in Nat, Laid(g), HasExit,
         \A i \in Cell : i < 2 * g + 2 \/ (i = 2 * g + 2 /\ shm[i] \in Body) => shm'[i] = shm[i]
  PROVE  HasExit'
  <1>1. PICK i \in Cell : shm[i] = ExitReq /\ \A j \in 1 .. i : shm[j] # "nul"
    BY DEF HasExit
  <1>2. ExitReq # "nul" /\ ExitReq \in Body /\ i \in Nat
    BY QueueAssumption DEF Body, Cell
  <1>3. i <= 2 * g + 2
    BY <1>1, <1>2 DEF Laid
  <1>4. shm'[i] = shm[i]
    BY <1>1, <1>2, <1>3
  <1>5. \A j \in 1 .. i : shm'[j] # "nul"
    <2> SUFFICES ASSUME NEW j \in 1 .. i, j < i PROVE shm'[j] # "nul"
      BY <1>1, <1>2, <1>4
    <2>1. j \in Cell /\ j < 2 * g + 2
      BY <1>2, <1>3, QueueAssumption DEF Cell
    <2> QED
      BY <1>1, <2>1
  <1> QED
    BY <1>1, <1>4, <1>5 DEF HasExit
-----------------------------------------------------------------------------
(* The steps of server and children on the text.                            *)
LEMMA ServedInit == Init => ServedTaken
  BY QueueAssumption DEF Init, ServedTaken

LEMMA ServedNext == TypeInv /\ ServedTaken /\ [Next]_vars => ServedTaken'
  <1> SUFFICES ASSUME TypeInv, ServedTaken, [Next]_vars PROVE ServedTaken'
    OBVIOUS
  <1>1. CASE DequeueItem
    <2>1. taken' = Append(taken, curItem') /\ kpc' = kpc
      BY <1>1 DEF DequeueItem, DequeueTo
    <2>2. curItem' \in CellVal
      <3>1. PICK h, j \in Cell : h < j /\ curItem' = shm[h + 1]
        BY <1>1 DEF DequeueItem, DequeueTo, Complete
      <3>2. h + 1 \in Cell
        BY <3>1, QueueAssumption DEF Cell
      <3> QED
        BY <3>1, <3>2 DEF TypeInv, TypeOK
    <2>3. Done \in Nat /\ Done' = Done + 1 /\ taken'[Done + 1] = curItem' /\ \A k \in 1 .. Done : taken'[k] = taken[k]
      BY <2>1, <2>2 DEF TypeInv, TypeOK, Done
    <2>4. \A k \in 1 .. Done : k \in 1 .. Done'
      BY <2>3
    <2>5. Done + 1 \in 1 .. Done'
      BY <2>3
    <2> QED
      BY <2>1, <2>3, <2>4, <2>5 DEF ServedTaken
  <1>2. CASE Fork
    <2>1. kpc' = [r \in Request |-> IF r = curItem THEN "check" ELSE kpc[r]] /\ taken' = taken /\ curItem' = curItem
      BY <1>2 DEF Fork, hist
    <2> QED
      BY <2>1 DEF ServedTaken, Done
  <1>3. CASE (ServerStep \/ ServerKilled \/ ServerRestarts) /\ ~DequeueItem /\ ~Fork
    <2>1. /\ taken' = taken /\ kpc' = kpc /\ (curItem' = curItem \/ curItem' = NoItem)
      BY <1>3
      DEF ServerStep, InitSem, InitSemTo, InitShm, SignalRq, Loop, Count, CountAbove,
          CountOverrunFaults, CountOverrunReturns, Recheck, DequeueOverrun,
          ForkFails, ForkSkipped, Recurse, ParentExit, Return, ServerKilled, ServerRestarts,
          ServerMoves, ServerEnds, ServerAt, hist
    <2> QED
      BY <2>1, QueueAssumption DEF ServedTaken, Done
  <1>4. ASSUME NEW r \in Request, ChildStep(r) PROVE ServedTaken'
    <2>1. taken' = taken /\ curItem' = curItem
      BY <1>4, ChildFrame DEF hist, serv
    <2>2. kpc[r] # "none" /\ \E l \in ChildPc : kpc' = [kpc EXCEPT ![r] = l]
      BY <1>4 DEF ChildStep, ChildCheck, ChildStops, ChildSets, ChildWaitFr, ChildOpens, ChildOpenFails,
                  ChildSignalFr, ChildExits, ChildEnds, ChildMoves, ChildPc
    <2> QED
      BY <2>1, <2>2 DEF ServedTaken, Done, TypeInv, TypeOK
  <1>5. ASSUME NEW c \in Client, ClientStarts(c) \/ ClientStep(c) \/ ClientKilled(c)
        PROVE  ServedTaken'
    BY <1>5, ClientFrame DEF ServedTaken, Done, serv
  <1>6. CASE UNCHANGED vars
    BY <1>6 DEF vars, serv, hist, ServedTaken, Done
  <1> QED
    BY <1>1, <1>2, <1>3, <1>4, <1>5, <1>6 DEF Next

(* Steps that only look at the text.                                        *)
LEMMA SegSame ==
  ASSUME NEW g \in Nat, Segment(g), UNCHANGED <<shm, taken, cli>>, ~wild' => Found(g)'
  PROVE  Segment(g)'
  <1>1. cpc' = cpc /\ todo' = todo /\ s' = s
    BY DEF cli
  <1>2. Laid(g)'
    BY DEF Segment, Laid, Done
  <1>3. Placed(g)'
    BY <1>1 DEF Segment, Placed
  <1>4. Roomy => Full(g)'
    BY <1>1 DEF Segment, Full, SentLines
  <1> QED
    BY <1>2, <1>3, <1>4 DEF Segment, Roomy, ScriptLines

LEMMA SegLooks ==
  ASSUME TypeInv, NEW g \in Nat, Segment(g), ServerStep \/ ServerKilled,
         ~InitSem, ~InitShm, ~DequeueItem
  PROVE  Segment(g)'
  <1>0. Laid(g) /\ (~wild => Found(g))
    BY DEF Segment
  <1>1. UNCHANGED <<shm, taken, cli>> /\ (wild => wild')
    BY DEF ServerStep, SignalRq, Loop, Count, CountAbove,
           CountOverrunFaults, CountOverrunReturns, Recheck, DequeueOverrun,
           Fork, ForkFails, ForkSkipped, Recurse, ParentExit, Return, ServerKilled,
           ServerAt, ServerMoves, ServerEnds, hist
  <1>2. ASSUME ~wild' PROVE Found(g)'
    <2>0. Found(g)
      BY <1>0, <1>1, <1>2
    <2>1. ASSUME spc' \notin {"recheck", "dequeue", "fork"} PROVE Found(g)'
      BY <1>1, <2>0, <2>1 DEF Found, Done
    <2>2. CASE Loop
      <3>1. (spc' = "fork" /\ HasExit) \/ spc' = "count"
        BY <2>2 DEF Loop, ServerMoves, ServerAt
      <3> QED
        BY <1>1, <2>0, <2>1, <3>1 DEF Found, Done, HasExit
    <2>3. CASE Count
      <3>1. Marked /\ ((spc' = "recheck" /\ charcount > 1) \/ spc' = "loop")
        BY <2>3 DEF Count, CountAbove, ServerMoves, ServerAt
      <3>2. charcount > 1 => Done < g /\ 2 * Done + 3 \in Cell
        BY <1>0, <3>1, Scans
      <3> QED
        BY <1>1, <2>0, <2>1, <3>1, <3>2 DEF Found, Done
    <2>4. CASE Recheck
      <3>1. spc = "recheck" /\ ((spc' = "fork" /\ HasExit) \/ (spc' = "dequeue" /\ ~HasExit))
        BY <2>4 DEF Recheck, ServerMoves, ServerAt
      <3>2. Done < g /\ 2 * Done + 3 \in Cell /\ Done \in Nat
        BY <2>0, <3>1 DEF Found, Done, TypeInv, TypeOK
      <3>3. \A j \in 1 .. 2 * Done + 2 : j \in Cell /\ shm[j] # "nul"
        <4> SUFFICES ASSUME NEW j \in 1 .. 2 * Done + 2 PROVE j \in Cell /\ shm[j] # "nul"
          OBVIOUS
        <4>1. j \in Cell
          BY <3>2, QueueAssumption DEF Cell
        <4>2. shm[j] = "nul" => j >= 2 * g + 2
          BY <1>0, <4>1, LaidCells
        <4> QED
          BY <3>2, <4>1, <4>2
      <3>4. ~HasExit => shm[2 * Done + 2] # ExitReq
        <4>1. 2 * Done + 2 \in 1 .. 2 * Done + 2
          BY <3>2
        <4> QED
          BY <3>3, <4>1 DEF HasExit
      <3> QED
        BY <1>1, <2>0, <2>1, <3>1, <3>2, <3>4 DEF Found, Done, HasExit
    <2>5. CASE CountOverrunReturns
      BY <1>2, <2>5 DEF CountOverrunReturns
    <2>6. CASE \/ SignalRq \/ CountOverrunFaults \/ DequeueOverrun \/ Fork \/ ForkFails
               \/ ForkSkipped \/ Recurse \/ ParentExit \/ Return \/ ServerKilled
      <3>1. spc' \notin {"recheck", "dequeue", "fork"}
        BY <2>6 DEF SignalRq, CountOverrunFaults, DequeueOverrun, Fork, ForkFails, ForkSkipped, Recurse,
                    ParentExit, Return, ServerKilled, ServerAt, ServerMoves, ServerEnds
      <3> QED
        BY <2>1, <3>1
    <2> QED
      BY <2>2, <2>3, <2>4, <2>5, <2>6 DEF ServerStep
  <1> QED
    BY <1>1, <1>2, SegSame

(* dequeueItem, without SEMrq, while a client may be anywhere in AddReq.    *)
LEMMA SegDequeue ==
  ASSUME TypeInv, CellsDiffer, ServedTaken, NEW g \in Nat, Segment(g), DequeueItem
  PROVE  Segment(g)'
  <1>0. Laid(g) /\ Placed(g) /\ (~wild => Found(g)) /\ (Roomy => Full(g)) /\ Done \in Nat
    BY DEF Segment, TypeInv, TypeOK, Done
  <1>1. PICK h, j \in Cell :
           /\ Complete(h, j) /\ curItem' = shm[h + 1]
           /\ shm' = [i \in Cell |-> IF i < j - 0 THEN "blank" ELSE IF i = j - 0 THEN "header" ELSE shm[i]]
    BY DEF DequeueItem, DequeueTo
  <1>2. h = 2 * Done + 1 /\ j = 2 * Done + 3 /\ Done < g /\ shm[2 * Done + 2] \in Body
    BY <1>0, <1>1, FirstRequest
  <1>3. /\ cpc' = cpc /\ todo' = todo /\ s' = s /\ kpc' = kpc /\ wild' = wild /\ spc' = "fork"
        /\ taken' = Append(taken, curItem') /\ spc = "dequeue"
    BY DEF DequeueItem, DequeueTo, cli
  <1>4. curItem' = shm[2 * Done + 2]
    BY <1>0, <1>1, <1>2
  <1>5. /\ Done' = Done + 1 /\ taken'[Done + 1] = curItem'
        /\ \A k \in 1 .. Done : taken'[k] = taken[k]
    BY <1>2, <1>3, <1>4 DEF TypeInv, TypeOK, Done, CellVal
  <1>6. /\ \A i \in Cell : i <= 2 * Done + 2 => shm'[i] = "blank"
        /\ 2 * Done + 3 \in Cell /\ shm'[2 * Done + 3] = "header"
        /\ \A i \in Cell : i > 2 * Done + 3 => shm'[i] = shm[i]
    BY <1>0, <1>1, <1>2 DEF Cell
  <1>7. 2 * g + 2 > 2 * Done + 3
    BY <1>0, <1>2
  <1>8. Laid(g)'
    <2>1. \A k \in Done + 2 .. g : 2 * k \in Cell /\ 2 * k > 2 * Done + 3 /\ 2 * k + 1 > 2 * Done + 3 /\ k \in Done + 1 .. g
      BY <1>0, QueueAssumption DEF Laid, Cell
    <2>2. \A k \in Done' + 1 .. g : shm'[2 * k] \in Body /\ (2 * k + 1 \in Cell => shm'[2 * k + 1] = "gt")
      BY <1>0, <1>5, <1>6, <2>1 DEF Laid
    <2>3. \A i \in Cell : i > 2 * g + 2 => shm'[i] = "nul"
      BY <1>0, <1>6, <1>7 DEF Laid, Cell
    <2>4. 2 * g + 2 \in Cell => shm'[2 * g + 2] \in {"lt", "nul"} \cup Body
      BY <1>0, <1>6, <1>7 DEF Laid
    <2>5. 2 * Done' = 2 * Done + 2 /\ 2 * Done' + 1 = 2 * Done + 3
      BY <1>0, <1>5
    <2>6. Done' <= g /\ 2 * g <= SegSize
      BY <1>0, <1>2, <1>5 DEF Laid
    <2> QED
      BY <1>6, <2>2, <2>3, <2>4, <2>5, <2>6 DEF Laid
  <1>9. 2 * g + 2 \in Cell => shm'[2 * g + 2] = shm[2 * g + 2]
    BY <1>6, <1>7
  <1>10. Placed(g)'
    BY <1>0, <1>3, <1>9 DEF Placed
  <1>11. Roomy => Full(g)'
    <2> SUFFICES ASSUME Roomy PROVE Full(g)'
      OBVIOUS
    <2>1. SentLines' = SentLines
      BY <1>3 DEF SentLines
    <2> QED
      BY <1>0, <1>3, <1>9, <2>1 DEF Full
  <1>12. ~wild' => Found(g)'
    <2> SUFFICES ASSUME ~wild PROVE Found(g)'
      BY <1>3
    <2>1. curItem' # ExitReq /\ curItem' \in Request
      BY <1>0, <1>2, <1>3, <1>4 DEF Found, Body
    <2>2. 2 * Done + 2 \in Cell
      BY <1>0, <1>6, QueueAssumption DEF Cell
    <2>3. kpc[curItem'] = "none"
      BY <1>4, <2>1, <2>2 DEF CellsDiffer, ServedTaken, Done
    <2>4. \A i \in 1 .. Done' : taken'[i] # ExitReq
      BY <1>0, <1>5, <2>1 DEF Found
    <2> QED
      BY <1>3, <2>1, <2>3, <2>4 DEF Found
  <1> QED
    BY <1>8, <1>10, <1>11, <1>12 DEF Segment, Roomy, ScriptLines

LEMMA SegChild ==
  ASSUME TypeInv, NEW g \in Nat, Segment(g), NEW r \in Request, ChildStep(r)
  PROVE  Segment(g)'
  <1>1. UNCHANGED <<shm, taken, cli>> /\ spc' = spc /\ curItem' = curItem /\ wild' = wild
    BY ChildFrame DEF hist, serv
  <1>2. kpc[r] # "none" /\ \E l \in ChildPc : kpc' = [kpc EXCEPT ![r] = l]
    BY DEF ChildStep, ChildCheck, ChildStops, ChildSets, ChildWaitFr, ChildOpens, ChildOpenFails,
           ChildSignalFr, ChildExits, ChildEnds, ChildMoves, ChildPc
  <1>3. \A q \in Request : kpc[q] = "none" => kpc'[q] = "none"
    BY <1>2 DEF TypeInv, TypeOK
  <1>4. ~wild' => Found(g)'
    BY <1>1, <1>3 DEF Segment, Found, Done, HasExit
  <1> QED
    BY <1>1, <1>4, SegSame
-----------------------------------------------------------------------------
(* The steps of a client on the text.                                       *)

LEMMA NextLine ==
  ASSUME NEW p \in Nat, NEW q \in Nat, q > 0, q <= p
  PROVE  /\ p - q + 1 \in Nat /\ p - q + 1 \in 1 .. p /\ ~(p - q + 1 <= p - q)
         /\ \A b \in Nat : b <= p - (q - 1) <=> (b <= p - q \/ b = p - q + 1)
  OBVIOUS

(* One line more is sent, and it was one of the script's.                   *)
LEMMA SentGrows ==
  ASSUME TypeInv, Roomy, NEW c \in Client, todo[c] # << >>,
         \A d \in Client : Len(todo[d]) <= Len(Script[d])
  PROVE  /\ Cardinality(SentLines) \in Nat
         /\ 2 * (Cardinality(SentLines) + 1) + 2 <= SegSize
         /\ todo' = [todo EXCEPT ![c] = Tail(@)] =>
              /\ Cardinality(SentLines') = Cardinality(SentLines) + 1
              /\ \A d \in Client : Len(todo'[d]) <= Len(Script[d])
  <1> DEFINE z == Len(Script[c]) - Len(todo[c]) + 1
             x == <<c, z>>
  <1>1. /\ Len(todo[c]) \in Nat /\ Len(todo[c]) > 0 /\ Len(Script[c]) \in Nat
        /\ Len(todo[c]) <= Len(Script[c])
    BY QueueAssumption DEF TypeInv, TypeOK
  <1>2. x \in ScriptLines /\ x \notin SentLines
    <2>1. z \in Nat /\ z \in 1 .. Len(Script[c]) /\ ~(z <= Len(Script[c]) - Len(todo[c]))
      BY <1>1, NextLine
    <2> HIDE DEF z
    <2>2. x[1] = c /\ x[2] = z /\ x \in Client \X Nat
      BY <2>1
    <2> QED
      BY <2>1, <2>2 DEF ScriptLines, SentLines
  <1>3. SentLines \subseteq ScriptLines /\ IsFiniteSet(ScriptLines)
    BY DEF SentLines, Roomy
  <1>4. IsFiniteSet(SentLines)
    BY <1>3, FS_Subset
  <1>5. Cardinality(SentLines) \in Nat /\ Cardinality(ScriptLines) \in Nat
    BY <1>3, <1>4, FS_CardinalityType
  <1>6. Cardinality(SentLines \cup {x}) = Cardinality(SentLines) + 1
    BY <1>2, <1>4, FS_AddElement
  <1>7. SentLines \cup {x} \subseteq ScriptLines
    BY <1>2, <1>3
  <1>8. Cardinality(SentLines \cup {x}) <= Cardinality(ScriptLines)
    BY <1>3, <1>7, FS_Subset
  <1>9. 2 * (Cardinality(SentLines) + 1) + 2 <= SegSize
    BY <1>5, <1>6, <1>8, QueueAssumption DEF Roomy
  <1>10. ASSUME todo' = [todo EXCEPT ![c] = Tail(@)]
         PROVE  /\ SentLines' = SentLines \cup {x}
                /\ \A d \in Client : Len(todo'[d]) <= Len(Script[d])
    <2>1. \A d \in Client : Len(todo'[d]) = IF d = c THEN Len(todo[d]) - 1 ELSE Len(todo[d])
      BY <1>1, <1>10 DEF TypeInv, TypeOK
    <2>2. \A d \in Client : Len(todo[d]) \in Nat /\ Len(Script[d]) \in Nat
      BY QueueAssumption DEF TypeInv, TypeOK
    <2>3. \A y \in ScriptLines : y[1] \in Client /\ y[2] \in Nat /\ y = <<y[1], y[2]>>
      BY DEF ScriptLines
    <2>4. ASSUME NEW y \in ScriptLines
          PROVE  y[2] <= Len(Script[y[1]]) - Len(todo'[y[1]])
                   <=> (y[2] <= Len(Script[y[1]]) - Len(todo[y[1]]) \/ y = x)
      <3>1. y = x <=> y[1] = c /\ y[2] = z
        BY <2>3
      <3> DEFINE a == y[1]
                 b == y[2]
      <3>2. a \in Client /\ b \in Nat
        BY <2>3
      <3>3. CASE a = c
        <4>1. Len(todo'[a]) = Len(todo[c]) - 1
          BY <2>1, <3>3
        <4>2. b <= Len(Script[c]) - (Len(todo[c]) - 1) <=> (b <= Len(Script[c]) - Len(todo[c]) \/ b = z)
          BY <1>1, <3>2, NextLine
        <4> HIDE DEF z
        <4> QED
          BY <3>1, <3>3, <4>1, <4>2
      <3>4. CASE a # c
        <4>1. Len(todo'[a]) = Len(todo[a])
          BY <2>1, <3>2, <3>4
        <4> QED
          BY <3>1, <3>4, <4>1
      <3> QED
        BY <3>3, <3>4
    <2>5. SentLines' = SentLines \cup {x}
      BY <1>2, <2>4 DEF SentLines
    <2> QED
      BY <2>1, <2>2, <2>5
  <1> QED
    BY <1>5, <1>6, <1>9, <1>10

(* With room for every line, who looks for the '<' finds it.                *)
LEMMA RoomyMarked ==
  ASSUME Token, NEW c \in Client, cpc[c] = "readline", NEW g \in Nat, Segment(g), Roomy
  PROVE  Marked
  <1>1. \A d \in Client : cpc[d] \notin {"write_gt", "write_lt"}
    BY DEF Token, Writing
  <1> QED
    BY <1>1 DEF Segment, Full, Marked

(* With room for every line, no write leaves the segment.                   *)
LEMMA RoomyFits ==
  ASSUME TypeInv, Token, NEW c \in Client, Filling(c), NEW g \in Nat, Segment(g), Roomy
  PROVE  /\ cpc[c] \in {"memcpy", "write_gt"} => s[c] + 1 <= SegSize
         /\ cpc[c] = "write_lt" => s[c] + 2 <= SegSize
  <1>0. Full(g) /\ Placed(g) /\ SegSize \in Nat
    BY QueueAssumption DEF Segment
  <1>1. todo[c] # << >>
    BY DEF TypeInv, HasLine
  <1>2. Cardinality(SentLines) \in Nat /\ 2 * (Cardinality(SentLines) + 1) + 2 <= SegSize
    BY <1>0, <1>1, SentGrows DEF Full
  <1>3. CASE cpc[c] \in {"memcpy", "write_gt"}
    <2>1. \A d \in Client : cpc[d] # "write_lt"
      BY <1>3 DEF Token, Writing
    <2>2. g = Cardinality(SentLines) /\ s[c] = 2 * g + 2
      BY <1>0, <1>3, <2>1 DEF Full, Placed
    <2> QED
      BY <1>0, <1>2, <1>3, <2>2
  <1>4. CASE cpc[c] = "write_lt"
    <2>1. g = Cardinality(SentLines) + 1 /\ s[c] = 2 * g
      BY <1>0, <1>4 DEF Full, Placed
    <2> QED
      BY <1>0, <1>2, <1>4, <2>1
  <1> QED
    BY <1>3, <1>4 DEF Filling

(* A client leaves the text alone and is not inside AddReq afterwards.      *)
LEMMA SegAway ==
  ASSUME TypeInv, NEW g \in Nat, Segment(g), NEW c \in Client,
         UNCHANGED <<shm, taken, todo, s, spc, curItem, kpc, wild>>,
         \E l \in ClientPc : cpc' = [cpc EXCEPT ![c] = l],
         ~Filling(c)', Roomy => ~Filling(c)
  PROVE  Segment(g)'
  <1>1. \A d \in Client : d # c => cpc'[d] = cpc[d]
    BY DEF TypeInv, TypeOK
  <1>2. cpc'[c] \notin {"memcpy", "write_gt", "write_lt"}
    BY DEF Filling
  <1>3. Placed(g)'
    BY <1>1, <1>2 DEF Segment, Placed
  <1>4. Laid(g)'
    BY DEF Segment, Laid, Done
  <1>5. ~wild' => Found(g)'
    BY DEF Segment, Found, Done, HasExit
  <1>6. Roomy => Full(g)'
    <2> SUFFICES ASSUME Roomy PROVE Full(g)'
      OBVIOUS
    <2>1. cpc[c] \notin {"memcpy", "write_gt", "write_lt"} /\ Full(g) /\ SentLines' = SentLines
      BY DEF Filling, Segment, SentLines
    <2> QED
      BY <1>1, <1>2, <2>1 DEF Full
  <1> QED
    BY <1>3, <1>4, <1>5, <1>6 DEF Segment, Roomy, ScriptLines

LEMMA SegSeek ==
  ASSUME TypeInv, NEW g \in Nat, Segment(g), NEW c \in Client, Seek(c)
  PROVE  Segment(g)'
  <1>0. Laid(g) /\ Placed(g) /\ (~wild => Found(g)) /\ (Roomy => Full(g))
    BY DEF Segment
  <1>1. PICK i \in Cell : Last(MarkPos, i) /\ SeekFrom(c, i)
    BY DEF Seek
  <1>2. 2 * g + 2 \in Cell /\ shm[2 * g + 2] = "lt" /\ i = 2 * g + 1
    BY <1>0, <1>1, Scans DEF Seek
  <1>3. /\ UNCHANGED <<shm, taken, todo, spc, curItem, kpc, wild>>
        /\ cpc' = [cpc EXCEPT ![c] = "memcpy"] /\ s' = [s EXCEPT ![c] = i + 1]
        /\ cpc[c] = "readline"
    BY <1>1 DEF Seek, SeekFrom, ClientAt, serv
  <1>4. \A d \in Client : d # c => cpc'[d] = cpc[d] /\ s'[d] = s[d]
    BY <1>3 DEF TypeInv, TypeOK
  <1>5. cpc'[c] = "memcpy" /\ s'[c] = 2 * g + 2
    BY <1>2, <1>3 DEF TypeInv, TypeOK
  <1>6. Placed(g)'
    BY <1>0, <1>2, <1>3, <1>4, <1>5 DEF Placed
  <1>7. Laid(g)'
    BY <1>0, <1>3 DEF Laid, Done
  <1>8. ~wild' => Found(g)'
    BY <1>0, <1>3 DEF Found, Done, HasExit
  <1>9. Roomy => Full(g)'
    <2>1. SentLines' = SentLines
      BY <1>3 DEF SentLines
    <2> QED
      BY <1>0, <1>3, <1>4, <1>5, <2>1 DEF Full
  <1> QED
    BY <1>6, <1>7, <1>8, <1>9 DEF Segment, Roomy, ScriptLines

(* Found is kept by a write at the end of the text.                         *)
LEMMA FoundKept ==
  ASSUME TypeInv, NEW g \in Nat, Laid(g), Found(g), NEW f \in Nat, g <= f,
         UNCHANGED <<taken, spc, curItem, kpc>>,
         \A i \in Cell : i < 2 * g + 2 \/ (i = 2 * g + 2 /\ shm[i] \in Body) => shm'[i] = shm[i]
  PROVE  Found(f)'
  <1>1. HasExit => HasExit'
    BY ExitKept
  <1>2. Done' = Done /\ Done \in Nat
    BY DEF Done, TypeInv, TypeOK
  <1>3. spc = "dequeue" => shm'[2 * Done + 2] = shm[2 * Done + 2]
    <2> SUFFICES ASSUME spc = "dequeue" PROVE shm'[2 * Done + 2] = shm[2 * Done + 2]
      OBVIOUS
    <2>1. Done < g /\ 2 * Done + 3 \in Cell
      BY DEF Found
    <2>2. 2 * Done + 2 \in Cell /\ 2 * Done + 2 < 2 * g + 2
      BY <1>2, <2>1, QueueAssumption DEF Cell
    <2> QED
      BY <2>2
  <1> QED
    BY <1>1, <1>2, <1>3 DEF Found

LEMMA SegMemcpy ==
  ASSUME TypeInv, Token, NEW g \in Nat, Segment(g), NEW c \in Client, Memcpy(c)
  PROVE  Segment(g)'
  <1>0. /\ Laid(g) /\ Placed(g) /\ (~wild => Found(g)) /\ (Roomy => Full(g))
        /\ Done \in Nat /\ Done <= g /\ shm \in [Cell -> CellVal]
    BY DEF Segment, Laid, TypeInv, TypeOK, Done
  <1>1. /\ cpc[c] = "memcpy" /\ cpc' = [cpc EXCEPT ![c] = "write_gt"]
        /\ shm' = [shm EXCEPT ![s[c]] = Head(todo[c]), ![s[c] + 1] = "nul"]
        /\ UNCHANGED <<taken, todo, s, spc, curItem, kpc, wild>>
    BY DEF Memcpy, ClientMoves, ClientAt, serv
  <1>2. s[c] = 2 * g + 2 /\ 2 * g + 2 \in Cell /\ shm[2 * g + 2] = "lt"
    BY <1>0, <1>1 DEF Placed
  <1>3. Head(todo[c]) \in Body
    BY <1>1 DEF TypeInv, TypeOK, HasLine, Filling
  <1>4. \A d \in Client : d # c => cpc'[d] = cpc[d] /\ cpc[d] \notin {"memcpy", "write_gt", "write_lt"}
    BY <1>1 DEF Token, Writing, TypeInv, TypeOK
  <1>5. cpc'[c] = "write_gt"
    BY <1>1 DEF TypeInv, TypeOK
  <1>6. /\ shm'[2 * g + 2] \in Body
        /\ \A i \in Cell : i # 2 * g + 2 => shm'[i] = IF i = 2 * g + 3 THEN "nul" ELSE shm[i]
    BY <1>0, <1>1, <1>2, <1>3
  <1>7. \A i \in Cell : i < 2 * g + 2 => shm'[i] = shm[i]
    BY <1>6 DEF Cell
  <1>8. Laid(g)'
    <2>0. Done' = Done
      BY <1>1 DEF Done
    <2>1. \A k \in Done + 1 .. g : 2 * k \in Cell /\ 2 * k < 2 * g + 2 /\ 2 * k + 1 < 2 * g + 2
      BY <1>0, <1>2, QueueAssumption DEF Cell
    <2>2. \A k \in Done + 1 .. g : shm'[2 * k] \in Body /\ (2 * k + 1 \in Cell => shm'[2 * k + 1] = "gt")
      BY <1>0, <1>7, <2>1 DEF Laid
    <2>3. \A i \in Cell : i > 2 * g + 2 => shm'[i] = "nul"
      BY <1>0, <1>6 DEF Laid, Cell
    <2>4. 2 * Done + 1 < 2 * g + 2
      BY <1>0
    <2>5. \A i \in Cell : i <= 2 * Done => i < 2 * g + 2
      BY <1>0 DEF Cell
    <2> QED
      BY <1>0, <1>6, <1>7, <2>0, <2>2, <2>3, <2>4, <2>5 DEF Laid
  <1>9. Placed(g)'
    BY <1>1, <1>2, <1>4, <1>5, <1>6 DEF Placed
  <1>10. ~wild' => Found(g)'
    <2>1. \A i \in Cell : i < 2 * g + 2 \/ (i = 2 * g + 2 /\ shm[i] \in Body) => shm'[i] = shm[i]
      BY <1>2, <1>7, QueueAssumption DEF Body
    <2> QED
      BY <1>0, <1>1, <2>1, FoundKept
  <1>11. Roomy => Full(g)'
    <2>1. SentLines' = SentLines
      BY <1>1 DEF SentLines
    <2> QED
      BY <1>0, <1>1, <1>4, <1>5, <2>1 DEF Full
  <1> QED
    BY <1>8, <1>9, <1>10, <1>11 DEF Segment, Roomy, ScriptLines

LEMMA SegWriteGt ==
  ASSUME TypeInv, Token, NEW g \in Nat, Segment(g), NEW c \in Client, WriteGt(c)
  PROVE  Segment(g + 1)'
  <1>0. /\ Laid(g) /\ Placed(g) /\ (~wild => Found(g)) /\ (Roomy => Full(g))
        /\ Done \in Nat /\ Done <= g /\ shm \in [Cell -> CellVal]
    BY DEF Segment, Laid, TypeInv, TypeOK, Done
  <1>1. /\ cpc[c] = "write_gt" /\ cpc' = [cpc EXCEPT ![c] = "write_lt"]
        /\ shm' = [shm EXCEPT ![s[c] + 1] = "gt"]
        /\ UNCHANGED <<taken, todo, s, spc, curItem, kpc, wild>>
    BY DEF WriteGt, ClientMoves, ClientAt, serv
  <1>2. s[c] = 2 * g + 2 /\ 2 * g + 2 \in Cell /\ shm[2 * g + 2] \in Body
    BY <1>0, <1>1 DEF Placed
  <1>4. \A d \in Client : d # c => cpc'[d] = cpc[d] /\ cpc[d] \notin {"memcpy", "write_gt", "write_lt"}
    BY <1>1 DEF Token, Writing, TypeInv, TypeOK
  <1>5. cpc'[c] = "write_lt"
    BY <1>1 DEF TypeInv, TypeOK
  <1>6. \A i \in Cell : shm'[i] = IF i = 2 * g + 3 THEN "gt" ELSE shm[i]
    BY <1>0, <1>1, <1>2
  <1>7. \A i \in Cell : i <= 2 * g + 2 \/ i > 2 * g + 3 => shm'[i] = shm[i]
    BY <1>6 DEF Cell
  <1>8. Laid(g + 1)'
    <2>0. Done' = Done
      BY <1>1 DEF Done
    <2>1. \A k \in Done + 1 .. g : 2 * k \in Cell /\ 2 * k < 2 * g + 2 /\ 2 * k + 1 < 2 * g + 2
      BY <1>0, <1>2, QueueAssumption DEF Cell
    <2>2. \A k \in Done + 1 .. g : shm'[2 * k] \in Body /\ (2 * k + 1 \in Cell => shm'[2 * k + 1] = "gt")
      BY <1>0, <1>7, <2>1 DEF Laid
    <2>3. shm'[2 * (g + 1)] \in Body /\ (2 * (g + 1) + 1 \in Cell => shm'[2 * (g + 1) + 1] = "gt")
      <3>1. 2 * (g + 1) = 2 * g + 2 /\ 2 * (g + 1) + 1 = 2 * g + 3
        OBVIOUS
      <3>2. shm'[2 * g + 2] \in Body /\ (2 * g + 3 \in Cell => shm'[2 * g + 3] = "gt")
        BY <1>2, <1>6, <1>7
      <3> QED
        BY <3>1, <3>2
    <2>4. \A k \in Done + 1 .. g + 1 : k \in Done + 1 .. g \/ k = g + 1
      BY <1>0
    <2>5. \A k \in Done + 1 .. g + 1 : shm'[2 * k] \in Body /\ (2 * k + 1 \in Cell => shm'[2 * k + 1] = "gt")
      BY <2>2, <2>3, <2>4
    <2>6. \A i \in Cell : i >= 2 * g + 4 => shm'[i] = "nul"
      BY <1>0, <1>7 DEF Laid, Cell
    <2>7. \A i \in Cell : i <= 2 * Done => shm'[i] = "blank"
      BY <1>0, <1>7 DEF Laid, Cell
    <2>8. shm'[2 * Done + 1] = "header"
      BY <1>0, <1>7 DEF Laid
    <2>9. 2 * (g + 1) <= SegSize /\ 2 * (g + 1) + 2 = 2 * g + 4
      BY <1>2, QueueAssumption DEF Cell
    <2>10. \A i \in Cell : i > 2 * (g + 1) + 2 => i >= 2 * g + 4
      BY <2>9 DEF Cell
    <2>11. Done <= g + 1 /\ 2 * Done + 1 \in Cell
      BY <1>0 DEF Laid
    <2> QED
      BY <2>0, <2>5, <2>6, <2>7, <2>8, <2>9, <2>10, <2>11 DEF Laid
  <1>9. Placed(g + 1)'
    <2>1. 2 * (g + 1) + 2 \in Cell => shm'[2 * (g + 1) + 2] = "nul"
      BY <1>0, <1>7 DEF Laid
    <2>2. s'[c] = 2 * (g + 1)
      BY <1>1, <1>2
    <2> QED
      BY <1>4, <1>5, <2>1, <2>2 DEF Placed
  <1>10. ~wild' => Found(g + 1)'
    <2>1. \A i \in Cell : i < 2 * g + 2 \/ (i = 2 * g + 2 /\ shm[i] \in Body) => shm'[i] = shm[i]
      BY <1>7 DEF Cell
    <2> QED
      BY <1>0, <1>1, <2>1, FoundKept
  <1>11. Roomy => Full(g + 1)'
    <2> SUFFICES ASSUME Roomy PROVE Full(g + 1)'
      OBVIOUS
    <2>1. SentLines' = SentLines
      BY <1>1 DEF SentLines
    <2>2. \A d \in Client : cpc[d] # "write_lt"
      BY <1>1, <1>4
    <2>3. g = Cardinality(SentLines) /\ \A d \in Client : Len(todo[d]) <= Len(Script[d])
      BY <1>0, <2>2 DEF Full
    <2>4. todo[c] # << >>
      BY <1>1 DEF TypeInv, HasLine, Filling
    <2>5. 2 * (g + 1) + 2 <= SegSize
      BY <2>3, <2>4, SentGrows
    <2>6. 2 * (g + 1) + 2 \in Cell
      BY <2>5, QueueAssumption DEF Cell
    <2> QED
      BY <1>1, <1>5, <2>1, <2>3, <2>6 DEF Full
  <1> QED
    BY <1>8, <1>9, <1>10, <1>11 DEF Segment, Roomy, ScriptLines

LEMMA SegWriteLt ==
  ASSUME TypeInv, Token, NEW g \in Nat, Segment(g), NEW c \in Client, WriteLt(c)
  PROVE  Segment(g)'
  <1>0. /\ Laid(g) /\ Placed(g) /\ (~wild => Found(g)) /\ (Roomy => Full(g))
        /\ Done \in Nat /\ Done <= g /\ shm \in [Cell -> CellVal]
    BY DEF Segment, Laid, TypeInv, TypeOK, Done
  <1>1. /\ cpc[c] = "write_lt" /\ cpc' = [cpc EXCEPT ![c] = "readline"]
        /\ shm' = [shm EXCEPT ![s[c] + 2] = "lt"]
        /\ todo' = [todo EXCEPT ![c] = Tail(@)]
        /\ UNCHANGED <<taken, s, spc, curItem, kpc, wild>>
    BY DEF WriteLt, ClientMoves, ClientAt, serv
  <1>2. s[c] = 2 * g /\ (2 * g + 2 \in Cell => shm[2 * g + 2] = "nul")
    BY <1>0, <1>1 DEF Placed
  <1>4. \A d \in Client : d # c => cpc'[d] = cpc[d] /\ cpc[d] \notin {"memcpy", "write_gt", "write_lt"}
    BY <1>1 DEF Token, Writing, TypeInv, TypeOK
  <1>5. cpc'[c] = "readline"
    BY <1>1 DEF TypeInv, TypeOK
  <1>6. \A i \in Cell : shm'[i] = IF i = 2 * g + 2 THEN "lt" ELSE shm[i]
    BY <1>0, <1>1, <1>2
  <1>7. \A i \in Cell : i # 2 * g + 2 => shm'[i] = shm[i]
    BY <1>6
  <1>8. Laid(g)'
    <2>0. Done' = Done
      BY <1>1 DEF Done
    <2>1. \A k \in Done + 1 .. g : 2 * k \in Cell /\ 2 * k # 2 * g + 2 /\ 2 * k + 1 # 2 * g + 2
      BY <1>0, QueueAssumption DEF Cell, Laid
    <2>2. \A k \in Done + 1 .. g : shm'[2 * k] \in Body /\ (2 * k + 1 \in Cell => shm'[2 * k + 1] = "gt")
      BY <1>0, <1>7, <2>1 DEF Laid
    <2>3. \A i \in Cell : i > 2 * g + 2 => shm'[i] = "nul"
      BY <1>0, <1>7 DEF Laid, Cell
    <2>4. 2 * Done + 1 # 2 * g + 2
      BY <1>0
    <2>5. \A i \in Cell : i <= 2 * Done => i # 2 * g + 2
      BY <1>0 DEF Cell
    <2> QED
      BY <1>0, <1>6, <1>7, <2>0, <2>2, <2>3, <2>4, <2>5 DEF Laid
  <1>9. Placed(g)'
    BY <1>4, <1>5 DEF Placed
  <1>10. ~wild' => Found(g)'
    <2>1. \A i \in Cell : i < 2 * g + 2 \/ (i = 2 * g + 2 /\ shm[i] \in Body) => shm'[i] = shm[i]
      <3>1. "nul" \notin Body
        BY QueueAssumption DEF Body
      <3> QED
        BY <1>2, <1>7, <3>1 DEF Cell
    <2> QED
      BY <1>0, <1>1, <2>1, FoundKept
  <1>11. Roomy => Full(g)'
    <2> SUFFICES ASSUME Roomy PROVE Full(g)'
      OBVIOUS
    <2>1. Full(g) /\ todo[c] # << >>
      BY <1>0, <1>1 DEF TypeInv, HasLine, Filling
    <2>2. g = Cardinality(SentLines) + 1 /\ 2 * g + 2 \in Cell
      BY <1>1, <2>1 DEF Full
    <2>3. /\ Cardinality(SentLines') = Cardinality(SentLines) + 1
          /\ \A d \in Client : Len(todo'[d]) <= Len(Script[d])
      BY <1>1, <2>1, SentGrows DEF Full
    <2>4. \A d \in Client : cpc'[d] # "write_lt"
      BY <1>4, <1>5
    <2>5. shm'[2 * g + 2] = "lt"
      BY <1>6, <2>2
    <2> QED
      BY <2>2, <2>3, <2>4, <2>5 DEF Full
  <1> QED
    BY <1>8, <1>9, <1>10, <1>11 DEF Segment, Roomy, ScriptLines

LEMMA SegFault ==
  ASSUME TypeInv, Token, NEW g \in Nat, Segment(g), NEW c \in Client, WriteFaults(c)
  PROVE  Segment(g)'
  <1>0. /\ Laid(g) /\ Placed(g) /\ (~wild => Found(g)) /\ (Roomy => Full(g))
        /\ Done \in Nat /\ Done <= g /\ shm \in [Cell -> CellVal]
    BY DEF Segment, Laid, TypeInv, TypeOK, Done
  <1>1. /\ cpc' = [cpc EXCEPT ![c] = "exited"] /\ Filling(c)
        /\ shm' \in {shm, IF cpc[c] = "memcpy" THEN [shm EXCEPT ![s[c]] = Head(todo[c])] ELSE shm}
        /\ UNCHANGED <<taken, todo, s, spc, curItem, kpc, wild>>
    BY DEF WriteFaults, ClientEnds, ClientMoves, ClientAt, serv, Filling
  <1>2. ~Roomy
    <2> SUFFICES ASSUME Roomy PROVE FALSE
      OBVIOUS
    <2>1. /\ cpc[c] \in {"memcpy", "write_gt"} => s[c] + 1 <= SegSize
          /\ cpc[c] = "write_lt" => s[c] + 2 <= SegSize
      BY <1>1, RoomyFits
    <2>2. s[c] \in Nat /\ SegSize \in Nat
      BY QueueAssumption DEF TypeInv, TypeOK
    <2> QED
      BY <2>1, <2>2 DEF WriteFaults
  <1>3. \A d \in Client : cpc'[d] \notin {"memcpy", "write_gt", "write_lt"}
    BY <1>1 DEF Token, Writing, TypeInv, TypeOK, Filling
  <1>4. CASE shm' = shm
    <2>1. Laid(g)'
      BY <1>0, <1>1, <1>4 DEF Laid, Done
    <2>2. ~wild' => Found(g)'
      BY <1>0, <1>1, <1>4 DEF Found, Done, HasExit
    <2> QED
      BY <1>2, <1>3, <2>1, <2>2 DEF Segment, Placed, Roomy, ScriptLines
  <1>5. CASE cpc[c] = "memcpy" /\ shm' = [shm EXCEPT ![s[c]] = Head(todo[c])]
    <2>1. s[c] = 2 * g + 2 /\ 2 * g + 2 \in Cell /\ shm[2 * g + 2] = "lt"
      BY <1>0, <1>5 DEF Placed
    <2>2. Head(todo[c]) \in Body
      BY <1>1 DEF TypeInv, TypeOK, HasLine
    <2>3. /\ shm'[2 * g + 2] \in Body
          /\ \A i \in Cell : i # 2 * g + 2 => shm'[i] = shm[i]
      BY <1>0, <1>5, <2>1, <2>2
    <2>4. Laid(g)'
      <3>0. Done' = Done
        BY <1>1 DEF Done
      <3>1. \A k \in Done + 1 .. g : 2 * k \in Cell /\ 2 * k # 2 * g + 2 /\ 2 * k + 1 # 2 * g + 2
        BY <1>0, QueueAssumption DEF Cell, Laid
      <3>2. \A k \in Done + 1 .. g : shm'[2 * k] \in Body /\ (2 * k + 1 \in Cell => shm'[2 * k + 1] = "gt")
        BY <1>0, <2>3, <3>1 DEF Laid
      <3>3. \A i \in Cell : i > 2 * g + 2 => shm'[i] = "nul"
        BY <1>0, <2>3 DEF Laid, Cell
      <3>4. 2 * Done + 1 # 2 * g + 2
        BY <1>0
      <3>5. \A i \in Cell : i <= 2 * Done => i # 2 * g + 2
        BY <1>0 DEF Cell
      <3> QED
        BY <1>0, <2>3, <3>0, <3>2, <3>3, <3>4, <3>5 DEF Laid
    <2>5. ~wild' => Found(g)'
      <3>1. \A i \in Cell : i < 2 * g + 2 \/ (i = 2 * g + 2 /\ shm[i] \in Body) => shm'[i] = shm[i]
        BY <2>1, <2>3, QueueAssumption DEF Body, Cell
      <3> QED
        BY <1>0, <1>1, <3>1, FoundKept
    <2> QED
      BY <1>2, <1>3, <2>4, <2>5 DEF Segment, Placed, Roomy, ScriptLines
  <1> QED
    BY <1>1, <1>4, <1>5
-----------------------------------------------------------------------------
QueueInv == TypeInv /\ RqInv /\ OnceInv /\ ServedTaken /\ SegInv

LEMMA SegInit == Init => SegInv
  BY QueueAssumption DEF Init, SegInv, Virgin, Sem, Writing

(* init_shm writes the header over zeroes.                                  *)
LEMMA SegFirst ==
  ASSUME TypeInv, Virgin, InitShm
  PROVE  Segment(0)'
  <1>1. /\ UNCHANGED <<cpc, todo, taken, wild>> /\ spc' = "signal_rq" /\ taken = << >> /\ todo = Script
        /\ shm' = [shm EXCEPT ![1] = "header", ![2] = "lt", ![SegSize] = "nul"]
    BY DEF InitShm, ServerAt, cli, hist, Virgin
  <1>2. /\ shm'[1] = "header" /\ shm'[2] = "lt" /\ \A i \in Cell : i > 2 => shm'[i] = "nul"
        /\ 1 \in Cell /\ 2 \in Cell
    BY <1>1, QueueAssumption DEF TypeInv, TypeOK, Virgin, Cell
  <1>3. Done' = 0 /\ 2 * Done' + 1 = 1 /\ 2 * Done' = 0 /\ 2 * 0 + 2 = 2 /\ 2 * 0 = 0
    BY <1>1 DEF Done
  <1>4. Laid(0)'
    <2>1. \A i \in Cell : ~(i <= 0)
      BY DEF Cell
    <2>2. \A k \in Done' + 1 .. 0 : FALSE
      BY <1>3
    <2>3. 0 <= SegSize
      BY QueueAssumption
    <2> QED
      BY <1>2, <1>3, <2>1, <2>2, <2>3 DEF Laid
  <1>5. Placed(0)' /\ \A c \in Client : cpc'[c] # "write_lt" /\ cpc'[c] # "write_gt"
    BY <1>1 DEF Virgin, Writing, Placed
  <1>6. Found(0)'
    BY <1>1, <1>3 DEF Found
  <1>7. Full(0)'
    <2>1. SentLines' = {}
      <3>1. \A c \in Client : Len(todo'[c]) = Len(Script[c]) /\ Len(Script[c]) \in Nat
        BY <1>1, QueueAssumption
      <3>2. \A x \in ScriptLines : x[1] \in Client /\ x[2] \in 1 .. Len(Script[x[1]])
        BY DEF ScriptLines
      <3>3. \A x \in ScriptLines : ~(x[2] <= Len(Script[x[1]]) - Len(todo'[x[1]]))
        <4> SUFFICES ASSUME NEW x \in ScriptLines
                     PROVE  ~(x[2] <= Len(Script[x[1]]) - Len(todo'[x[1]]))
          OBVIOUS
        <4>1. Len(Script[x[1]]) - Len(todo'[x[1]]) = 0
          BY <3>1, <3>2
        <4>2. x[2] \in Nat /\ x[2] >= 1
          BY <3>1, <3>2
        <4>3. ~(x[2] <= 0)
          BY <4>2
        <4> QED
          BY <4>1, <4>3, Zenon
      <3> QED
        BY <3>3 DEF SentLines
    <2>2. Cardinality({}) = 0
      BY FS_EmptySet
    <2>3. Cardinality(SentLines') = 0
      BY <2>1, <2>2
    <2>4. \A c \in Client : Len(todo'[c]) <= Len(Script[c])
      BY <1>1, QueueAssumption
    <2> QED
      BY <1>2, <1>3, <1>5, <2>3, <2>4 DEF Full
  <1> QED
    BY <1>4, <1>5, <1>6, <1>7 DEF Segment

LEMMA SegVirgin ==
  ASSUME TypeInv, Token, ServedTaken, Virgin, Next, restarts' = 0, restarts = 0, ~overlap
  PROVE  ~overlap' /\ (Virgin' \/ (spc' \notin {"init_sem", "init_shm"} /\ Text'))
  <1>0. SemTypeOK /\ SEMrq \in Sem /\ Server \in Proc
    BY DEF TypeInv, TypeOK, SemTypeOK, Sem, Proc
  <1>1. CASE InitSem
    <2>1. /\ spc' = "init_shm" /\ UNCHANGED <<shm, taken, todo, wild, cpc>>
          /\ K!SetVal(SEMrq, 0) /\ ~overlap'
      BY <1>1 DEF InitSem, InitSemTo, ServerAt, cli, Virgin
    <2>2. semval'[SEMrq] = 0
      BY <1>0, <2>1, SetValEffect
    <2> QED
      BY <2>1, <2>2 DEF Virgin, Writing
  <1>2. CASE InitShm
    <2>1. Segment(0)'
      BY <1>2, SegFirst
    <2>2. spc' = "signal_rq" /\ ~overlap'
      BY <1>2 DEF InitShm, ServerAt, hist
    <2> QED
      BY <2>1, <2>2 DEF Text
  <1>3. CASE ServerKilled
    <2>1. /\ spc' = "killed" /\ UNCHANGED <<shm, taken, todo, wild, cpc>> /\ K!Undo(Server) /\ ~overlap'
      BY <1>3 DEF ServerKilled, ServerEnds, ServerAt, cli, hist
    <2>2. semval'[SEMrq] = 0
      <3>1. semval'[SEMrq] = IF semval[SEMrq] + semadj[Server][SEMrq] > 0
                               THEN semval[SEMrq] + semadj[Server][SEMrq] ELSE 0
        BY <1>0, <2>1, UndoEffect
      <3> QED
        BY <3>1 DEF Token, Virgin
    <2> QED
      BY <2>1, <2>2 DEF Virgin, Writing
  <1>4. CASE ServerRestarts
    BY <1>4 DEF ServerRestarts
  <1>5. CASE ServerStep /\ ~InitSem /\ ~InitShm
    BY <1>5 DEF Virgin, ServerStep, SignalRq, Loop, Count, CountAbove,
           CountOverrunFaults, CountOverrunReturns, Recheck, DequeueItem, DequeueTo, DequeueOverrun,
           Fork, ForkFails, ForkSkipped, Recurse, ParentExit, Return
  <1>6. ASSUME NEW r \in Request, ChildStep(r) PROVE FALSE
    <2>1. kpc[r] # "none"
      BY <1>6 DEF ChildStep, ChildCheck, ChildStops, ChildSets, ChildWaitFr, ChildOpens, ChildOpenFails,
                  ChildSignalFr, ChildExits
    <2>2. Done = 0
      BY DEF Virgin, Done
    <2> QED
      BY <2>1, <2>2 DEF ServedTaken
  <1>7. ASSUME NEW c \in Client, ClientStarts(c) \/ ClientStep(c) \/ ClientKilled(c)
        PROVE  ~overlap' /\ Virgin'
    <2>0. /\ UNCHANGED <<serv, kpc, taken, lost, overlap>>
          /\ \E l \in ClientPc : cpc' = [cpc EXCEPT ![c] = l]
      BY <1>7, ClientFrame
    <2>1. cpc[c] \notin {"readline", "memcpy", "write_gt", "write_lt"} /\ c \in Proc
      BY DEF Virgin, Writing, Proc
    <2>2. ~ClientWaits(c)
      BY <1>0, <2>1, WaitsEffect DEF ClientWaits, Virgin
    <2>3. ClientStarts(c) \/ ClientReturns(c) \/ ClientKilled(c)
      BY <1>7, <2>1, <2>2
      DEF ClientStep, Seek, SeekFrom, SeekOverrunFaults, SeekOverrunReturns, Memcpy, WriteGt, WriteLt,
          WriteFaults, ClientSignals
    <2>4. UNCHANGED <<shm, todo, wild>> /\ cpc'[c] \in {"wait_rq", "exited"} /\ (K!Undo(c) \/ semval' = semval)
      BY <2>3 DEF ClientStarts, ClientReturns, ClientKilled, ClientEnds, ClientMoves, ClientAt, ipc,
                  TypeInv, TypeOK
    <2>5. semval'[SEMrq] = 0
      <3>1. K!Undo(c) => semval'[SEMrq] = IF semval[SEMrq] + semadj[c][SEMrq] > 0
                                            THEN semval[SEMrq] + semadj[c][SEMrq] ELSE 0
        BY <1>0, <2>1, UndoEffect
      <3>2. semadj[c][SEMrq] = 0 /\ semval[SEMrq] = 0
        BY DEF Token, Virgin
      <3> QED
        BY <2>4, <3>1, <3>2
    <2>6. \A d \in Client : cpc'[d] \notin {"readline", "memcpy", "write_gt", "write_lt"}
      BY <2>0, <2>4 DEF Virgin, Writing, TypeInv, TypeOK
    <2> QED
      BY <2>0, <2>4, <2>5, <2>6 DEF Virgin, Writing, serv
  <1> QED
    BY <1>1, <1>2, <1>3, <1>4, <1>5, <1>6, <1>7 DEF Next

LEMMA SegText ==
  ASSUME TypeInv, Token, CellsDiffer, ServedTaken, NEW g \in Nat, Segment(g), Next, restarts' = 0, restarts = 0,
         ~wild' \/ Roomy, spc \notin {"init_sem", "init_shm"}
  PROVE  \E f \in Nat : Segment(f)'
  <1>1. CASE DequeueItem
    BY <1>1, SegDequeue
  <1>2. CASE (ServerStep \/ ServerKilled) /\ ~DequeueItem
    <2>1. ~InitSem /\ ~InitShm
      BY DEF InitSem, InitSemTo, InitShm
    <2> QED
      BY <1>2, <2>1, SegLooks
  <1>3. CASE ServerRestarts
    BY <1>3 DEF ServerRestarts
  <1>4. ASSUME NEW r \in Request, ChildStep(r) PROVE Segment(g)'
    BY <1>4, SegChild
  <1>5. ASSUME NEW c \in Client, ClientStarts(c) \/ ClientStep(c) \/ ClientKilled(c)
        PROVE  \E f \in Nat : Segment(f)'
    <2>0. /\ UNCHANGED <<spc, curItem, kpc, taken, lost, overlap>>
          /\ \E l \in ClientPc : cpc' = [cpc EXCEPT ![c] = l]
      BY <1>5, ClientFrame DEF serv
    <2>1. CASE Seek(c)
      BY <2>1, SegSeek
    <2>2. CASE Memcpy(c)
      BY <2>2, SegMemcpy
    <2>3. CASE WriteGt(c)
      <3>1. Segment(g + 1)' /\ g + 1 \in Nat
        BY <2>3, SegWriteGt
      <3> QED
        BY <3>1
    <2>4. CASE WriteLt(c)
      BY <2>4, SegWriteLt
    <2>5. CASE WriteFaults(c)
      BY <2>5, SegFault
    <2>6. CASE SeekOverrunReturns(c)
      <3>1. wild' /\ ~Marked /\ cpc[c] = "readline"
        BY <2>6 DEF SeekOverrunReturns, SeekFrom
      <3> QED
        BY <3>1, RoomyMarked
    <2>7. CASE SeekOverrunFaults(c)
      <3>1. /\ ~Marked /\ cpc[c] = "readline" /\ UNCHANGED <<shm, todo, s, wild>>
            /\ cpc'[c] = "exited"
        BY <2>7 DEF SeekOverrunFaults, ClientEnds, ClientMoves, ClientAt, TypeInv, TypeOK
      <3>2. ~Filling(c)' /\ ~Filling(c)
        BY <3>1 DEF Filling
      <3> QED
        BY <2>0, <3>1, <3>2, SegAway
    <2>8. CASE ClientKilled(c)
      <3>1. UNCHANGED <<shm, todo, s, wild>> /\ cpc'[c] = "exited" /\ kills < MaxKills
        BY <2>8 DEF ClientKilled, ClientEnds, ClientMoves, ClientAt, TypeInv, TypeOK
      <3>2. ~Filling(c)'
        BY <3>1 DEF Filling
      <3>3. ~Roomy
        BY <3>1 DEF Roomy, TypeInv, TypeOK
      <3> QED
        BY <2>0, <3>1, <3>2, <3>3, SegAway
    <2>9. CASE ClientStarts(c) \/ ClientWaits(c) \/ ClientSignals(c) \/ ClientReturns(c)
      <3>1. /\ UNCHANGED <<shm, todo, s, wild>> /\ cpc'[c] \notin {"memcpy", "write_gt", "write_lt"}
            /\ cpc[c] \notin {"memcpy", "write_gt", "write_lt"}
        BY <2>9 DEF ClientStarts, ClientWaits, ClientSignals, ClientReturns, ClientEnds, ClientMoves,
                    ClientAt, TypeInv, TypeOK
      <3>2. ~Filling(c)' /\ ~Filling(c)
        BY <3>1 DEF Filling
      <3> QED
        BY <2>0, <3>1, <3>2, SegAway
    <2> QED
      BY <1>5, <2>1, <2>2, <2>3, <2>4, <2>5, <2>6, <2>7, <2>8, <2>9 DEF ClientStep
  <1> QED
    BY <1>1, <1>2, <1>3, <1>4, <1>5 DEF Next

(* restarts never goes back, wild is never reset, and the server enters     *)
(* init_shm only by a new start.                                            *)
LEMMA Forward ==
  ASSUME TypeInv, Next, restarts' = 0
  PROVE  /\ restarts = 0 /\ (wild => wild') /\ (overlap' => overlap \/ InitSem)
         /\ spc \notin {"init_sem", "init_shm"} => spc' \notin {"init_sem", "init_shm"}
  <1>1. CASE ServerStep \/ ServerKilled \/ ServerRestarts
    <2>1. overlap' => overlap \/ InitSem
      BY <1>1, ServerFrame
    <2>2. ~ServerRestarts
      BY DEF ServerRestarts, TypeInv, TypeOK
    <2>3. /\ restarts = 0 /\ (wild => wild')
          /\ spc \notin {"init_sem", "init_shm"} => spc' \notin {"init_sem", "init_shm"}
      BY <1>1, <2>2
      DEF ServerStep, InitSem, InitSemTo, InitShm, SignalRq, Loop, Count, CountAbove,
         CountOverrunFaults, CountOverrunReturns, Recheck, DequeueItem, DequeueTo, DequeueOverrun,
         Fork, ForkFails, ForkSkipped, Recurse, ParentExit, Return, ServerKilled,
         ServerAt, ServerMoves, ServerEnds, hist
    <2> QED
      BY <2>1, <2>3
  <1>2. ASSUME NEW r \in Request, ChildStep(r)
        PROVE  restarts = 0 /\ wild' = wild /\ overlap' = overlap /\ spc' = spc
    BY <1>2, ChildFrame DEF serv, hist
  <1>3. ASSUME NEW c \in Client, ClientStarts(c) \/ ClientStep(c) \/ ClientKilled(c)
        PROVE  restarts = 0 /\ (wild => wild') /\ overlap' = overlap /\ spc' = spc
    <2>1. restarts = 0 /\ overlap' = overlap /\ spc' = spc
      BY <1>3, ClientFrame DEF serv
    <2>2. wild => wild'
      BY <1>3
      DEF ClientStarts, ClientStep, ClientKilled, ClientWaits, Seek, SeekFrom, SeekOverrunFaults,
          SeekOverrunReturns, Memcpy, WriteGt, WriteLt, WriteFaults, ClientSignals,
          ClientReturns, ClientEnds, ClientMoves
    <2> QED
      BY <2>1, <2>2
  <1> QED
    BY <1>1, <1>2, <1>3 DEF Next

LEMMA SegNext == QueueInv /\ [Next]_vars => SegInv'
  <1> SUFFICES ASSUME QueueInv, Next, restarts' = 0
               PROVE  ~overlap' /\ (Virgin' \/ (spc' \notin {"init_sem", "init_shm"} /\ Text'))
    <2>1. ASSUME UNCHANGED vars, SegInv PROVE SegInv'
      <3>1. UNCHANGED <<shm, semval, semadj, spc, curItem, restarts, cpc, todo, s, kpc, taken, wild, overlap>>
        BY <2>1 DEF vars, ipc, serv, cli, hist
      <3>2. Virgin => Virgin'
        BY <3>1 DEF Virgin, Writing
      <3>3. ASSUME NEW g \in Nat, Segment(g) PROVE Segment(g)'
        <4>1. ~wild' => Found(g)'
          BY <3>1, <3>3 DEF Segment, Found, Done, HasExit
        <4>2. UNCHANGED <<shm, taken, cli>>
          BY <2>1, <3>1 DEF vars
        <4> QED
          BY <3>3, <4>1, <4>2, SegSame
      <3> QED
        BY <2>1, <3>1, <3>2, <3>3 DEF SegInv, Text, Roomy, ScriptLines
    <2> QED
      BY <2>1 DEF SegInv, QueueInv
  <1>1. /\ restarts = 0 /\ (wild => wild') /\ (overlap' => overlap \/ InitSem)
        /\ spc \notin {"init_sem", "init_shm"} => spc' \notin {"init_sem", "init_shm"}
    BY Forward DEF QueueInv
  <1>2. ~overlap /\ (Virgin \/ (spc \notin {"init_sem", "init_shm"} /\ Text))
    BY <1>1 DEF QueueInv, SegInv
  <1>3. TypeInv /\ Token /\ CellsDiffer /\ ServedTaken
    BY <1>2 DEF QueueInv, RqInv, TokenInv, OnceInv
  <1>4. CASE Virgin
    BY <1>1, <1>2, <1>3, <1>4, SegVirgin
  <1>5. CASE spc \notin {"init_sem", "init_shm"} /\ Text
    <2>1. ~overlap' /\ spc' \notin {"init_sem", "init_shm"}
      BY <1>1, <1>2, <1>5 DEF InitSem, InitSemTo
    <2>2. ASSUME ~wild' \/ Roomy PROVE \E f \in Nat : Segment(f)'
      <3>1. PICK g \in Nat : Segment(g)
        BY <1>1, <1>5, <2>2 DEF Text
      <3> QED
        BY <1>1, <1>3, <1>5, <2>2, <3>1, SegText
    <2> QED
      BY <2>1, <2>2 DEF Text, Roomy, ScriptLines
  <1> QED
    BY <1>2, <1>4, <1>5

LEMMA QueueInvariant ==
  ASSUME SemIdZero # SEMrq
  PROVE  Spec => []QueueInv
  <1>1. Init => QueueInv
    BY TypeInit, RqInvInit, OnceInit, ServedInit, SegInit DEF QueueInv
  <1>2. QueueInv /\ [Next]_vars => QueueInv'
    BY TypeNext, RqInvNext, OnceNext, ServedNext, SegNext DEF QueueInv
  <1> QED
    BY <1>1, <1>2, PTL DEF Spec

(* No dequeueItem returns the "exit" that the other processes have still to *)
(* see, for any clients, any number of kills and any segment size, as long  *)
(* as the counts stayed inside the segment.                                 *)
THEOREM ExitCorrect ==
  ASSUME SemIdZero # SEMrq
  PROVE  Spec => []ExitStays
  <1>1. QueueInv => ExitStays
    <2> SUFFICES ASSUME QueueInv, ~wild, restarts = 0, NEW i \in DOMAIN taken
                 PROVE  taken[i] # ExitReq
      BY DEF ExitStays
    <2>1. i \in 1 .. Done
      BY DEF QueueInv, TypeInv, TypeOK, Done
    <2>2. CASE Virgin
      BY <2>2 DEF Virgin
    <2>3. CASE ~Virgin
      <3>1. PICK g \in Nat : Segment(g)
        BY <2>3 DEF QueueInv, SegInv, Text
      <3> QED
        BY <2>1, <3>1 DEF Segment, Found
    <2> QED
      BY <2>2, <2>3
  <1> QED
    BY <1>1, QueueInvariant, PTL

(* The child is forked for the request just dequeued, and no other child    *)
(* was ever forked for it.                                                  *)
THEOREM FreshCorrect ==
  ASSUME SemIdZero # SEMrq
  PROVE  Spec => []FreshItem
  <1>1. QueueInv => FreshItem
    <2> SUFFICES ASSUME QueueInv, ~wild, restarts = 0, spc = "fork", ~HasExit
                 PROVE  curItem \in Request /\ kpc[curItem] = "none"
      BY DEF FreshItem
    <2>1. PICK g \in Nat : Segment(g)
      BY DEF QueueInv, SegInv, Text, Virgin
    <2> QED
      BY <2>1 DEF Segment, Found
  <1> QED
    BY <1>1, QueueInvariant, PTL
-----------------------------------------------------------------------------
(* The requests in the segment as a sequence.                               *)
Evens(n, p) == {2 * (n + k) : k \in 1 .. p}

LEMMA EvenCard ==
  ASSUME NEW n \in Nat, NEW p \in Nat
  PROVE  IsFiniteSet(Evens(n, p)) /\ Cardinality(Evens(n, p)) = p
  <1> DEFINE f == [k \in 1 .. p |-> 2 * (n + k)]
  <1>1. f \in Bijection(1 .. p, Evens(n, p))
    <2>1. f \in [1 .. p -> Evens(n, p)]
      BY DEF Evens
    <2>2. \A i, j \in 1 .. p : f[i] = f[j] => i = j
      OBVIOUS
    <2>3. \A x \in Evens(n, p) : \E k \in 1 .. p : f[k] = x
      BY DEF Evens
    <2> QED
      BY <2>1, <2>2, <2>3 DEF Bijection, Injection, Surjection, IsInjective
  <1>2. IsFiniteSet(1 .. p) /\ Cardinality(1 .. p) = p
    BY FS_Interval
  <1> QED
    BY <1>1, <1>2, FS_Bijection DEF ExistsBijection

LEMMA EvensBelow ==
  ASSUME NEW n \in Nat, NEW p \in Nat, NEW m \in 1 .. p
  PROVE  {j \in Evens(n, p) : j <= 2 * (n + m)} = Evens(n, m)
  <1>1. ASSUME NEW j \in Evens(n, p), j <= 2 * (n + m) PROVE j \in Evens(n, m)
    <2>1. PICK k \in 1 .. p : j = 2 * (n + k)
      BY DEF Evens
    <2>2. k \in 1 .. m
      BY <1>1, <2>1
    <2> QED
      BY <2>1, <2>2 DEF Evens
  <1>2. ASSUME NEW j \in Evens(n, m) PROVE j \in Evens(n, p) /\ j <= 2 * (n + m)
    <2>1. PICK k \in 1 .. m : j = 2 * (n + k)
      BY DEF Evens
    <2>2. k \in 1 .. p /\ 2 * (n + k) <= 2 * (n + m)
      OBVIOUS
    <2> QED
      BY <2>1, <2>2 DEF Evens
  <1> QED
    BY <1>1, <1>2

(* How many there are when g have got their '>'.                            *)
Load(g) == g - Done + IF 2 * g + 2 \in Cell /\ shm[2 * g + 2] \in Body THEN 1 ELSE 0

PendingAs(g) ==
  /\ Load(g) \in Nat /\ 2 * (Done + Load(g)) <= SegSize
  /\ Pending \in Seq(Body) /\ Len(Pending) = Load(g)
  /\ \A k \in 1 .. Load(g) : Pending[k] = shm[2 * (Done + k)]

PendingIs == \A g \in Nat : Laid(g) => PendingAs(g)

LEMMA PendingLaid == TypeInv => PendingIs
  <1> SUFFICES ASSUME TypeInv, NEW g \in Nat, Laid(g) PROVE PendingAs(g)
    BY DEF PendingIs
  <1> DEFINE p == Load(g)
             H == Evens(Done, p)
  <1>0. Done \in Nat /\ Done <= g /\ SegSize \in Nat /\ 2 * g <= SegSize
    BY QueueAssumption DEF TypeInv, TypeOK, Done, Laid
  <1>1. p = g - Done \/ (p = g - Done + 1 /\ 2 * g + 2 \in Cell /\ shm[2 * g + 2] \in Body)
    BY <1>0 DEF Load
  <1>2. p \in Nat /\ 2 * (Done + p) <= SegSize
    BY <1>0, <1>1 DEF Cell
  <1>3. Holding = H
    <2>1. ASSUME NEW i \in Cell, shm[i] \in Body PROVE i \in H
      <3>1. (\E k \in Done + 1 .. g : i = 2 * k) \/ (i = 2 * g + 2 /\ shm[i] \in Body)
        BY <2>1, LaidCells
      <3>2. ASSUME NEW k \in Done + 1 .. g, i = 2 * k PROVE i \in H
        <4>1. k - Done \in 1 .. p /\ i = 2 * (Done + (k - Done))
          BY <1>0, <1>1, <3>2
        <4> QED
          BY <4>1 DEF Evens
      <3>3. ASSUME i = 2 * g + 2, shm[i] \in Body PROVE i \in H
        <4>1. p = g - Done + 1
          BY <3>3 DEF Load
        <4>2. p \in 1 .. p /\ i = 2 * (Done + p)
          BY <1>0, <3>3, <4>1
        <4> QED
          BY <4>2 DEF Evens
      <3> QED
        BY <3>1, <3>2, <3>3
    <2>2. ASSUME NEW k \in 1 .. p PROVE 2 * (Done + k) \in Cell /\ shm[2 * (Done + k)] \in Body
      <3>1. 2 * (Done + k) \in Cell
        BY <1>0, <1>2 DEF Cell
      <3>2. CASE k <= g - Done
        <4>1. Done + k \in Done + 1 .. g
          BY <1>0, <3>2
        <4> QED
          BY <3>1, <4>1, LaidCells
      <3>3. CASE ~(k <= g - Done)
        <4>1. k = g - Done + 1 /\ shm[2 * g + 2] \in Body
          BY <1>0, <1>1, <3>3
        <4>2. 2 * (Done + k) = 2 * g + 2
          BY <1>0, <4>1
        <4> QED
          BY <3>1, <4>1, <4>2
      <3> QED
        BY <3>2, <3>3
    <2> QED
      BY <2>1, <2>2 DEF Holding, Evens
  <1>4. Cardinality(Holding) = p
    BY <1>0, <1>2, <1>3, EvenCard
  <1>5. ASSUME NEW m \in 1 .. p
        PROVE  {j \in Holding : j <= 2 * (Done + m)} = Evens(Done, m)
    BY <1>0, <1>2, <1>3, EvensBelow
  <1>6. ASSUME NEW m \in 1 .. p
        PROVE  Cardinality({j \in Holding : j <= 2 * (Done + m)}) = m
    <2>1. m \in Nat
      BY <1>2
    <2> QED
      BY <1>0, <1>5, <2>1, EvenCard
  <1>7. ASSUME NEW k \in 1 .. p
        PROVE  (CHOOSE i \in Holding : Cardinality({j \in Holding : j <= i}) = k) = 2 * (Done + k)
    <2>1. 2 * (Done + k) \in Holding
      BY <1>3 DEF Evens
    <2>2. ASSUME NEW i \in Holding, Cardinality({j \in Holding : j <= i}) = k PROVE i = 2 * (Done + k)
      <3>1. PICK m \in 1 .. p : i = 2 * (Done + m)
        BY <1>3 DEF Evens
      <3>2. m = k
        BY <1>6, <2>2, <3>1
      <3> QED
        BY <3>1, <3>2
    <2>3. Cardinality({j \in Holding : j <= 2 * (Done + k)}) = k
      BY <1>6
    <2> QED
      BY <2>1, <2>2, <2>3
  <1>8. Pending = [k \in 1 .. p |-> shm[2 * (Done + k)]]
    <2>1. \A k \in 1 .. p : shm[CHOOSE i \in Holding : Cardinality({j \in Holding : j <= i}) = k] = shm[2 * (Done + k)]
      BY <1>7
    <2> QED
      BY <1>4, <2>1 DEF Pending
  <1>9. \A k \in 1 .. p : shm[2 * (Done + k)] \in Body
    BY <1>3 DEF Holding, Evens
  <1>10. Pending \in Seq(Body) /\ Len(Pending) = p
    BY <1>2, <1>8, <1>9
  <1> QED
    BY <1>2, <1>8, <1>10 DEF PendingAs

(* The place that AddReq uses is the end of everything ever sent, for any   *)
(* clients, kills and segment, however much the server has dequeued since   *)
(* the scan.                                                                *)
THEOREM PlaceCorrect ==
  ASSUME SemIdZero # SEMrq
  PROVE  Spec => []PlaceIsEnd
  <1>1. QueueInv => PlaceIsEnd
    <2> SUFFICES ASSUME QueueInv, ~wild, restarts = 0, NEW c \in Client, cpc[c] = "memcpy"
                 PROVE  s[c] = 2 + 2 * (Len(taken) + Len(Pending))
      BY DEF PlaceIsEnd
    <2>1. ~Virgin
      BY DEF Virgin, Writing
    <2>2. PICK g \in Nat : Segment(g)
      BY <2>1 DEF QueueInv, SegInv, Text
    <2>3. s[c] = 2 * g + 2 /\ shm[2 * g + 2] = "lt" /\ Laid(g)
      BY <2>2 DEF Segment, Placed
    <2>4. "lt" \notin Body /\ Done \in Nat
      BY QueueAssumption DEF Body, QueueInv, TypeInv, TypeOK, Done
    <2>5. Load(g) = g - Done
      BY <2>3, <2>4 DEF Load
    <2>6. Len(Pending) = g - Done
      BY <2>2, <2>3, <2>5, PendingLaid DEF QueueInv, PendingIs, PendingAs
    <2>7. Len(taken) = Done
      BY DEF Done
    <2> QED
      BY <2>3, <2>4, <2>6, <2>7
  <1> QED
    BY <1>1, QueueInvariant, PTL
-----------------------------------------------------------------------------
(* The segment as a channel.                                                *)
LEMMA SeqAppendIs ==
  ASSUME NEW S, NEW u \in Seq(S), NEW v \in Seq(S), NEW x \in S, Len(v) = Len(u) + 1,
         \A k \in 1 .. Len(u) : v[k] = u[k], v[Len(u) + 1] = x
  PROVE  v = Append(u, x)
  <1>1. Append(u, x) \in Seq(S) /\ Len(Append(u, x)) = Len(v)
    OBVIOUS
  <1>2. \A k \in 1 .. Len(v) : v[k] = Append(u, x)[k]
    OBVIOUS
  <1> QED
    BY <1>1, <1>2, SeqEqual

LEMMA SeqTailIs ==
  ASSUME NEW S, NEW u \in Seq(S), NEW v \in Seq(S), u # << >>, Len(v) = Len(u) - 1,
         \A k \in 1 .. Len(u) - 1 : v[k] = u[k + 1]
  PROVE  v = Tail(u)
  BY HeadTailProperties, SeqEqual

NoneHeld    == Holding = {}
NonePending == Pending = << >>

LEMMA NothingPending == NoneHeld => NonePending
  <1> USE DEF NoneHeld, NonePending
  <1> SUFFICES ASSUME Holding = {} PROVE Pending = << >>
    OBVIOUS
  <1>1. Cardinality(Holding) = 0
    BY FS_EmptySet
  <1>2. 1 .. Cardinality(Holding) = {}
    BY <1>1
  <1> QED
    BY <1>2 DEF Pending

(* A write at the end of the text that is not of a request.                 *)
LEMMA PendingSame ==
  ASSUME TypeInv, TypeInv', NEW g \in Nat, NEW f \in Nat, Laid(g), Laid(f)', Load(f)' = Load(g),
         taken' = taken, \A k \in 1 .. Load(g) : shm'[2 * (Done + k)] = shm[2 * (Done + k)]
  PROVE  Pending' = Pending
  <1>1. PendingIs /\ PendingIs'
    BY PendingLaid, PTL
  <1>2. PendingAs(g) /\ PendingAs(f)'
    BY <1>1 DEF PendingIs
  <1>3. Done' = Done
    BY DEF Done
  <1>4. Pending \in Seq(Body) /\ Len(Pending) = Load(g) /\ \A k \in 1 .. Load(g) : Pending[k] = shm[2 * (Done + k)]
    BY <1>2 DEF PendingAs
  <1>5. Pending' \in Seq(Body) /\ Len(Pending') = Load(g) /\ \A k \in 1 .. Load(g) : Pending'[k] = shm'[2 * (Done + k)]
    BY <1>2, <1>3 DEF PendingAs
  <1> QED
    BY <1>4, <1>5, SeqEqual

LEMMA GtKeeps ==
  ASSUME TypeInv, TypeInv', Token, NEW g \in Nat, Segment(g), NEW c \in Client, WriteGt(c)
  PROVE  Pending' = Pending /\ taken' = taken
  <1>0. Segment(g + 1)' /\ g + 1 \in Nat
    BY SegWriteGt
  <1>1. Laid(g) /\ Laid(g + 1)' /\ Done \in Nat /\ Done <= g
    BY <1>0 DEF Segment, TypeInv, TypeOK, Done, Laid
  <1>2. taken' = taken /\ shm' = [shm EXCEPT ![s[c] + 1] = "gt"] /\ cpc[c] = "write_gt"
    BY DEF WriteGt, ClientMoves, ClientAt
  <1>3. s[c] = 2 * g + 2 /\ 2 * g + 2 \in Cell /\ shm[2 * g + 2] \in Body
    BY <1>2 DEF Segment, Placed
  <1>4. \A i \in Cell : i # 2 * g + 3 => shm'[i] = shm[i]
    BY <1>2, <1>3 DEF TypeInv, TypeOK
  <1>5. Load(g) = g - Done + 1
    BY <1>3 DEF Load
  <1>6. Load(g + 1)' = g - Done + 1
    <2>1. "nul" \notin Body
      BY QueueAssumption DEF Body
    <2>2. 2 * (g + 1) + 2 \in Cell => shm'[2 * (g + 1) + 2] = "nul"
      BY <1>1, <1>4 DEF Laid
    <2>3. Done' = Done
      BY <1>2 DEF Done
    <2>4. (g + 1) - Done + 0 = g - Done + 1
      BY <1>1
    <2> QED
      BY <2>1, <2>2, <2>3, <2>4 DEF Load
  <1>7. \A k \in 1 .. Load(g) : 2 * (Done + k) \in Cell /\ 2 * (Done + k) # 2 * g + 3
    BY <1>1, <1>3, <1>5, QueueAssumption DEF Cell
  <1>8. \A k \in 1 .. Load(g) : shm'[2 * (Done + k)] = shm[2 * (Done + k)]
    BY <1>4, <1>7
  <1>9. Load(g + 1)' = Load(g)
    BY <1>5, <1>6
  <1>10. Pending' = Pending
    <2> DEFINE f == g + 1
    <2>1. f \in Nat /\ Laid(f)' /\ Load(f)' = Load(g)
      BY <1>0, <1>1, <1>9
    <2> HIDE DEF f
    <2> QED
      BY <1>1, <1>2, <1>8, <2>1, PendingSame
  <1> QED
    BY <1>2, <1>10

LEMMA LtKeeps ==
  ASSUME TypeInv, TypeInv', Token, NEW g \in Nat, Segment(g), NEW c \in Client, WriteLt(c)
  PROVE  Pending' = Pending /\ taken' = taken
  <1>0. Segment(g)'
    BY SegWriteLt
  <1>1. Laid(g) /\ Laid(g)' /\ Done \in Nat /\ Done <= g
    BY <1>0 DEF Segment, TypeInv, TypeOK, Done, Laid
  <1>2. taken' = taken /\ shm' = [shm EXCEPT ![s[c] + 2] = "lt"] /\ cpc[c] = "write_lt"
    BY DEF WriteLt, ClientMoves, ClientAt
  <1>3. s[c] = 2 * g /\ (2 * g + 2 \in Cell => shm[2 * g + 2] = "nul")
    BY <1>2 DEF Segment, Placed
  <1>4. \A i \in Cell : shm'[i] = IF i = 2 * g + 2 THEN "lt" ELSE shm[i]
    BY <1>2, <1>3 DEF TypeInv, TypeOK
  <1>b. "nul" \notin Body /\ "lt" \notin Body
    BY QueueAssumption DEF Body
  <1>5. Load(g) = g - Done + 0
    BY <1>3, <1>b DEF Load
  <1>6. Load(g)' = g - Done + 0
    <2>3. Done' = Done
      BY <1>2 DEF Done
    <2> QED
      BY <1>4, <1>b, <2>3 DEF Load
  <1>7. \A k \in 1 .. Load(g) : 2 * (Done + k) \in Cell /\ 2 * (Done + k) # 2 * g + 2
    BY <1>1, <1>5, QueueAssumption DEF Cell, Laid
  <1>8. \A k \in 1 .. Load(g) : shm'[2 * (Done + k)] = shm[2 * (Done + k)]
    BY <1>4, <1>7
  <1>9. Load(g)' = Load(g)
    BY <1>5, <1>6
  <1>10. Pending' = Pending
    BY <1>1, <1>2, <1>8, <1>9, PendingSame
  <1> QED
    BY <1>2, <1>10

(* AddReq's memcpy sends.                                                   *)
LEMMA MemcpySends ==
  ASSUME TypeInv, TypeInv', Token, NEW g \in Nat, Segment(g), NEW c \in Client, Memcpy(c)
  PROVE  C!Send(Head(todo[c])) /\ Head(todo[c]) \in Body
  <1>0. Segment(g)'
    BY SegMemcpy
  <1>1. Laid(g) /\ Laid(g)' /\ Done \in Nat /\ Done <= g /\ SegSize \in Nat
    BY <1>0, QueueAssumption DEF Segment, TypeInv, TypeOK, Done, Laid
  <1>2. /\ taken' = taken /\ cpc[c] = "memcpy"
        /\ shm' = [shm EXCEPT ![s[c]] = Head(todo[c]), ![s[c] + 1] = "nul"]
    BY DEF Memcpy, ClientMoves, ClientAt
  <1>3. s[c] = 2 * g + 2 /\ 2 * g + 2 \in Cell /\ shm[2 * g + 2] = "lt"
    BY <1>2 DEF Segment, Placed
  <1>4. Head(todo[c]) \in Body
    BY <1>2 DEF TypeInv, TypeOK, HasLine, Filling
  <1>5. /\ shm'[2 * g + 2] = Head(todo[c])
        /\ \A i \in Cell : i < 2 * g + 2 => shm'[i] = shm[i]
    BY <1>2, <1>3 DEF TypeInv, TypeOK, Cell
  <1>b. "lt" \notin Body
    BY QueueAssumption DEF Body
  <1>6. Load(g) = g - Done + 0
    BY <1>3, <1>b DEF Load
  <1>7. Load(g)' = g - Done + 1 /\ Done' = Done
    <2>3. Done' = Done
      BY <1>2 DEF Done
    <2> QED
      BY <1>3, <1>4, <1>5, <2>3 DEF Load
  <1>8. PendingAs(g) /\ PendingAs(g)'
    <2>1. PendingIs /\ PendingIs'
      BY PendingLaid, PTL
    <2> QED
      BY <1>1, <2>1 DEF PendingIs
  <1>9. Pending \in Seq(Body) /\ Len(Pending) = g - Done /\ \A k \in 1 .. g - Done : Pending[k] = shm[2 * (Done + k)]
    <2>1. Load(g) = g - Done
      BY <1>1, <1>6
    <2> QED
      BY <1>8, <2>1 DEF PendingAs
  <1>10. /\ Pending' \in Seq(Body) /\ Len(Pending') = g - Done + 1
         /\ \A k \in 1 .. g - Done + 1 : Pending'[k] = shm'[2 * (Done + k)]
    BY <1>7, <1>8 DEF PendingAs
  <1>11. \A k \in 1 .. g - Done : Pending'[k] = Pending[k]
    <2>1. \A k \in 1 .. g - Done : k \in 1 .. g - Done + 1 /\ 2 * (Done + k) \in Cell /\ 2 * (Done + k) < 2 * g + 2
      BY <1>1, <1>3 DEF Cell
    <2> QED
      BY <1>5, <1>9, <1>10, <2>1
  <1>12. Pending'[(g - Done) + 1] = Head(todo[c])
    <2>1. g - Done + 1 \in 1 .. g - Done + 1 /\ 2 * (Done + (g - Done + 1)) = 2 * g + 2
      BY <1>1
    <2> QED
      BY <1>5, <1>10, <2>1
  <1>13. Pending' = Append(Pending, Head(todo[c]))
    BY <1>4, <1>9, <1>10, <1>11, <1>12, SeqAppendIs
  <1>14. Len(Pending) < SegSize
    BY <1>1, <1>3, <1>9 DEF Cell
  <1> QED
    BY <1>2, <1>4, <1>13, <1>14 DEF C!Send

(* dequeueItem receives.                                                    *)
LEMMA DequeueReceives ==
  ASSUME TypeInv, TypeInv', CellsDiffer, ServedTaken, NEW g \in Nat, Segment(g), DequeueItem
  PROVE  C!Receive
  <1>0. Segment(g)'
    BY SegDequeue
  <1>1. Laid(g) /\ Laid(g)' /\ Done \in Nat /\ Done <= g
    BY <1>0 DEF Segment, TypeInv, TypeOK, Done, Laid
  <1>2. PICK h, j \in Cell :
           /\ Complete(h, j) /\ curItem' = shm[h + 1]
           /\ shm' = [i \in Cell |-> IF i < j - 0 THEN "blank" ELSE IF i = j - 0 THEN "header" ELSE shm[i]]
    BY DEF DequeueItem, DequeueTo
  <1>3. h = 2 * Done + 1 /\ j = 2 * Done + 3 /\ Done < g
    BY <1>1, <1>2, FirstRequest
  <1>4. taken' = Append(taken, curItem') /\ Done' = Done + 1
    <2>1. taken' = Append(taken, curItem')
      BY DEF DequeueItem, DequeueTo
    <2>2. taken \in Seq(CellVal) /\ taken' \in Seq(CellVal)
      BY DEF TypeInv, TypeOK
    <2> QED
      BY <2>1, <2>2 DEF Done
  <1>5. \A i \in Cell : i > 2 * Done + 3 => shm'[i] = shm[i]
    BY <1>1, <1>2, <1>3 DEF Cell
  <1>6. Load(g)' = Load(g) - 1 /\ Load(g) \in Nat
    <2>1. 2 * g + 2 \in Cell => shm'[2 * g + 2] = shm[2 * g + 2]
      BY <1>1, <1>3, <1>5
    <2> QED
      BY <1>1, <1>4, <2>1 DEF Load
  <1>7. PendingAs(g) /\ PendingAs(g)'
    <2>1. PendingIs /\ PendingIs'
      BY PendingLaid, PTL
    <2> QED
      BY <1>1, <2>1 DEF PendingIs
  <1> DEFINE p == Load(g)
  <1>8. p \in Nat /\ p >= 1 /\ 2 * (Done + p) <= SegSize
    BY <1>1, <1>3, <1>7 DEF PendingAs, Load
  <1>9. Pending \in Seq(Body) /\ Len(Pending) = p /\ \A k \in 1 .. p : Pending[k] = shm[2 * (Done + k)]
    BY <1>7 DEF PendingAs
  <1>10. /\ Pending' \in Seq(Body) /\ Len(Pending') = p - 1
         /\ \A k \in 1 .. p - 1 : Pending'[k] = shm'[2 * ((Done + 1) + k)]
    BY <1>4, <1>6, <1>7 DEF PendingAs
  <1> HIDE DEF p
  <1>11. \A k \in 1 .. p - 1 : Pending'[k] = Pending[k + 1]
    <2> SUFFICES ASSUME NEW k \in 1 .. p - 1 PROVE Pending'[k] = Pending[k + 1]
      OBVIOUS
    <2>1. /\ k + 1 \in 1 .. p /\ 2 * ((Done + 1) + k) = 2 * (Done + (k + 1))
          /\ 2 * (Done + (k + 1)) \in Cell /\ 2 * (Done + (k + 1)) > 2 * Done + 3
      BY <1>1, <1>8, QueueAssumption DEF Cell
    <2> QED
      BY <1>5, <1>9, <1>10, <2>1
  <1>12. Pending # << >> /\ Head(Pending) = Pending[1] /\ Pending[1] = shm[2 * (Done + 1)]
    <2>1. 1 \in 1 .. p
      BY <1>8
    <2> QED
      BY <1>8, <1>9, <2>1
  <1>13. Pending' = Tail(Pending)
    BY <1>8, <1>9, <1>10, <1>11, <1>12, SeqTailIs
  <1>14. 2 * (Done + 1) = h + 1
    BY <1>1, <1>3
  <1>15. taken' = Append(taken, Head(Pending))
    BY <1>2, <1>4, <1>12, <1>14
  <1> QED
    BY <1>12, <1>13, <1>15 DEF C!Receive

LEMMA SegmentStep ==
  QueueInv /\ QueueInv' /\ Roomy /\ MaxRestarts = 0 /\ [Next]_vars => [C!ChanNext]_<<Pending, taken>>
  <1> DEFINE G == [C!ChanNext]_<<Pending, taken>>
  <1> SUFFICES ASSUME QueueInv, QueueInv', Roomy, MaxRestarts = 0, [Next]_vars
               PROVE  G
    OBVIOUS
  <1>t. TypeInv /\ TypeInv'
    BY DEF QueueInv
  <1>r. restarts = 0 /\ restarts' = 0
    BY <1>t DEF TypeInv, TypeOK
  <1>0. ASSUME shm' = shm, taken' = taken PROVE G
    BY <1>0 DEF Pending, Holding
  <1>i. /\ TypeInv /\ Token /\ CellsDiffer /\ ServedTaken
        /\ Virgin \/ (spc \notin {"init_sem", "init_shm"} /\ \E g \in Nat : Segment(g))
    BY <1>r DEF QueueInv, SegInv, Text, RqInv, TokenInv, OnceInv
  <1>1. CASE InitShm
    <2>1. Virgin
      BY <1>1, <1>i DEF InitShm
    <2>2. "nul" \notin Body /\ "header" \notin Body /\ "lt" \notin Body
      BY QueueAssumption DEF Body
    <2>3. \A i \in Cell : shm[i] \notin Body
      BY <2>1, <2>2 DEF Virgin
    <2>4. \A i \in Cell : shm'[i] \notin Body
      BY <1>1, <1>t, <2>2, <2>3 DEF InitShm, TypeInv, TypeOK
    <2>5. NoneHeld /\ NoneHeld'
      BY <2>3, <2>4 DEF NoneHeld, Holding
    <2>6. NonePending /\ NonePending'
      BY <2>5, NothingPending, PTL
    <2>7. taken' = taken
      BY <1>1 DEF InitShm, hist
    <2> QED
      BY <2>6, <2>7 DEF NonePending
  <1>2. CASE DequeueItem
    <2>1. PICK g \in Nat : Segment(g)
      BY <1>2, <1>i DEF DequeueItem, DequeueTo, Virgin
    <2> QED
      BY <1>2, <1>i, <1>t, <2>1, DequeueReceives DEF C!ChanNext
  <1>3. CASE (ServerStep \/ ServerKilled \/ ServerRestarts) /\ ~InitShm /\ ~DequeueItem
    <2>1. shm' = shm /\ taken' = taken
      BY <1>3
      DEF ServerStep, InitSem, InitSemTo, SignalRq, Loop, Count, CountAbove,
          CountOverrunFaults, CountOverrunReturns, Recheck, DequeueOverrun,
          Fork, ForkFails, ForkSkipped, Recurse, ParentExit, Return, ServerKilled, ServerRestarts,
          ServerMoves, ServerEnds, hist
    <2> QED
      BY <1>0, <2>1
  <1>4. ASSUME NEW r \in Request, ChildStep(r) PROVE G
    BY <1>0, <1>4, ChildFrame DEF hist
  <1>5. ASSUME NEW c \in Client, ClientStarts(c) \/ ClientStep(c) \/ ClientKilled(c) PROVE G
    <2>0. taken' = taken
      BY <1>5, ClientFrame
    <2>1. CASE Memcpy(c) \/ WriteGt(c) \/ WriteLt(c) \/ WriteFaults(c)
      <3>1. Filling(c)
        BY <2>1 DEF Memcpy, WriteGt, WriteLt, WriteFaults, Filling
      <3>2. PICK g \in Nat : Segment(g)
        BY <1>i, <3>1 DEF Virgin, Writing, Filling
      <3>3. CASE Memcpy(c)
        BY <1>i, <1>t, <3>2, <3>3, MemcpySends DEF C!ChanNext
      <3>4. CASE WriteGt(c)
        BY <1>i, <1>t, <3>2, <3>4, GtKeeps
      <3>5. CASE WriteLt(c)
        BY <1>i, <1>t, <3>2, <3>5, LtKeeps
      <3>6. CASE WriteFaults(c)
        <4>1. /\ cpc[c] \in {"memcpy", "write_gt"} => s[c] + 1 <= SegSize
              /\ cpc[c] = "write_lt" => s[c] + 2 <= SegSize
          BY <1>i, <3>1, <3>2, RoomyFits
        <4>2. s[c] \in Nat /\ SegSize \in Nat
          BY <1>t, QueueAssumption DEF TypeInv, TypeOK
        <4> QED
          BY <3>6, <4>1, <4>2 DEF WriteFaults
      <3> QED
        BY <2>1, <3>3, <3>4, <3>5, <3>6
    <2>2. CASE \/ ClientStarts(c) \/ ClientWaits(c) \/ Seek(c) \/ SeekOverrunFaults(c)
               \/ SeekOverrunReturns(c) \/ ClientSignals(c) \/ ClientReturns(c) \/ ClientKilled(c)
      <3>1. shm' = shm
        BY <2>2 DEF ClientStarts, ClientWaits, Seek, SeekFrom, SeekOverrunFaults, SeekOverrunReturns,
                    ClientSignals, ClientReturns, ClientKilled, ClientEnds
      <3> QED
        BY <1>0, <2>0, <3>1
    <2> QED
      BY <1>5, <2>1, <2>2 DEF ClientStep
  <1>6. CASE UNCHANGED vars
    BY <1>0, <1>6 DEF vars, hist
  <1> QED
    BY <1>1, <1>2, <1>3, <1>4, <1>5, <1>6 DEF Next

(* While nobody is killed or started again and all lines fit into the       *)
(* segment, the segment is a first-in first-out channel from the clients to *)
(* the server, although the server takes from it without SEMrq and may      *)
(* count behind its end: any number of clients, requests and lines.         *)
THEOREM SegmentRefines ==
  ASSUME SemIdZero # SEMrq, Roomy, MaxRestarts = 0
  PROVE  Spec => SegmentIsChannel
  <1>1. Init => C!ChanInit
    <2> SUFFICES ASSUME Init PROVE C!ChanInit
      OBVIOUS
    <2>1. NoneHeld
      BY QueueAssumption DEF Init, NoneHeld, Holding, Body
    <2> QED
      BY <2>1, NothingPending DEF NonePending, Init, C!ChanInit
  <1>2. QueueInv /\ QueueInv' /\ [Next]_vars => [C!ChanNext]_<<Pending, taken>>
    BY SegmentStep
  <1> QED
    BY <1>1, <1>2, QueueInvariant, PTL DEF Spec, SegmentIsChannel, C!ChanSpec
=============================================================================
