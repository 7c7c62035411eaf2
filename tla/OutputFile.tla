----------------------------- MODULE OutputFile -----------------------------
(***************************************************************************)
(* The children of server.c, the version the Makefile builds: every worker  *)
(* thread collects the matching lines of its file and appends them to       *)
(* output.txt itself, under the System V semaphore SEMbuf that all children *)
(* of all servers share.  A server removes output.txt and sets SEMbuf when  *)
(* it starts; children of the server before it may still be at work, and    *)
(* clean_os.sh may have removed the semaphore under them.                   *)
(*                                                                          *)
(* The requests and SEMfr are RequestQueue's matter; here a server forks    *)
(* its children in any order until it finds exit in the segment.            *)
(***************************************************************************)
EXTENDS Integers, Sequences, FiniteSets

CONSTANTS
  Child,       \* the child processes, named by their requests
  Worker,      \* the visible files of their directories, one thread for each
  ChildOf,     \* ChildOf[w]: the child that reads w's directory
  Matches,     \* Matches[w]: how many lines of w have the keyword
  MaxServers,  \* bound: how often a server is started
  MaxCleans,   \* bound: how often clean_os.sh is run
  MaxKills     \* bound: how many processes are killed

ASSUME OutputAssumption ==
  /\ IsFiniteSet(Worker)
  /\ ChildOf \in [Worker -> Child] /\ Matches \in [Worker -> Nat]
  /\ MaxServers \in Nat /\ MaxCleans \in Nat /\ MaxKills \in Nat

VARIABLES
  spc,      \* the next statement of the server's main
  starts,   \* how many servers have been started; the last one is running
  exit,     \* whether the segment holds exit
  set,      \* the semaphore set that the key 0x7171 stands for
  semval, semadj,
  pc,       \* pc[c]: the next statement of child c
  owner,    \* owner[c]: the server that forked c
  semid,    \* semid[c]: the set number in c's SEMbuf
  wpc,      \* wpc[w]: the next statement of worker w
  out,      \* the file named output.txt, or to be made under that name
  content,  \* content[i]: the lines of file i
  fd,       \* fd[w]: the file that w opened, or -1
  written,  \* written[w]: how many lines w has written
  kills,
  late,     \* history: the children at work when output.txt was removed last
  broken    \* history: a set was removed or set to 1 under a worker

ipc  == <<semval, semadj>>
serv == <<spc, starts, exit, set>>
proc == <<pc, owner, semid, kills>>
file == <<out, content, fd, written>>
hist == <<late, broken>>
vars == <<serv, ipc, proc, wpc, file, hist>>

Sem   == 0 .. MaxCleans
Inode == 0 .. MaxServers
K == INSTANCE SysVSem WITH Proc <- Child

Line   == Worker \X Nat
Ended  == {"exited", "dead"}
Of(c)  == {w \in Worker : ChildOf[w] = c}
Holds(w) == wpc[w] \in {"fopen", "write", "signal"}    \* inside fileWriter
LinesOf(w, i) == {j \in 1 .. Len(content[i]) : content[i][j][1] = w}
-----------------------------------------------------------------------------
Init ==
  /\ spc = "none" /\ starts = 0 /\ exit = FALSE /\ set = 0
  /\ semval = [x \in Sem |-> 0] /\ semadj = [c \in Child |-> [x \in Sem |-> 0]]
  /\ pc = [c \in Child |-> "none"] /\ wpc = [w \in Worker |-> "none"]
  /\ owner = [c \in Child |-> 0] /\ semid = [c \in Child |-> 0] /\ kills = 0
  /\ out = 0 /\ content = [i \in Inode |-> << >>]
  /\ fd = [w \in Worker |-> -1] /\ written = [w \in Worker |-> 0]
  /\ late = {} /\ broken = FALSE

ServerAt(l) == spc' = l /\ UNCHANGED <<starts, exit, set, wpc, content, fd, written>>
ServerMoves(l) == ServerAt(l) /\ UNCHANGED <<ipc, proc, out, hist>>

(* The segment may be an old one: the header overwrites an exit at its      *)
(* start and leaves one behind it.                                          *)
ServerStarts ==
  /\ spc \in {"none", "exited", "killed"} /\ starts < MaxServers
  /\ spc' = "init_file" /\ starts' = starts + 1
  /\ exit' \in {exit, FALSE}
  /\ UNCHANGED <<set, ipc, proc, wpc, file, hist>>

(* remove("output.txt"): who has the file open keeps it, and the next       *)
(* fopen makes another one.                                                 *)
InitFileTo(f) ==
  /\ spc = "init_file" /\ ServerAt("init_buf")
  /\ out' = f
  /\ late' = {c \in Child : pc[c] \notin {"none"} \cup Ended}
  /\ UNCHANGED <<ipc, proc, broken>>

InitFileForgotten == InitFileTo(out)
InitFile == InitFileTo(out + 1)

(* semget and sem_ini(SEMbuf, 1).                                           *)
InitBuf ==
  /\ spc = "init_buf" /\ ServerAt("loop")
  /\ K!SetVal(set, 1)
  /\ broken' = (broken \/ \E w \in Worker : Holds(w))
  /\ UNCHANGED <<proc, out, late>>

Fork(c) ==
  /\ spc = "loop" /\ ~exit /\ pc[c] = "none" /\ ServerAt("forked")
  /\ pc' = [pc EXCEPT ![c] = "forked"]
  /\ owner' = [owner EXCEPT ![c] = starts] /\ semid' = [semid EXCEPT ![c] = set]
  /\ UNCHANGED <<ipc, kills, out, hist>>

Recurse == spc = "forked" /\ ~exit /\ ServerMoves("loop")

ExitSeen == spc = "forked" /\ exit /\ ServerMoves("wait")

(* n is 0 in every new call of main: only the call that has forked waits,   *)
(* and for one child.                                                       *)
Return ==
  /\ \/ spc = "loop" /\ exit
     \/ spc = "wait" /\ \E c \in Child : owner[c] = starts /\ pc[c] \in Ended
  /\ ServerMoves("exited")

(* A client writes exit; clean_os.sh between two servers.  It removes the   *)
(* segment and the set.  Children keep the removed segment attached and may *)
(* still see exit in it; here it is gone for them too, so that they may go  *)
(* on where the code would have them stop.                                  *)
ExitArrives ==
  /\ ~exit /\ exit' = TRUE
  /\ UNCHANGED <<spc, starts, set, ipc, proc, wpc, file, hist>>

CleanOs ==
  /\ spc \in {"exited", "killed"} /\ set < MaxCleans
  /\ set' = set + 1 /\ exit' = FALSE
  /\ broken' = (broken \/ \E w \in Worker : Holds(w))
  /\ UNCHANGED <<spc, starts, ipc, proc, wpc, file, late>>

ServerKilled ==
  /\ spc \notin {"none", "exited", "killed"} /\ ServerAt("killed")
  /\ kills < MaxKills /\ kills' = kills + 1
  /\ UNCHANGED <<ipc, pc, owner, semid, out, hist>>
-----------------------------------------------------------------------------
ChildAt(c, l) == pc' = [pc EXCEPT ![c] = l] /\ UNCHANGED <<serv, owner, semid, file, late>>
ChildMoves(c, l) == ChildAt(c, l) /\ UNCHANGED <<ipc, wpc, kills, broken>>

(* The end of a process ends its threads and undoes its semaphore ops.      *)
ChildEnds(c, l) ==
  /\ ChildAt(c, l) /\ K!Undo(c)
  /\ wpc' = [w \in Worker |-> IF ChildOf[w] = c /\ wpc[w] \notin {"none", "done"}
                                THEN "dead" ELSE wpc[w]]
  /\ UNCHANGED broken

ChildPlays(c) == pc[c] = "forked" /\ ~exit /\ ChildMoves(c, "opendir")
ChildStops(c) == pc[c] = "forked" /\ exit /\ ChildEnds(c, "exited") /\ UNCHANGED kills

OpenDir(c) == pc[c] = "opendir" /\ ChildMoves(c, "readdir")
OpenDirFails(c) == pc[c] = "opendir" /\ ChildEnds(c, "dead") /\ UNCHANGED kills

(* pthread_create; when it fails the id of another thread is recorded, or   *)
(* none, and joinThreads does what nobody can tell.                         *)
CreateWorker(c, w) ==
  /\ pc[c] = "readdir" /\ ChildOf[w] = c /\ wpc[w] = "none"
  /\ wpc' \in {[wpc EXCEPT ![w] = "search"], [wpc EXCEPT ![w] = "failed"]}
  /\ UNCHANGED <<serv, ipc, proc, file, hist>>

CloseDir(c) ==
  /\ pc[c] = "readdir" /\ \A w \in Of(c) : wpc[w] # "none"
  /\ ChildMoves(c, "join")

JoinBut(c, n) ==
  /\ pc[c] = "join" /\ Cardinality({w \in Of(c) : wpc[w] \notin {"done", "failed"}}) <= n
  /\ ChildEnds(c, "exited") /\ UNCHANGED kills

JoinAllButOne(c) == JoinBut(c, 1)
JoinThreads(c) == JoinBut(c, 0)

JoinFaults(c) ==
  /\ pc[c] = "join" /\ \E w \in Of(c) : wpc[w] = "failed"
  /\ ChildEnds(c, "dead") /\ UNCHANGED kills

ChildKilled(c) ==
  /\ pc[c] \notin {"none"} \cup Ended /\ kills < MaxKills /\ kills' = kills + 1
  /\ ChildEnds(c, "dead")
-----------------------------------------------------------------------------
WorkerAt(w, l, m) ==
  /\ wpc[w] = l /\ wpc' = [wpc EXCEPT ![w] = m]
  /\ UNCHANGED <<serv, proc, late>>
WorkerMoves(w, l, m) == WorkerAt(w, l, m) /\ UNCHANGED <<ipc, file, broken>>

(* search_test: result holds the matching lines, or the file cannot be      *)
(* opened or is a directory.                                                *)
Search(w) == WorkerMoves(w, "search", "wait_buf")
SearchFails(w) == WorkerMoves(w, "search", "done")

Stale(w) == semid[ChildOf[w]] # set

(* waits(SEMbuf): nobody looks at the result, and on a set that has been    *)
(* removed it fails at once.                                                *)
WaitIgnored(w) == WorkerMoves(w, "wait_buf", "fopen")
WaitBuf(w) ==
  /\ WorkerAt(w, "wait_buf", "fopen")
  /\ \/ Stale(w) /\ broken' = TRUE /\ UNCHANGED ipc
     \/ ~Stale(w) /\ K!Waits(ChildOf[w], set) /\ UNCHANGED broken
  /\ UNCHANGED file

OpenFileShadowed(w) == WorkerMoves(w, "fopen", "write")

(* fopen with "a+"; without a file fprintf faults.                          *)
OpenFile(w) ==
  /\ WorkerAt(w, "fopen", "write")
  /\ fd' = [fd EXCEPT ![w] = out]
  /\ UNCHANGED <<ipc, out, content, written, broken>>

OpenFails(w) ==
  /\ wpc[w] = "fopen"
  /\ ChildEnds(ChildOf[w], "dead") /\ UNCHANGED kills

(* fprintf and fclose hand the text to the kernel block by block.           *)
Write(w) ==
  /\ written[w] < Matches[w] /\ WorkerAt(w, "write", "write")
  /\ written' = [written EXCEPT ![w] = @ + 1]
  /\ content' = [content EXCEPT ![fd[w]] = Append(@, <<w, written[w] + 1>>)]
  /\ UNCHANGED <<ipc, out, fd, broken>>

Close(w) == written[w] = Matches[w] /\ WorkerMoves(w, "write", "signal")

SignalBuf(w) ==
  /\ WorkerAt(w, "signal", "done")
  /\ IF Stale(w) THEN UNCHANGED ipc ELSE K!Signals(ChildOf[w], set)
  /\ UNCHANGED <<file, broken>>
-----------------------------------------------------------------------------
ServerStep ==
  \/ ServerStarts \/ InitFile \/ InitBuf \/ (\E c \in Child : Fork(c))
  \/ Recurse \/ ExitSeen \/ Return

ChildStep(c) ==
  \/ ChildPlays(c) \/ ChildStops(c) \/ OpenDir(c) \/ OpenDirFails(c)
  \/ (\E w \in Worker : CreateWorker(c, w)) \/ CloseDir(c)
  \/ JoinThreads(c) \/ JoinFaults(c)

WorkerStep(w) ==
  \/ Search(w) \/ SearchFails(w) \/ WaitBuf(w) \/ OpenFile(w) \/ OpenFails(w)
  \/ Write(w) \/ Close(w) \/ SignalBuf(w)

Next ==
  \/ ServerStep \/ ServerKilled \/ ExitArrives \/ CleanOs
  \/ \E c \in Child : ChildStep(c) \/ ChildKilled(c)
  \/ \E w \in Worker : WorkerStep(w)

Spec == Init /\ [][Next]_vars

(* Processes and threads are scheduled, and semop serves a waiting thread   *)
(* when the semaphore comes free again and again.                           *)
FairSpec ==
  /\ Spec
  /\ \A c \in Child : WF_vars(ChildStep(c))
  /\ \A w \in Worker : SF_vars(WorkerStep(w))
-----------------------------------------------------------------------------
ServerPc == {"none", "init_file", "init_buf", "loop", "forked", "wait", "exited", "killed"}
ChildPc  == {"none", "forked", "opendir", "readdir", "join", "exited", "dead"}
WorkerPc == {"none", "search", "failed", "wait_buf", "fopen", "write", "signal", "done", "dead"}

(* Types; fileWriter writes and closes only a file that it has opened, and  *)
(* that is one of those that were ever named output.txt.                    *)
TypeOK ==
  /\ spc \in ServerPc /\ starts \in 0 .. MaxServers /\ exit \in BOOLEAN /\ set \in Sem
  /\ semval \in [Sem -> Nat] /\ semadj \in [Child -> [Sem -> Int]]
  /\ pc \in [Child -> ChildPc] /\ owner \in [Child -> 0 .. MaxServers]
  /\ semid \in [Child -> Sem] /\ kills \in 0 .. MaxKills
  /\ wpc \in [Worker -> WorkerPc]
  /\ out \in Inode /\ content \in [Inode -> Seq(Line)]
  /\ fd \in [Worker -> Inode \cup {-1}]
  /\ (\A w \in Worker : wpc[w] \in {"write", "signal"} => fd[w] # -1)
  /\ written \in [Worker -> Nat]
  /\ late \subseteq Child /\ broken \in BOOLEAN

(* At most one worker of all children is between waits and signals of       *)
(* fileWriter, whoever dies there, as long as neither a new server nor      *)
(* clean_os.sh took the semaphore from under one.                           *)
WriterExclusion ==
  ~broken => \A v, w \in Worker : Holds(v) /\ Holds(w) => v = w

InOnePiece(f) ==
  \A j, k \in 1 .. Len(f) : j <= k /\ f[j][1] = f[k][1] =>
    \A m \in j .. k : f[m] = <<f[j][1], f[j][2] + m - j>>

(* Then no file's lines are torn apart: in output.txt, and in the files     *)
(* that were removed, fileWriter's text of one worker is in one piece and   *)
(* in order, also when the worker was killed in the middle of it.           *)
Unmixed ==
  ~broken => \A i \in Inode : InOnePiece(content[i])

(* What joinThreads promises: when a child has come to its exit(1), all     *)
(* lines of every worker that got to fileWriter are in one file, once and   *)
(* in order, even if the semaphore failed.                                  *)
WholeOutput ==
  \A w \in Worker :
    pc[ChildOf[w]] = "exited" /\ fd[w] # -1 =>
      LET f == content[fd[w]]
      IN  /\ {f[j][2] : j \in LinesOf(w, fd[w])} = 1 .. Matches[w]
          /\ \A j, k \in LinesOf(w, fd[w]) : j < k => f[j][2] < f[k][2]
          /\ \A i \in Inode \ {fd[w]} : LinesOf(w, i) = {}

Running == spc \in {"init_buf", "loop", "forked", "wait", "exited"}

(* Lines of an older server's request get into the output.txt of the        *)
(* running server only from a child that outlived init_file.                *)
OwnOrLate ==
  Running =>
    \A j \in 1 .. Len(content[out]) :
      LET c == ChildOf[content[out][j][1]] IN owner[c] = starts \/ c \in late

(* What test.sh compares: the output of a run is that of the run's own      *)
(* requests.                                                                *)
OwnOutput ==
  Running =>
    \A j \in 1 .. Len(content[out]) : owner[ChildOf[content[out][j][1]]] = starts

(* Every child that was forked comes to its end: a worker that waits for    *)
(* SEMbuf gets it, or is told that it is gone.                              *)
ChildrenEnd == \A c \in Child : pc[c] = "forked" ~> pc[c] \in Ended
=============================================================================
