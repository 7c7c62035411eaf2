---------------------------- MODULE RequestQueue ----------------------------
(***************************************************************************)
(* The clients (client-rev1.c), the server's main process and the life of   *)
(* its children as far as the shared segment and the System V semaphores    *)
(* are concerned (server-rev1.c).                                           *)
(*                                                                          *)
(* The segment holds the text                                               *)
(*      blanks "Request Queue ->" req1 '>' req2 '>' ... reqN '>' '<'        *)
(* which the clients extend at the right, under SEMrq, and the server       *)
(* consumes at the left, without it.  A cell of shm stands for the header   *)
(* (whose last character is a '>'), for one request, or for one of the      *)
(* characters that the scans look for.  All requests have the same length.  *)
(***************************************************************************)
EXTENDS Integers, Sequences, FiniteSets

CONSTANTS
  Request,     \* the requests of the clients' input files, all different
  ExitReq,     \* the request "exit"
  Dir, DirOf,  \* DirOf[r]: the directory of request r
  Client,
  Script,      \* Script[c]: the lines of client c's input file
  Server,      \* the server's main process
  SemIdZero,   \* the semaphore the kernel numbered 0, if the program has it
  BufferSize,  \* BUFFERSIZE, the value one of ChildsPlay's SETVALs stores
  SegSize,     \* cells in the segment
  MaxKills,    \* bound: how many clients may be killed
  MaxRestarts, \* bound: how often a server may be started again
  NoItem       \* curItem of a server that has dequeued nothing

SEMrq == "SEMrq"
Sem   == {SEMrq} \cup Dir              \* SEMfr is one semaphore per directory
Proc  == Client \cup Request \cup {Server}   \* a child is named by its request

ASSUME QueueAssumption ==
  /\ DirOf \in [Request -> Dir] /\ SEMrq \notin Dir
  /\ Script \in [Client -> Seq(Request \cup {ExitReq})]
  /\ \A c, d \in Client : \A i \in 1 .. Len(Script[c]), j \in 1 .. Len(Script[d]) :
       Script[c][i] = Script[d][j] /\ Script[c][i] \in Request => c = d /\ i = j
  /\ Server \notin Client \cup Request /\ Client \cap Request = {}
  /\ ExitReq \notin Request /\ NoItem \notin Request
  /\ (Request \cup {ExitReq}) \cap {"blank", "header", "gt", "lt", "nul"} = {}
  /\ BufferSize \in Nat /\ SegSize \in Nat /\ SegSize >= 3 /\ MaxKills \in Nat /\ MaxRestarts \in Nat

VARIABLES
  shm,      \* the segment
  semval, semadj,
  spc,      \* the next statement of the server's main process
  curItem,  \* the request it dequeued last
  forked,   \* whether its n is not 0
  mine,     \* the children it has forked, by their requests
  restarts, \* how often a server was started again
  cpc,      \* cpc[c]: the next statement of client c
  todo,     \* todo[c]: the lines client c has still to read
  s,        \* s[c]: the place AddReq found for the request
  kills,    \* how many clients have been killed
  kpc,      \* kpc[r]: the next statement of the child that serves r
  taken,    \* history: the requests in the order of dequeueItem
  lost,     \* history: the requests whose fork failed
  wild,     \* history: a scan has returned from behind the segment
  overlap   \* history: init_shm has reset SEMrq under a client

ipc  == <<semval, semadj>>
serv == <<spc, curItem, forked, mine, restarts>>
cli  == <<cpc, todo, s, kills>>
hist == <<taken, lost, wild, overlap>>
vars == <<shm, ipc, serv, cli, kpc, hist>>

K == INSTANCE SysVSem

Cell == 1 .. SegSize
Arrows == {"gt", "header"}      \* cells that end in '>'

Gone == spc \in {"exited", "crashed", "killed"}
Writing(c) == cpc[c] \in {"readline", "memcpy", "write_gt", "write_lt"}

-----------------------------------------------------------------------------
(* strstr(shm, "exit"): the text ends at the first NUL.                     *)
HasExit == \E i \in Cell : shm[i] = ExitReq /\ \A j \in 1 .. i : shm[j] # "nul"

(* The cell of the first '<'; without one the scan leaves the segment.      *)
Marked  == \E i \in Cell : shm[i] = "lt"
MarkPos == CHOOSE i \in Cell : shm[i] = "lt" /\ \A j \in 1 .. i - 1 : shm[j] # "lt"

(* charcount(shm, '>').                                                     *)
charcount == Cardinality({i \in 1 .. MarkPos : shm[i] \in Arrows})

-----------------------------------------------------------------------------
(* A fresh segment and fresh semaphores, as clean_os.sh leaves them: who    *)
(* comes first, server or client, creates both with zeroes in them.         *)
Init ==
  /\ shm = [i \in Cell |-> "nul"]
  /\ semval = [x \in Sem |-> 0]
  /\ semadj = [p \in Proc |-> [x \in Sem |-> 0]]
  /\ spc = "init_sem" /\ curItem = NoItem /\ forked = FALSE /\ mine = {} /\ restarts = 0
  /\ cpc = [c \in Client |-> "none"]
  /\ todo = Script
  /\ s = [c \in Client |-> 0] /\ kills = 0
  /\ kpc = [r \in Request |-> "none"]
  /\ taken = << >> /\ lost = {} /\ wild = FALSE /\ overlap = FALSE

(* A step of the server that moves it to l and leaves its variables alone,  *)
(* and its end, at which the kernel undoes its waits and signals.           *)
ServerAt(l) == spc' = l /\ UNCHANGED <<curItem, forked, mine, restarts, cli, kpc>>
ServerMoves(l) == ServerAt(l) /\ UNCHANGED <<shm, ipc, hist>>
ServerEnds(l) == ServerAt(l) /\ K!Undo(Server) /\ UNCHANGED <<shm, hist>>

(* init_shm.  The segment may be an old one: only its first bytes change.   *)
InitSemTo(v) ==
  /\ spc = "init_sem" /\ ServerAt("init_shm")
  /\ K!SetVal(SEMrq, v)
  /\ overlap' = (overlap \/ \E c \in Client : Writing(c))
  /\ UNCHANGED <<shm, taken, lost, wild>>

InitSemWithOne == InitSemTo(1)
InitSem == InitSemTo(0)

InitShm ==
  /\ spc = "init_shm" /\ ServerAt("signal_rq")
  /\ shm' = [shm EXCEPT ![1] = "header", ![2] = "lt", ![SegSize] = "nul"]
  /\ UNCHANGED <<ipc, hist>>

SignalRqForgotten == spc = "signal_rq" /\ ServerMoves("loop")

SignalRq ==
  /\ spc = "signal_rq" /\ ServerAt("loop")
  /\ K!Signals(Server, SEMrq)
  /\ UNCHANGED <<shm, hist>>

-----------------------------------------------------------------------------
(* main.  Each look at the segment is a step.                               *)
Loop == spc = "loop" /\ ServerMoves(IF HasExit THEN "fork" ELSE "count")

CountAbove(n) ==
  /\ spc = "count" /\ Marked
  /\ ServerMoves(IF charcount > n THEN "recheck" ELSE "loop")

CountWithoutHeader == CountAbove(2)
Count == CountAbove(1)

(* No '<' in the segment: the scan reads on behind it.  It may fault, or    *)
(* meet a '<' in other memory after any number of '>'.                      *)
CountOverrunFaults == spc = "count" /\ ~Marked /\ ServerEnds("crashed")

CountOverrunReturns ==
  /\ spc = "count" /\ ~Marked
  /\ \E l \in {"loop", "recheck"} : ServerAt(l)
  /\ wild' = TRUE
  /\ UNCHANGED <<shm, ipc, taken, lost, overlap>>

(* The first '>' ends the header, the second one the first request.         *)
Complete(h, j) == h < j /\ {i \in 1 .. j : shm[i] \in Arrows} = {h, j}

RecheckDropped  == spc = "recheck" /\ ServerMoves("dequeue")
RecheckInverted == spc = "recheck" /\ ServerMoves(IF HasExit THEN "dequeue" ELSE "fork")

(* The second test for "exit".                                              *)
Recheck == spc = "recheck" /\ ServerMoves(IF HasExit THEN "fork" ELSE "dequeue")

(* dequeueItem: the request is copied, the header is written again so that  *)
(* it ends d cells before the request's '>', everything before becomes      *)
(* blank, and the directory's semaphore is set to 1.  The copy is exact: str *)
(* gets no NUL before strdup, and what malloc left behind it is left out.   *)
DequeueTo(d) ==
  /\ spc = "dequeue"
  /\ \E h, j \in Cell :
       /\ Complete(h, j)
       /\ curItem' = shm[h + 1]
       /\ shm' = [i \in Cell |-> IF i < j - d THEN "blank" ELSE IF i = j - d THEN "header" ELSE shm[i]]
  /\ taken' = Append(taken, curItem')
  /\ IF curItem' \in Request THEN K!SetVal(DirOf[curItem'], 1) ELSE UNCHANGED ipc
  /\ spc' = "fork"
  /\ UNCHANGED <<forked, mine, restarts, cli, kpc, lost, wild, overlap>>

DequeueShort == DequeueTo(1)
DequeueTwice == DequeueTo(2)
DequeueItem  == DequeueTo(0)

(* dequeueItem reads behind the text when the count was wrong.              *)
DequeueOverrun ==
  spc = "dequeue" /\ ~(\E h, j \in Cell : Complete(h, j)) /\ ServerEnds("crashed")

(* n = fork(): the child starts with its own test for "exit".  (A server    *)
(* that took something else for a request forks a child that finds no       *)
(* directory.)                                                              *)
Fork ==
  /\ spc = "fork" /\ ~HasExit
  /\ spc' = "parent" /\ forked' = TRUE
  /\ kpc' = [r \in Request |-> IF r = curItem THEN "check" ELSE kpc[r]]
  /\ mine' = mine \cup (Request \cap {curItem})
  /\ UNCHANGED <<shm, ipc, curItem, restarts, cli, hist>>

(* fork returns -1, which main takes for a parent's answer.                 *)
ForkFails ==
  /\ spc = "fork" /\ ~HasExit
  /\ spc' = "parent" /\ forked' = TRUE
  /\ lost' = lost \cup {curItem}
  /\ UNCHANGED <<shm, ipc, curItem, mine, restarts, cli, kpc, taken, wild, overlap>>

(* The looks for exit before fork and behind it are one step: once there,   *)
(* exit stays there (ExitStays), so each of them has the same answer.       *)
ForkSkipped == spc = "fork" /\ HasExit /\ ServerMoves("end")

(* free(curItem) and the recursive call of main, whose n is 0 again.        *)
Recurse ==
  /\ spc = "parent" /\ ~HasExit
  /\ spc' = "loop" /\ curItem' = NoItem /\ forked' = FALSE
  /\ UNCHANGED <<shm, ipc, mine, restarts, cli, kpc, hist>>

ParentExit == spc = "parent" /\ HasExit /\ ServerMoves("end")

(* if(n != 0) wait(NULL): one child, or none if there is none; shm_unlink   *)
(* is not the call that removes this segment.                               *)
Return ==
  /\ spc = "end" /\ (forked /\ mine # {} => \E r \in mine : kpc[r] = "exited")
  /\ ServerEnds("exited")

(* The server is killed, and started again, without a clean_os.sh between:  *)
(* segment, semaphores and children are those of its predecessor.           *)
ServerKilled == restarts < MaxRestarts /\ ~Gone /\ ServerEnds("killed")

ServerRestarts ==
  /\ Gone /\ restarts < MaxRestarts /\ restarts' = restarts + 1
  /\ spc' = "init_sem" /\ curItem' = NoItem /\ forked' = FALSE /\ mine' = {}
  /\ UNCHANGED <<shm, ipc, cli, kpc, hist>>

-----------------------------------------------------------------------------
(* A child.                                                                 *)
ChildMoves(r, l) ==
  /\ kpc' = [kpc EXCEPT ![r] = l]
  /\ UNCHANGED <<shm, serv, cli, hist>>

(* The end of a child: the kernel undoes its waits and signals.             *)
ChildEnds(r) == ChildMoves(r, "exited") /\ K!Undo(r)

ChildCheck(r) == kpc[r] = "check" /\ ~HasExit /\ ChildMoves(r, "set_full") /\ UNCHANGED ipc

(* The child of a server that has been told to stop returns from main.      *)
ChildStops(r) == kpc[r] = "check" /\ HasExit /\ ChildEnds(r)

(* fullbuf, emptybuf and mutexbuf are never assigned: each sem_ini sets the *)
(* semaphore with the number 0.                                             *)
SetZero(v) == IF SemIdZero \in Sem THEN K!SetVal(SemIdZero, v) ELSE UNCHANGED ipc

ChildSets(r) ==
  \/ kpc[r] = "set_full"  /\ ChildMoves(r, "set_empty") /\ SetZero(0)
  \/ kpc[r] = "set_empty" /\ ChildMoves(r, "set_mutex") /\ SetZero(BufferSize)
  \/ kpc[r] = "set_mutex" /\ ChildMoves(r, "wait_fr")   /\ SetZero(1)

ChildWaitFr(r) == kpc[r] = "wait_fr" /\ ChildMoves(r, "opendir") /\ K!Waits(r, DirOf[r])

ChildOpens(r) == kpc[r] = "opendir" /\ ChildMoves(r, "signal_fr") /\ UNCHANGED ipc

ChildOpenFailsWithoutUndo(r) == kpc[r] = "opendir" /\ ChildMoves(r, "exited") /\ UNCHANGED ipc

(* openDir's exit(-1): the kernel gives SEMfr back.                         *)
ChildOpenFails(r) == kpc[r] = "opendir" /\ ChildEnds(r)

ChildSignalFr(r) == kpc[r] = "signal_fr" /\ ChildMoves(r, "search") /\ K!Signals(r, DirOf[r])

(* The joins, the sentinel and exit(1); see SearchChild.                    *)
ChildExits(r) == kpc[r] = "search" /\ ChildEnds(r)

-----------------------------------------------------------------------------
(* A client: waits(SEMrq), AddReq for every line, signals(SEMrq).           *)
ClientAt(c, l) ==
  /\ cpc' = [cpc EXCEPT ![c] = l]
  /\ UNCHANGED <<serv, kpc, taken, lost, overlap>>
ClientMoves(c, l) == ClientAt(c, l) /\ UNCHANGED wild
ClientEnds(c) == ClientMoves(c, "exited") /\ K!Undo(c) /\ UNCHANGED <<todo, s>>

(* A client is started, if ever, and attaches the segment in get_shm.       *)
ClientStarts(c) ==
  /\ cpc[c] = "none"
  /\ ClientMoves(c, "wait_rq")
  /\ UNCHANGED <<shm, ipc, todo, s, kills>>

ClientWaits(c) ==
  /\ cpc[c] = "wait_rq"
  /\ ClientMoves(c, "readline") /\ K!Waits(c, SEMrq)
  /\ UNCHANGED <<shm, todo, s, kills>>

(* fgets and the scan of AddReq: to the first '<', back to the last '>'.    *)
Last(n, i)  == i <= n /\ shm[i] \in Arrows /\ \A j \in i + 1 .. n : shm[j] \notin Arrows
First(n, i) == i <= n /\ shm[i] \in Arrows /\ \A j \in 1 .. i - 1 : shm[j] \notin Arrows

SeekFrom(c, i) ==
  /\ cpc[c] = "readline" /\ todo[c] # << >>
  /\ s' = [s EXCEPT ![c] = i + 1]
  /\ ClientAt(c, "memcpy")
  /\ UNCHANGED <<shm, ipc, todo, kills>>

SeekAtArrow(c) == Marked /\ (\E i \in Cell : Last(MarkPos, i) /\ SeekFrom(c, i - 1)) /\ UNCHANGED wild
SeekFirst(c) == Marked /\ (\E i \in Cell : First(MarkPos, i) /\ SeekFrom(c, i)) /\ UNCHANGED wild
Seek(c)      == Marked /\ (\E i \in Cell : Last(MarkPos, i) /\ SeekFrom(c, i)) /\ UNCHANGED wild

(* The scan finds no '<' and leaves the segment.  It may fault, or meet a   *)
(* '<' in other memory and go back from there, to a '>' outside or to the   *)
(* last one of the segment.                                                 *)
SeekOverrunFaults(c) ==
  /\ cpc[c] = "readline" /\ todo[c] # << >> /\ ~Marked
  /\ ClientEnds(c) /\ UNCHANGED <<shm, kills>>

SeekOverrunReturns(c) ==
  /\ ~Marked /\ wild' = TRUE
  /\ \/ \E i \in Cell : Last(SegSize, i) /\ SeekFrom(c, i)
     \/ SeekFrom(c, SegSize)

(* The request with its NUL; its first character replaces the '<'.  What    *)
(* falls behind the segment changes other memory.                           *)
Memcpy(c) ==
  /\ cpc[c] = "memcpy" /\ ClientMoves(c, "write_gt")
  /\ shm' = [shm EXCEPT ![s[c]] = Head(todo[c]), ![s[c] + 1] = "nul"]
  /\ UNCHANGED <<ipc, todo, s, kills>>

WriteGt(c) ==
  /\ cpc[c] = "write_gt" /\ ClientMoves(c, "write_lt")
  /\ shm' = [shm EXCEPT ![s[c] + 1] = "gt"]
  /\ UNCHANGED <<ipc, todo, s, kills>>

WriteLt(c) ==
  /\ cpc[c] = "write_lt" /\ ClientMoves(c, "readline")
  /\ shm' = [shm EXCEPT ![s[c] + 2] = "lt"]
  /\ todo' = [todo EXCEPT ![c] = Tail(@)]
  /\ UNCHANGED <<ipc, s, kills>>

(* Nothing compares the place with the size of the segment: a write behind  *)
(* it may fault, with or without the part inside.                           *)
WriteFaults(c) ==
  /\ \/ cpc[c] \in {"memcpy", "write_gt"} /\ s[c] + 1 > SegSize
     \/ cpc[c] = "write_lt" /\ s[c] + 2 > SegSize
  /\ shm' \in {shm, IF cpc[c] = "memcpy" THEN [shm EXCEPT ![s[c]] = Head(todo[c])] ELSE shm}
  /\ ClientEnds(c) /\ UNCHANGED kills

ClientSignals(c) ==
  /\ cpc[c] = "readline" /\ todo[c] = << >>
  /\ ClientMoves(c, "return") /\ K!Signals(c, SEMrq)
  /\ UNCHANGED <<shm, todo, s, kills>>

ClientReturns(c) == cpc[c] = "return" /\ ClientEnds(c) /\ UNCHANGED <<shm, kills>>

(* A client is killed: the kernel undoes its waits, the segment stays as it *)
(* is.                                                                      *)
ClientKilled(c) ==
  /\ kills < MaxKills /\ cpc[c] \notin {"none", "exited"}
  /\ kills' = kills + 1
  /\ ClientEnds(c) /\ UNCHANGED shm

-----------------------------------------------------------------------------
ServerStep ==
  \/ InitSem \/ InitShm \/ SignalRq
  \/ Loop \/ Count \/ CountOverrunFaults \/ CountOverrunReturns
  \/ Recheck \/ DequeueItem \/ DequeueOverrun
  \/ Fork \/ ForkFails \/ ForkSkipped \/ Recurse \/ ParentExit \/ Return

ChildStep(r) ==
  \/ ChildCheck(r) \/ ChildStops(r) \/ ChildSets(r) \/ ChildWaitFr(r)
  \/ ChildOpens(r) \/ ChildOpenFails(r) \/ ChildSignalFr(r) \/ ChildExits(r)

ClientStep(c) ==
  \/ ClientWaits(c) \/ Seek(c) \/ SeekOverrunFaults(c) \/ SeekOverrunReturns(c)
  \/ Memcpy(c) \/ WriteGt(c) \/ WriteLt(c) \/ WriteFaults(c)
  \/ ClientSignals(c) \/ ClientReturns(c)

Next ==
  \/ ServerStep \/ ServerKilled \/ ServerRestarts
  \/ \E r \in Request : ChildStep(r)
  \/ \E c \in Client : ClientStarts(c) \/ ClientStep(c) \/ ClientKilled(c)

(* Every process is scheduled again and again, and semop serves the waiters *)
(* of a semaphore in order.  Nothing makes a client or a new server start.  *)
Fairness ==
  /\ WF_vars(ServerStep)
  /\ \A r \in Request : SF_vars(ChildStep(r))
  /\ \A c \in Client : SF_vars(ClientStep(c))

Spec == Init /\ [][Next]_vars

FairSpec == Spec /\ Fairness

-----------------------------------------------------------------------------
(* Properties.                                                              *)

ServerPc == {"init_sem", "init_shm", "signal_rq", "loop", "count", "recheck", "dequeue",
             "fork", "parent", "end", "exited", "crashed", "killed"}
ClientPc == {"none", "wait_rq", "readline", "memcpy", "write_gt", "write_lt", "return", "exited"}
ChildPc  == {"none", "check", "set_full", "set_empty", "set_mutex", "wait_fr", "opendir",
             "signal_fr", "search", "exited"}

Body     == Request \cup {ExitReq}
CellVal  == Body \cup {"blank", "header", "gt", "lt", "nul"}

(* The type invariant; the place that AddReq finds is inside the segment or *)
(* just behind it, and never that of the header.                            *)
TypeOK ==
  /\ shm \in [Cell -> CellVal]
  /\ semval \in [Sem -> Nat] /\ semadj \in [Proc -> [Sem -> Int]]
  /\ spc \in ServerPc /\ curItem \in CellVal \cup {NoItem} /\ forked \in BOOLEAN
  /\ mine \subseteq Request /\ restarts \in 0 .. MaxRestarts
  /\ cpc \in [Client -> ClientPc] /\ todo \in [Client -> Seq(Body)]
  /\ s \in [Client -> 0 .. SegSize + 1] /\ (\A c \in Client : s[c] # 1) /\ kills \in 0 .. MaxKills
  /\ kpc \in [Request -> ChildPc]
  /\ taken \in Seq(CellVal) /\ lost \subseteq CellVal \cup {NoItem}
  /\ wild \in BOOLEAN /\ overlap \in BOOLEAN

(* SEMrq gives the segment to one client at a time, while servers start,    *)
(* end, are killed and start again and clients are killed: SETVAL 0 at the  *)
(* start and what the kernel undoes at an end never let a second client in, *)
(* unless a new server resets SEMrq while a client holds it.  Not claimed   *)
(* when SEMrq is the semaphore numbered 0: the SETVALs of ChildsPlay hit it *)
(* then, and do let a second client in.                                     *)
ClientExclusion == ~overlap => \A c, d \in Client : Writing(c) /\ Writing(d) => c = d

(* The requests in the segment, in the order of the text: the k-th is in    *)
(* the cell up to which there are k.                                        *)
Holding == {i \in Cell : shm[i] \in Body}
Pending == [k \in 1 .. Cardinality(Holding) |->
              shm[CHOOSE i \in Holding : Cardinality({j \in Holding : j <= i}) = k]]

(* The segment is a channel: dequeueItem, which never takes SEMrq, gets     *)
(* every request whole, once and in the order of the AddReqs, although it   *)
(* rewrites the header while clients scan for their place.                  *)
C == INSTANCE Channel WITH Msg <- Body, Capacity <- SegSize,
                           chan <- Pending, delivered <- taken
SegmentIsChannel == C!ChanSpec

(* "exit" stays in the segment, for the processes that have still to see    *)
(* it: as long as charcount counts inside the segment, the test behind it   *)
(* keeps dequeueItem from an "exit", whatever the clients add in between.   *)
(* (A new server writes its header over the start of an old text, of which  *)
(* nothing of the kind is known.)                                           *)
ExitStays == ~wild /\ restarts = 0 => \A i \in DOMAIN taken : taken[i] # ExitReq

(* A child is only ever forked for the request just dequeued, and never     *)
(* twice for the same: not for the item freed before the recursion.         *)
FreshItem ==
  ~wild /\ restarts = 0 /\ spc = "fork" /\ ~HasExit => curItem \in Request /\ kpc[curItem] = "none"

(* No request is served twice: whatever a killed server left in the segment *)
(* and a new one finds there, dequeueItem has removed what it returned.     *)
AtMostOnce ==
  \A i, j \in DOMAIN taken : taken[i] \in Request /\ taken[i] = taken[j] => i = j

(* The place AddReq found is the end of everything ever sent when it is     *)
(* used, however much the server has dequeued since.  (So nothing dequeued  *)
(* is used again: the segment is full after SegSize cells of requests.)     *)
PlaceIsEnd ==
  ~wild /\ restarts = 0 =>
    \A c \in Client : cpc[c] = "memcpy" => s[c] = 2 + 2 * (Len(taken) + Len(Pending))

(* A request in the segment gets a child and the child comes to its end,    *)
(* unless there is none because the server was told to exit, died or could  *)
(* not fork: SEMfr, which dequeueItem sets to 1 whoever holds it, never     *)
(* loses its last token.                                                    *)
RequestServed ==
  \A r \in Request :
    (\E i \in Cell : shm[i] = r)
      ~> (kpc[r] = "exited" \/ (kpc[r] = "none" /\ (r \in lost \/ HasExit \/ Gone)))

(* Told to exit, the server ends: its wait(NULL) is not for a child that    *)
(* waits for SEMfr for ever, and no dequeueItem wipes the "exit" out.       *)
ExitObeyed == HasExit ~> (Gone \/ wild)

(* A client gets the segment sooner or later, unless the server has ended.  *)
ClientsGetQueue == \A c \in Client : cpc[c] = "wait_rq" ~> (cpc[c] # "wait_rq" \/ Gone)

(* What "Waiting on Dir access" around SEMfr is there for: one child at a   *)
(* time goes through a directory.                                           *)
DirectoryExclusion ==
  \A q, r \in Request :
    /\ kpc[q] \in {"opendir", "signal_fr"} /\ kpc[r] \in {"opendir", "signal_fr"}
    /\ DirOf[q] = DirOf[r]
    => q = r

(* What the tests rely on when they compare output.txt: as long as nobody   *)
(* is killed, the server does not die while it looks at the segment.        *)
ServerSurvives == kills = 0 => spc # "crashed"
=============================================================================
