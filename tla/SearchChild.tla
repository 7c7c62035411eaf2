---------------------------- MODULE SearchChild ----------------------------
(***************************************************************************)
(* One child process of the keyword-search server                          *)
(* (BlackBoxTestingFull_P3/server-rev1.c): ChildsPlay creates a Printer     *)
(* thread, openDir creates one Worker thread per file of the requested      *)
(* directory, the workers put every line that holds the keyword into a      *)
(* bounded ring buffer guarded by three POSIX semaphores, and the printer   *)
(* takes the lines out and appends them to output.txt until it meets the    *)
(* "exitchild" sentinel that ChildsPlay puts after joining the workers.     *)
(*                                                                          *)
(* Every semaphore operation is a step of its own; put, getitem and         *)
(* fileWriter's body run under a lock and are one step each.                *)
(* The semaphore SEMfr around openDir belongs to module RequestQueue.       *)
(***************************************************************************)
EXTENDS Integers, Sequences, FiniteSets

CONSTANTS
  Entry,       \* the directory entries readdir returns
  Kind,        \* what each entry is, see EntryKind
  Text,        \* Text[e]: the lines of e, each one the sequence of its words
  Word,        \* what strtok_r may find in a line
  Keyword,     \* the word of the request
  BufferSize,  \* BUFFERSIZE, argv[2] of the server
  EmptyInit,   \* the value sem_init gives to empty (the literal 10)
  MaxTids,     \* the length of the array tids (the literal 20)
  Main,        \* the thread that runs ChildsPlay
  Printer,     \* the thread that runs Printer
  ExitChild,   \* the sentinel "exitchild"
  NoStr,       \* a NULL String
  NoTid        \* a pthread_t that is no thread's

EntryKind == {"hidden", "subdir", "dirlink", "unreadable", "file"}

ASSUME EntryAssumption ==
  /\ IsFiniteSet(Entry)
  /\ Kind \in [Entry -> EntryKind]
  /\ Text \in [Entry -> Seq(Seq(Word))]

ASSUME ThreadAssumption == Main \notin Entry /\ Printer \notin Entry /\ Main # Printer
                           /\ NoTid \notin Entry

ASSUME SizeAssumption == /\ BufferSize \in Nat \ {0}
                         /\ EmptyInit \in Nat
                         /\ MaxTids \in Nat

(* The threads that put and the one that takes.                             *)
Producer == Entry \cup {Main}
Thread   == Producer \cup {Printer}

(* A line is known by its file and its line number; fname, the number and   *)
(* the text are what sprintf makes of them.                                 *)
Line == UNION {{e} \X (1 .. Len(Text[e])) : e \in Entry}

ASSUME SentinelAssumption == ExitChild \notin Line /\ NoStr \notin Line /\ ExitChild # NoStr

Item == Line \cup {ExitChild}

VARIABLES
  pc,        \* pc[t]: the next statement of thread t
  line_num,  \* line_num[e]: how many lines the worker of e has read
  tids,      \* the workers recorded by openDir, in the order of creation
  joined,    \* how many of them joinThreads has joined
  unread,    \* the entries readdir has still to return
  failed,    \* history: the threads that could not be created
  buffer,    \* the ring of Strings
  cur_put,   \* the slot the next put writes
  cur_get,   \* the slot the next getitem reads
  empty,     \* the POSIX semaphores
  full,
  mutex,
  str,       \* the String the printer took last
  SEMbuf,    \* who holds the System V semaphore around output.txt
  output,    \* the lines this child has appended to output.txt
  sent,      \* history: what put stored, in order
  rcvd       \* history: what getitem returned, in order

ring == <<buffer, cur_put, cur_get>>
sems == <<empty, full, mutex>>
dirv == <<tids, joined, unread, failed>>
outv == <<SEMbuf, output>>
logs == <<sent, rcvd>>
vars == <<pc, line_num, dirv, ring, sems, str, outv, logs>>

Goto(t, l) == pc' = [pc EXCEPT ![t] = l]

(* Thread t goes from l to m; it changes nothing else; it changes the three *)
(* semaphores by e, f and x and nothing else.                               *)
Step(t, l, m) == pc[t] = l /\ Goto(t, m)
Moves(t, l, m) == Step(t, l, m) /\ UNCHANGED <<line_num, dirv, ring, sems, str, outv, logs>>
SemStep(t, l, m, e, f, x) ==
  /\ Step(t, l, m)
  /\ empty' = empty + e /\ full' = full + f /\ mutex' = mutex + x
  /\ UNCHANGED <<line_num, dirv, ring, str, outv, logs>>

-----------------------------------------------------------------------------
(* openDir skips names that start with '.' and entries of type directory.   *)
Skipped(e) == Kind[e] \in {"hidden", "subdir"}

(* search_test returns at once from what opendir accepts (a link to a       *)
(* directory) and from what fopen refuses.                                  *)
Searchable(e) == Kind[e] = "file"

FoundFirstWord(e, k) == Text[e][k] # << >> /\ Text[e][k][1] = Keyword

(* strtok_r splits the line into words; found is set by any word equal to   *)
(* the keyword, so a line with several of them is put once.                 *)
Found(e, k) == \E i \in DOMAIN Text[e][k] : Text[e][k][i] = Keyword

-----------------------------------------------------------------------------
(* ChildsPlay up to the creation of the printer: the buffer is zeroed, the  *)
(* semaphores are initialised.                                              *)
Init ==
  /\ pc = [t \in Thread |-> IF t = Main THEN "create" ELSE "none"]
  /\ line_num = [e \in Entry |-> 0]
  /\ tids = << >> /\ joined = 0 /\ unread = Entry /\ failed = {}
  /\ buffer = [i \in 0 .. BufferSize - 1 |-> NoStr]
  /\ cur_put = 0 /\ cur_get = 0
  /\ empty = EmptyInit /\ full = 0 /\ mutex = 1
  /\ str = NoStr
  /\ SEMbuf = "free" /\ output = << >>
  /\ sent = << >> /\ rcvd = << >>

CreatePrinter ==
  /\ pc[Main] = "create"
  /\ pc' = [pc EXCEPT ![Main] = "opendir", ![Printer] = "wait_full"]
  /\ UNCHANGED <<line_num, dirv, ring, sems, str, outv, logs>>

(* A message, and ChildsPlay goes on with an uninitialised Printer_tid.     *)
CreatePrinterFails ==
  /\ Step(Main, "create", "opendir")
  /\ failed' = failed \cup {Printer}
  /\ UNCHANGED <<line_num, tids, joined, unread, ring, sems, str, outv, logs>>

(* exit(-1), exit(1) and a fault end every thread of the process; the       *)
(* kernel undoes a waits(SEMbuf) of it.                                     *)
ExitProcess ==
  /\ pc' = [t \in Thread |-> "dead"]
  /\ SEMbuf' = IF SEMbuf = "mine" THEN "free" ELSE SEMbuf
  /\ UNCHANGED <<line_num, dirv, ring, sems, str, output, logs>>

OpenDir == Moves(Main, "opendir", "readdir")

OpenDirFails == pc[Main] = "opendir" /\ ExitProcess

SkipEntry(e) ==
  /\ pc[Main] = "readdir" /\ e \in unread /\ Skipped(e)
  /\ unread' = unread \ {e}
  /\ UNCHANGED <<pc, line_num, tids, joined, failed, ring, sems, str, outv, logs>>

(* Creating a worker and recording its id.  Writing behind the end of tids  *)
(* is undefined: the model stops there, in "overrun".                       *)
CreateWorker(e) ==
  /\ pc[Main] = "readdir" /\ e \in unread /\ ~Skipped(e)
  /\ unread' = unread \ {e}
  /\ IF Len(tids) < MaxTids
       THEN pc' = [pc EXCEPT ![e] = "open"] /\ tids' = Append(tids, e)
       ELSE pc' = [t \in Thread |-> "overrun"] /\ UNCHANGED tids
  /\ UNCHANGED <<line_num, joined, failed, ring, sems, str, outv, logs>>

(* pthread_create fails: a message, and tid is recorded all the same.  It   *)
(* is that of the worker before, or no thread's.                            *)
CreateWorkerFails(e) ==
  /\ pc[Main] = "readdir" /\ e \in unread /\ ~Skipped(e) /\ Len(tids) < MaxTids
  /\ unread' = unread \ {e} /\ failed' = failed \cup {e}
  /\ \/ tids' = Append(tids, NoTid)
     \/ tids # << >> /\ tids' = Append(tids, tids[Len(tids)])
  /\ UNCHANGED <<pc, line_num, joined, ring, sems, str, outv, logs>>

CloseDir == unread = {} /\ Moves(Main, "readdir", "join")

(* A thread may be joined once.  What a second join, or one of no thread,   *)
(* does is undefined: it returns or it faults.                              *)
Joinable(i) == tids[i] # NoTid /\ \A j \in 1 .. i - 1 : tids[j] # tids[i]

JoinWorker ==
  /\ pc[Main] = "join" /\ joined < Len(tids)
  /\ Joinable(joined + 1) => pc[tids[joined + 1]] = "done"
  /\ joined' = joined + 1
  /\ UNCHANGED <<pc, line_num, tids, unread, failed, ring, sems, str, outv, logs>>

JoinFaults ==
  /\ pc[Main] = "join" /\ joined < Len(tids) /\ ~Joinable(joined + 1)
  /\ ExitProcess

AllJoinedBut(n) == joined + n >= Len(tids) /\ Moves(Main, "join", "wait_empty")

AllButOneJoined == AllJoinedBut(1)
AllJoined == AllJoinedBut(0)

-----------------------------------------------------------------------------
(* A worker: search_test.                                                   *)
OpenFile(e) == Moves(e, "open", IF Searchable(e) THEN "read" ELSE "done")

(* fgets and the search for the keyword in the line it read.                *)
ReadLine(e) ==
  /\ pc[e] = "read" /\ line_num[e] < Len(Text[e])
  /\ line_num' = [line_num EXCEPT ![e] = @ + 1]
  /\ Goto(e, IF Found(e, line_num[e] + 1) THEN "wait_empty" ELSE "read")
  /\ UNCHANGED <<dirv, ring, sems, str, outv, logs>>

EndOfFile(e) == line_num[e] >= Len(Text[e]) /\ Moves(e, "read", "done")

-----------------------------------------------------------------------------
(* The producer's five statements, of a worker for its line and of          *)
(* ChildsPlay for the sentinel.                                             *)
ItemOf(t) == IF t = Main THEN ExitChild ELSE <<t, line_num[t]>>

WaitEmptyIgnored(t) ==
  SemStep(t, "wait_empty", "wait_mutex", IF empty > 0 THEN -1 ELSE 0, 0, 0)
WaitEmpty(t) == empty > 0 /\ SemStep(t, "wait_empty", "wait_mutex", -1, 0, 0)

WaitMutex(t) == mutex > 0 /\ SemStep(t, "wait_mutex", "put", 0, 0, -1)

AdvanceUnwrapped(i) == i + 1

(* The index after i; BUFFERSIZE wraps to 0.                                *)
Advance(i) == IF i + 1 = BufferSize THEN 0 ELSE i + 1

Put(t) ==
  /\ Step(t, "put", "post_mutex")
  /\ buffer' = [buffer EXCEPT ![cur_put] = ItemOf(t)]
  /\ cur_put' = Advance(cur_put)
  /\ sent' = Append(sent, ItemOf(t))
  /\ UNCHANGED <<line_num, dirv, cur_get, sems, str, outv, rcvd>>

PostMutex(t) == SemStep(t, "post_mutex", "post_full", 0, 0, 1)

PostFullBy(t, n) == SemStep(t, "post_full", IF t = Main THEN "join_printer" ELSE "read", 0, n, 0)

PostFullForLines(t) == PostFullBy(t, IF t = Main THEN 0 ELSE 1)
PostFull(t) == PostFullBy(t, 1)

-----------------------------------------------------------------------------
(* The printer.                                                             *)
PrinterWaitFull == full > 0 /\ SemStep(Printer, "wait_full", "wait_mutex", 0, -1, 0)

PrinterSkipsMutex == Moves(Printer, "wait_mutex", "get")
PrinterWaitMutex == mutex > 0 /\ SemStep(Printer, "wait_mutex", "get", 0, 0, -1)

GetFrom(i) ==
  /\ pc[Printer] = "get"
  /\ str' = buffer[i]
  /\ cur_get' = Advance(cur_get)
  /\ rcvd' = Append(rcvd, buffer[i])
  /\ Goto(Printer, IF buffer[i] = ExitChild THEN "post_mutex" ELSE "wait_buf")
  /\ UNCHANGED <<line_num, dirv, buffer, cur_put, sems, outv, sent>>

GetItemAhead == GetFrom(Advance(cur_get))
GetItem == GetFrom(cur_get)

(* fileWriter, with the mutex still held: waits(SEMbuf), append,            *)
(* signals(SEMbuf).                                                         *)
WaitBuf ==
  /\ SEMbuf = "free"
  /\ Step(Printer, "wait_buf", "write")
  /\ SEMbuf' = "mine"
  /\ UNCHANGED <<line_num, dirv, ring, sems, str, output, logs>>

Write ==
  /\ Step(Printer, "write", "signal_buf")
  /\ output' = Append(output, str)
  /\ UNCHANGED <<line_num, dirv, ring, sems, str, SEMbuf, logs>>

(* fopen fails: the test for it is nested in its own negation, so fprintf   *)
(* gets NULL and the process dies.                                          *)
WriteFaults == pc[Printer] = "write" /\ ExitProcess

SignalBuf ==
  /\ Step(Printer, "signal_buf", "post_mutex")
  /\ SEMbuf' = "free"
  /\ UNCHANGED <<line_num, dirv, ring, sems, str, output, logs>>

PrinterPostMutex == SemStep(Printer, "post_mutex", "post_empty", 0, 0, 1)

PrinterPostEmptyBy(n) ==
  SemStep(Printer, "post_empty", IF str = ExitChild THEN "done" ELSE "wait_full", n, 0, 0)

PrinterPostEmptyForLines == PrinterPostEmptyBy(IF str = ExitChild THEN 0 ELSE 1)
PrinterPostEmpty == PrinterPostEmptyBy(1)

-----------------------------------------------------------------------------
(* The end of ChildsPlay; joining a printer that was never created is       *)
(* undefined again.                                                         *)
JoinPrinterAtOnce == Moves(Main, "join_printer", "destroy")
JoinPrinter ==
  (pc[Printer] = "done" \/ Printer \in failed) /\ Moves(Main, "join_printer", "destroy")

JoinPrinterFaults == pc[Main] = "join_printer" /\ Printer \in failed /\ ExitProcess

(* destroyBuffer frees every String and the ring.                           *)
DestroyBuffer ==
  /\ Step(Main, "destroy", "exit")
  /\ buffer' = [i \in 0 .. BufferSize - 1 |-> NoStr]
  /\ UNCHANGED <<line_num, dirv, cur_put, cur_get, sems, str, outv, logs>>

Exit == pc[Main] = "exit" /\ ExitProcess

(* The printers of the server's other children share SEMbuf.                *)
OtherWaitBuf ==
  /\ SEMbuf = "free" /\ SEMbuf' = "other"
  /\ UNCHANGED <<pc, line_num, dirv, ring, sems, str, output, logs>>

OtherSignalBuf ==
  /\ SEMbuf = "other" /\ SEMbuf' = "free"
  /\ UNCHANGED <<pc, line_num, dirv, ring, sems, str, output, logs>>

-----------------------------------------------------------------------------
ProducerStep(t) == WaitEmpty(t) \/ WaitMutex(t) \/ Put(t) \/ PostMutex(t) \/ PostFull(t)

WorkerStep(e) == OpenFile(e) \/ ReadLine(e) \/ EndOfFile(e) \/ ProducerStep(e)

MainStep ==
  \/ CreatePrinter \/ CreatePrinterFails \/ OpenDir \/ OpenDirFails
  \/ \E e \in Entry : SkipEntry(e) \/ CreateWorker(e) \/ CreateWorkerFails(e)
  \/ CloseDir \/ JoinWorker \/ JoinFaults \/ AllJoined
  \/ ProducerStep(Main)
  \/ JoinPrinter \/ JoinPrinterFaults \/ DestroyBuffer \/ Exit

PrinterStep ==
  \/ PrinterWaitFull \/ PrinterWaitMutex \/ GetItem
  \/ WaitBuf \/ Write \/ WriteFaults \/ SignalBuf
  \/ PrinterPostMutex \/ PrinterPostEmpty

Next ==
  \/ MainStep
  \/ \E e \in Entry : WorkerStep(e)
  \/ PrinterStep
  \/ OtherWaitBuf \/ OtherSignalBuf

(* The kernel runs every runnable thread; semop serves the waiters of       *)
(* SEMbuf in order; the other printers give SEMbuf back (SEM_UNDO even when *)
(* they die).                                                               *)
Fairness ==
  /\ WF_vars(MainStep)
  /\ \A e \in Entry : WF_vars(WorkerStep(e))
  /\ WF_vars(PrinterStep) /\ SF_vars(WaitBuf)
  /\ WF_vars(OtherSignalBuf)

Spec == Init /\ [][Next]_vars

FairSpec == Spec /\ Fairness

-----------------------------------------------------------------------------
(* Properties.                                                              *)

ProducerPc == {"none", "open", "read", "done", "dead", "overrun", "wait_empty",
               "wait_mutex", "put", "post_mutex", "post_full", "create",
               "opendir", "readdir", "join", "join_printer", "destroy", "exit"}

PrinterPc == {"none", "wait_full", "wait_mutex", "get", "wait_buf", "write",
              "signal_buf", "post_mutex", "post_empty", "done", "dead", "overrun"}

(* The type invariant: the indices of put and getitem stay inside the ring  *)
(* and the semaphores never go below zero.                                  *)
TypeOK ==
  /\ pc \in [Thread -> ProducerPc \cup PrinterPc]
  /\ \A t \in Producer : pc[t] \in ProducerPc
  /\ pc[Printer] \in PrinterPc
  /\ line_num \in [Entry -> Nat]
  /\ tids \in Seq(Entry \cup {NoTid}) /\ joined \in Nat
  /\ unread \subseteq Entry /\ failed \subseteq Entry \cup {Printer}
  /\ buffer \in [0 .. BufferSize - 1 -> Item \cup {NoStr}]
  /\ cur_put \in 0 .. BufferSize - 1 /\ cur_get \in 0 .. BufferSize - 1
  /\ empty \in Nat /\ full \in Nat /\ mutex \in Nat
  /\ str \in Item \cup {NoStr}
  /\ SEMbuf \in {"free", "mine", "other"}
  /\ output \in Seq(Item \cup {NoStr})
  /\ sent \in Seq(Item) /\ rcvd \in Seq(Item \cup {NoStr})

InCritical(t) ==
  pc[t] \in {"put", "get", "wait_buf", "write", "signal_buf", "post_mutex"}

(* The semaphore mutex keeps cur_put, cur_get and the ring to one thread:   *)
(* between sem_wait(&mutex) and sem_post(&mutex) there is never a second.   *)
MutualExclusion == \A t, u \in Thread : InCritical(t) /\ InCritical(u) => t = u

(* getitem returns what put stored, in the order of the puts, each item     *)
(* once: the printer never reads a slot before it is written and put never  *)
(* overwrites a slot that was not read yet.                                 *)
Fifo ==
  /\ Len(rcvd) <= Len(sent) /\ Len(sent) - Len(rcvd) <= BufferSize
  /\ \A i \in 1 .. Len(rcvd) : rcvd[i] = sent[i]

Alive == pc[Main] \notin {"dead", "overrun"}

(* Producers that took a token of empty and have not put; those that have   *)
(* put and owe full a token; the same two debts of the printer.             *)
Reserved  == {t \in Producer : pc[t] \in {"wait_mutex", "put"}}
Stored    == {t \in Producer : pc[t] \in {"post_mutex", "post_full"}}
Taking    == IF pc[Printer] \in {"wait_mutex", "get"} THEN 1 ELSE 0
Returning == IF pc[Printer] \in {"wait_buf", "write", "signal_buf", "post_mutex",
                                 "post_empty"} THEN 1 ELSE 0

(* No token is lost or made: empty and full always add up, with the tokens  *)
(* the threads hold between a wait and a post, to what sem_init gave them   *)
(* and to the items put and not yet taken.                                  *)
Accounting ==
  Alive =>
    /\ empty + Cardinality(Reserved) + Len(sent) + Returning = EmptyInit + Len(rcvd)
    /\ full + Cardinality(Stored) + Taking + Len(rcvd) = Len(sent)

(* The slot k places behind slot g of the ring.                             *)
Slot(g, k) == IF g + k < BufferSize THEN g + k ELSE g + k - BufferSize

(* Until destroyBuffer, the unread items lie in the ring from cur_get on,   *)
(* in the order of the puts, and cur_put is the slot behind the last.       *)
RingContents ==
  pc[Main] \notin {"exit", "dead", "overrun"} =>
    /\ cur_put = Slot(cur_get, Len(sent) - Len(rcvd))
    /\ \A k \in 0 .. Len(sent) - Len(rcvd) - 1 :
         buffer[Slot(cur_get, k)] = sent[Len(rcvd) + 1 + k]

(* What was put and not yet taken, read off the ring.  A child without a    *)
(* printer only fills the ring; it has no channel.                          *)
Unread ==
  IF Printer \in failed THEN << >>
  ELSE [k \in 1 .. Len(sent) - Len(rcvd) |-> buffer[Slot(cur_get, k - 1)]]

(* The ring with its semaphores is a first-in first-out channel of          *)
(* BUFFERSIZE places: every put sends, every getitem receives, and no other *)
(* statement of any thread (destroyBuffer among them) touches what is on    *)
(* its way.                                                                 *)
Ch == INSTANCE Channel WITH Msg <- Item, Capacity <- BufferSize,
                            chan <- Unread, delivered <- rcvd
RingIsChannel == Ch!ChanSpec

(* The lines with the keyword among their words.                            *)
Matching == {l \in Line : \E w \in DOMAIN Text[l[1]][l[2]] : Text[l[1]][l[2]][w] = Keyword}

(* When ChildsPlay frees the buffer, output.txt has got, of every file of   *)
(* the directory whose worker was created, exactly the lines with the       *)
(* keyword, each once and in the order of the file, however the workers and *)
(* the printer interleaved and whichever id a failed creation recorded.     *)
ExactOutput ==
  pc[Main] \in {"destroy", "exit"} /\ Printer \notin failed =>
    /\ {output[i] : i \in 1 .. Len(output)}
         = {l \in Matching : Kind[l[1]] = "file" /\ l[1] \notin failed}
    /\ \A i, j \in 1 .. Len(output) :
         i < j /\ output[i][1] = output[j][1] => output[i][2] < output[j][2]

(* Nobody uses the ring, or output.txt, once destroyBuffer is reached: the  *)
(* workers and the printer have ended and SEMbuf is not held by this child. *)
QuietAtDestroy ==
  pc[Main] \in {"destroy", "exit"} =>
    /\ \A t \in Thread \ {Main} : pc[t] \in {"none", "done"}
    /\ SEMbuf # "mine"

(* "exitchild" is the last item ever put: the printer's loop, which ends at *)
(* it, cannot leave a line of a late worker behind in the buffer.           *)
SentinelLast == \A i \in 1 .. Len(sent) : sent[i] = ExitChild => i = Len(sent)

(* The child always comes to its exit: no cycle of waits among the workers, *)
(* the printer (which keeps mutex while it waits for SEMbuf) and ChildsPlay,*)
(* and no join of a worker that was never created.  Without a printer the   *)
(* workers fill the ring and ChildsPlay waits for them for ever.            *)
Terminates == <>(pc[Main] = "dead" \/ Printer \in failed)
=============================================================================
