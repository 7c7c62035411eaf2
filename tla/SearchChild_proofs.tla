------------------------- MODULE SearchChild_proofs -------------------------
(***************************************************************************)
(* Theorems about SearchChild, for every directory, every text and every    *)
(* size of the ring.                                                        *)
(***************************************************************************)
EXTENDS SearchChild, FiniteSetTheorems, TLAPS

(* A worker counts the lines of its file, and on its way to put it has read *)
(* one.                                                                     *)
LineInv == \A e \in Entry :
             /\ line_num[e] <= Len(Text[e])
             /\ pc[e] \in {"wait_empty", "wait_mutex", "put"} => line_num[e] # 0

TypeInv == TypeOK /\ LineInv

(* Next by its actions, so that a proof has one case for each of them.      *)
LEMMA NextCases ==
  ASSUME Next
  PROVE  \/ CreatePrinter \/ CreatePrinterFails \/ OpenDir \/ OpenDirFails \/ CloseDir
         \/ JoinWorker \/ JoinFaults \/ AllJoined \/ JoinPrinter \/ JoinPrinterFaults
         \/ DestroyBuffer \/ Exit
         \/ \E e \in Entry : SkipEntry(e) \/ CreateWorker(e) \/ CreateWorkerFails(e)
                               \/ OpenFile(e) \/ ReadLine(e) \/ EndOfFile(e)
         \/ \E t \in Producer : WaitEmpty(t) \/ WaitMutex(t) \/ Put(t)
                                  \/ PostMutex(t) \/ PostFull(t)
         \/ PrinterWaitFull \/ PrinterWaitMutex \/ GetItem \/ WaitBuf \/ Write \/ WriteFaults
         \/ SignalBuf \/ PrinterPostMutex \/ PrinterPostEmpty
         \/ OtherWaitBuf \/ OtherSignalBuf
  BY Zenon DEF Next, MainStep, WorkerStep, ProducerStep, PrinterStep, Producer

LEMMA TypeInvInit == Init => TypeInv
  BY SizeAssumption, EntryAssumption, ThreadAssumption
  DEF Init, TypeInv, TypeOK, LineInv, Thread, Producer, ProducerPc, PrinterPc, Item

LEMMA TypeInvNext == TypeInv /\ [Next]_vars => TypeInv'
  <1> SUFFICES ASSUME TypeInv, [Next]_vars PROVE TypeInv'
    OBVIOUS
  <1> USE SizeAssumption, EntryAssumption, ThreadAssumption
      DEF TypeInv, TypeOK, LineInv, Thread, Producer, ProducerPc, PrinterPc,
          Step, Goto, Moves, SemStep, dirv, ring, sems, outv, logs
  <1>1. CASE CreatePrinter
    BY <1>1 DEF CreatePrinter
  <1>2. CASE OpenDir
    BY <1>2 DEF OpenDir
  <1>3. CASE OpenDirFails
    BY <1>3 DEF OpenDirFails, ExitProcess
  <1>4. CASE CloseDir
    BY <1>4 DEF CloseDir
  <1>5. CASE JoinWorker
    BY <1>5 DEF JoinWorker
  <1>6. CASE AllJoined
    BY <1>6 DEF AllJoined, AllJoinedBut
  <1>7. CASE JoinPrinter
    BY <1>7 DEF JoinPrinter
  <1>8. CASE DestroyBuffer
    BY <1>8 DEF DestroyBuffer
  <1>9. CASE Exit
    BY <1>9 DEF Exit, ExitProcess
  <1>30. CASE WriteFaults
    BY <1>30 DEF WriteFaults, ExitProcess
  <1>31. CASE CreatePrinterFails
    BY <1>31 DEF CreatePrinterFails
  <1>32. CASE JoinFaults \/ JoinPrinterFaults
    <2>1. ExitProcess
      BY <1>32 DEF JoinFaults, JoinPrinterFaults
    <2> QED
      BY <2>1 DEF ExitProcess
  <1>33. ASSUME NEW e \in Entry, CreateWorkerFails(e) PROVE TypeInv'
    <2>1. tids' \in Seq(Entry \cup {NoTid})
      <3>1. tids # << >> => tids[Len(tids)] \in Entry \cup {NoTid}
        OBVIOUS
      <3>2. \A x \in Entry \cup {NoTid} : Append(tids, x) \in Seq(Entry \cup {NoTid})
        OBVIOUS
      <3>3. \/ tids' = Append(tids, NoTid)
            \/ tids # << >> /\ tids' = Append(tids, tids[Len(tids)])
        BY <1>33, Zenon DEF CreateWorkerFails
      <3> HIDE DEF TypeInv, TypeOK
      <3> QED
        BY <3>1, <3>2, <3>3, Zenon
    <2> QED
      BY <1>33, <2>1 DEF CreateWorkerFails
  <1>10. ASSUME NEW e \in Entry, SkipEntry(e) PROVE TypeInv'
    BY <1>10 DEF SkipEntry
  <1>11. ASSUME NEW e \in Entry, CreateWorker(e) PROVE TypeInv'
    <2>1. CASE Len(tids) < MaxTids
      <3>0. tids' = Append(tids, e)
        BY <1>11, <2>1 DEF CreateWorker
      <3>1. tids' \in Seq(Entry \cup {NoTid})
        BY <3>0, <1>11
      <3>2. pc' = [pc EXCEPT ![e] = "open"]
        BY <1>11, <2>1 DEF CreateWorker
      <3> QED
        BY <1>11, <3>0, <3>1, <3>2 DEF CreateWorker
    <2>2. CASE ~(Len(tids) < MaxTids)
      BY <1>11, <2>2 DEF CreateWorker
    <2> QED
      BY <2>1, <2>2
  <1>12. ASSUME NEW e \in Entry, OpenFile(e) PROVE TypeInv'
    BY <1>12 DEF OpenFile
  <1>13. ASSUME NEW e \in Entry, ReadLine(e) PROVE TypeInv'
    BY <1>13 DEF ReadLine
  <1>14. ASSUME NEW e \in Entry, EndOfFile(e) PROVE TypeInv'
    BY <1>14 DEF EndOfFile
  <1>15. ASSUME NEW t \in Producer, WaitEmpty(t) PROVE TypeInv'
    BY <1>15 DEF WaitEmpty
  <1>16. ASSUME NEW t \in Producer, WaitMutex(t) PROVE TypeInv'
    BY <1>16 DEF WaitMutex
  <1>17. ASSUME NEW t \in Producer, Put(t) PROVE TypeInv'
    <2>1. ItemOf(t) \in Item
      BY <1>17 DEF Put, ItemOf, Item, Line
    <2>2. Advance(cur_put) \in 0 .. BufferSize - 1
      BY DEF Advance
    <2> QED
      BY <1>17, <2>1, <2>2 DEF Put
  <1>18. ASSUME NEW t \in Producer, PostMutex(t) PROVE TypeInv'
    BY <1>18 DEF PostMutex
  <1>19. ASSUME NEW t \in Producer, PostFull(t) PROVE TypeInv'
    BY <1>19 DEF PostFull, PostFullBy
  <1>20. CASE PrinterWaitFull
    BY <1>20 DEF PrinterWaitFull
  <1>21. CASE PrinterWaitMutex
    BY <1>21 DEF PrinterWaitMutex
  <1>22. CASE GetItem
    <2>1. Advance(cur_get) \in 0 .. BufferSize - 1
      BY DEF Advance
    <2> QED
      BY <1>22, <2>1 DEF GetItem, GetFrom
  <1>23. CASE WaitBuf
    BY <1>23 DEF WaitBuf
  <1>24. CASE Write
    BY <1>24 DEF Write
  <1>25. CASE SignalBuf
    BY <1>25 DEF SignalBuf
  <1>26. CASE PrinterPostMutex
    BY <1>26 DEF PrinterPostMutex
  <1>27. CASE PrinterPostEmpty
    BY <1>27 DEF PrinterPostEmpty, PrinterPostEmptyBy
  <1>28. CASE OtherWaitBuf \/ OtherSignalBuf
    BY <1>28 DEF OtherWaitBuf, OtherSignalBuf
  <1>29. CASE UNCHANGED vars
    BY <1>29 DEF vars
  <1> HIDE DEF TypeInv, TypeOK, LineInv, Thread, Producer, Step, Goto, Moves, SemStep
  <1> QED
    BY <1>1, <1>2, <1>3, <1>4, <1>5, <1>6, <1>7, <1>8, <1>9, <1>10, <1>11,
       <1>12, <1>13, <1>14, <1>15, <1>16, <1>17, <1>18, <1>19, <1>20, <1>21,
       <1>22, <1>23, <1>24, <1>25, <1>26, <1>27, <1>28, <1>29, <1>30,
       <1>31, <1>32, <1>33,
       NextCases, Zenon

(* The type invariant holds in every reachable state of ChildsPlay.         *)
THEOREM TypeCorrect == Spec => []TypeOK
  <1>1. Spec => []TypeInv
    BY TypeInvInit, TypeInvNext, PTL DEF Spec
  <1>2. TypeInv => TypeOK
    BY DEF TypeInv
  <1> QED
    BY <1>1, <1>2, PTL
-----------------------------------------------------------------------------
(* Mutual exclusion: mutex is 0 as long as some thread is between its wait  *)
(* and its post.                                                            *)
MutexInv ==
  /\ MutualExclusion
  /\ mutex \in {0, 1}
  /\ \A t \in Thread : InCritical(t) => mutex = 0

LEMMA MutexInvInit == Init => MutexInv
  BY ThreadAssumption DEF Init, MutexInv, MutualExclusion, InCritical, Thread, Producer

LEMMA MutexInvNext == TypeInv /\ MutexInv /\ [Next]_vars => MutexInv'
  <1> SUFFICES ASSUME TypeInv, MutexInv, [Next]_vars PROVE MutexInv'
    OBVIOUS
  <1>0. pc \in [Thread -> ProducerPc \cup PrinterPc]
    BY DEF TypeInv, TypeOK
  <1> USE <1>0, ThreadAssumption
      DEF MutexInv, MutualExclusion, InCritical, Thread, Producer, Step, Goto, Moves, SemStep, sems
  <1>1. CASE CreatePrinter
    BY <1>1 DEF CreatePrinter
  <1>2. CASE OpenDir
    BY <1>2 DEF OpenDir
  <1>3. CASE OpenDirFails
    BY <1>3 DEF OpenDirFails, ExitProcess
  <1>4. CASE CloseDir
    BY <1>4 DEF CloseDir
  <1>5. CASE JoinWorker
    BY <1>5 DEF JoinWorker
  <1>6. CASE AllJoined
    BY <1>6 DEF AllJoined, AllJoinedBut
  <1>7. CASE JoinPrinter
    BY <1>7 DEF JoinPrinter
  <1>8. CASE DestroyBuffer
    BY <1>8 DEF DestroyBuffer
  <1>9. CASE Exit
    BY <1>9 DEF Exit, ExitProcess
  <1>30. CASE WriteFaults
    BY <1>30 DEF WriteFaults, ExitProcess
  <1>31. CASE CreatePrinterFails
    BY <1>31 DEF CreatePrinterFails
  <1>32. CASE JoinFaults \/ JoinPrinterFaults
    BY <1>32 DEF JoinFaults, JoinPrinterFaults, ExitProcess
  <1>33. ASSUME NEW e \in Entry, CreateWorkerFails(e) PROVE MutexInv'
    BY <1>33 DEF CreateWorkerFails
  <1>10. ASSUME NEW e \in Entry, SkipEntry(e) PROVE MutexInv'
    BY <1>10 DEF SkipEntry
  <1>11. ASSUME NEW e \in Entry, CreateWorker(e) PROVE MutexInv'
    BY <1>11 DEF CreateWorker
  <1>12. ASSUME NEW e \in Entry, OpenFile(e) PROVE MutexInv'
    BY <1>12 DEF OpenFile
  <1>13. ASSUME NEW e \in Entry, ReadLine(e) PROVE MutexInv'
    BY <1>13 DEF ReadLine
  <1>14. ASSUME NEW e \in Entry, EndOfFile(e) PROVE MutexInv'
    BY <1>14 DEF EndOfFile
  <1>15. ASSUME NEW t \in Producer, WaitEmpty(t) PROVE MutexInv'
    BY <1>15 DEF WaitEmpty
  <1>16. ASSUME NEW t \in Producer, WaitMutex(t) PROVE MutexInv'
    BY <1>16 DEF WaitMutex
  <1>17. ASSUME NEW t \in Producer, Put(t) PROVE MutexInv'
    BY <1>17 DEF Put
  <1>18. ASSUME NEW t \in Producer, PostMutex(t) PROVE MutexInv'
    BY <1>18 DEF PostMutex
  <1>19. ASSUME NEW t \in Producer, PostFull(t) PROVE MutexInv'
    BY <1>19 DEF PostFull, PostFullBy
  <1>20. CASE PrinterWaitFull
    BY <1>20 DEF PrinterWaitFull
  <1>21. CASE PrinterWaitMutex
    BY <1>21 DEF PrinterWaitMutex
  <1>22. CASE GetItem
    BY <1>22 DEF GetItem, GetFrom
  <1>23. CASE WaitBuf
    BY <1>23 DEF WaitBuf
  <1>24. CASE Write
    BY <1>24 DEF Write
  <1>25. CASE SignalBuf
    BY <1>25 DEF SignalBuf
  <1>26. CASE PrinterPostMutex
    BY <1>26 DEF PrinterPostMutex
  <1>27. CASE PrinterPostEmpty
    BY <1>27 DEF PrinterPostEmpty, PrinterPostEmptyBy
  <1>28. CASE OtherWaitBuf \/ OtherSignalBuf
    BY <1>28 DEF OtherWaitBuf, OtherSignalBuf
  <1>29. CASE UNCHANGED vars
    BY <1>29 DEF vars
  <1> HIDE DEF MutexInv, Thread, Producer, Step, Goto, Moves, SemStep
  <1> QED
    BY <1>1, <1>2, <1>3, <1>4, <1>5, <1>6, <1>7, <1>8, <1>9, <1>10, <1>11,
       <1>12, <1>13, <1>14, <1>15, <1>16, <1>17, <1>18, <1>19, <1>20, <1>21,
       <1>22, <1>23, <1>24, <1>25, <1>26, <1>27, <1>28, <1>29, <1>30,
       <1>31, <1>32, <1>33,
       NextCases, Zenon

(* sem_wait(&mutex) ... sem_post(&mutex) keeps the ring to one thread, for  *)
(* any number of workers.                                                   *)
THEOREM MutexCorrect == Spec => []MutualExclusion
  <1>1. Spec => [](TypeInv /\ MutexInv)
    BY TypeInvInit, TypeInvNext, MutexInvInit, MutexInvNext, PTL DEF Spec
  <1>2. MutexInv => MutualExclusion
    BY DEF MutexInv
  <1> QED
    BY <1>1, <1>2, PTL
-----------------------------------------------------------------------------
(* Structure of a run: all threads end together, a worker does not run      *)
(* before readdir returns its entry, the printer lives from its creation    *)
(* until before destroyBuffer.                                              *)
StructInv ==
  /\ ~Alive => \A t \in Thread : pc[t] \in {"dead", "overrun"}
  /\ Alive => \A e \in unread : pc[e] = "none"
  /\ pc[Main] = "create" => pc[Printer] = "none" /\ Printer \notin failed
  /\ pc[Main] \in {"destroy", "exit"} => pc[Printer] \in {"none", "done"}
  /\ Alive /\ Printer \in failed => pc[Printer] = "none"

LEMMA StructInvInit == Init => StructInv
  BY ThreadAssumption DEF Init, StructInv, Alive, Thread, Producer

LEMMA StructInvNext == TypeInv /\ StructInv /\ [Next]_vars => StructInv'
  <1> SUFFICES ASSUME TypeInv, StructInv, [Next]_vars PROVE StructInv'
    OBVIOUS
  <1>0. pc \in [Thread -> ProducerPc \cup PrinterPc] /\ unread \subseteq Entry
    BY DEF TypeInv, TypeOK
  <1> USE <1>0, ThreadAssumption
      DEF StructInv, Alive, Thread, Producer, Step, Goto, Moves, SemStep, dirv
  <1>1. CASE CreatePrinter
    BY <1>1 DEF CreatePrinter
  <1>2. CASE OpenDir
    BY <1>2 DEF OpenDir
  <1>3. CASE OpenDirFails
    BY <1>3 DEF OpenDirFails, ExitProcess
  <1>4. CASE CloseDir
    BY <1>4 DEF CloseDir
  <1>5. CASE JoinWorker
    BY <1>5 DEF JoinWorker
  <1>6. CASE AllJoined
    BY <1>6 DEF AllJoined, AllJoinedBut
  <1>7. CASE JoinPrinter
    BY <1>7 DEF JoinPrinter
  <1>8. CASE DestroyBuffer
    BY <1>8 DEF DestroyBuffer
  <1>9. CASE Exit
    BY <1>9 DEF Exit, ExitProcess
  <1>30. CASE WriteFaults
    BY <1>30 DEF WriteFaults, ExitProcess
  <1>31. CASE CreatePrinterFails
    BY <1>31 DEF CreatePrinterFails
  <1>32. CASE JoinFaults \/ JoinPrinterFaults
    BY <1>32 DEF JoinFaults, JoinPrinterFaults, ExitProcess
  <1>33. ASSUME NEW e \in Entry, CreateWorkerFails(e) PROVE StructInv'
    BY <1>33 DEF CreateWorkerFails
  <1>10. ASSUME NEW e \in Entry, SkipEntry(e) PROVE StructInv'
    BY <1>10 DEF SkipEntry
  <1>11. ASSUME NEW e \in Entry, CreateWorker(e) PROVE StructInv'
    BY <1>11 DEF CreateWorker
  <1>12. ASSUME NEW e \in Entry, OpenFile(e) PROVE StructInv'
    BY <1>12 DEF OpenFile
  <1>13. ASSUME NEW e \in Entry, ReadLine(e) PROVE StructInv'
    BY <1>13 DEF ReadLine
  <1>14. ASSUME NEW e \in Entry, EndOfFile(e) PROVE StructInv'
    BY <1>14 DEF EndOfFile
  <1>15. ASSUME NEW t \in Producer, WaitEmpty(t) PROVE StructInv'
    BY <1>15 DEF WaitEmpty
  <1>16. ASSUME NEW t \in Producer, WaitMutex(t) PROVE StructInv'
    BY <1>16 DEF WaitMutex
  <1>17. ASSUME NEW t \in Producer, Put(t) PROVE StructInv'
    BY <1>17 DEF Put
  <1>18. ASSUME NEW t \in Producer, PostMutex(t) PROVE StructInv'
    BY <1>18 DEF PostMutex
  <1>19. ASSUME NEW t \in Producer, PostFull(t) PROVE StructInv'
    BY <1>19 DEF PostFull, PostFullBy
  <1>20. CASE PrinterWaitFull
    BY <1>20 DEF PrinterWaitFull
  <1>21. CASE PrinterWaitMutex
    BY <1>21 DEF PrinterWaitMutex
  <1>22. CASE GetItem
    BY <1>22 DEF GetItem, GetFrom
  <1>23. CASE WaitBuf
    BY <1>23 DEF WaitBuf
  <1>24. CASE Write
    BY <1>24 DEF Write
  <1>25. CASE SignalBuf
    BY <1>25 DEF SignalBuf
  <1>26. CASE PrinterPostMutex
    BY <1>26 DEF PrinterPostMutex
  <1>27. CASE PrinterPostEmpty
    BY <1>27 DEF PrinterPostEmpty, PrinterPostEmptyBy
  <1>28. CASE OtherWaitBuf \/ OtherSignalBuf
    BY <1>28 DEF OtherWaitBuf, OtherSignalBuf
  <1>29. CASE UNCHANGED vars
    BY <1>29 DEF vars
  <1> HIDE DEF StructInv, Alive, Thread, Producer, Step, Goto, Moves, SemStep
  <1> QED
    BY <1>1, <1>2, <1>3, <1>4, <1>5, <1>6, <1>7, <1>8, <1>9, <1>10, <1>11,
       <1>12, <1>13, <1>14, <1>15, <1>16, <1>17, <1>18, <1>19, <1>20, <1>21,
       <1>22, <1>23, <1>24, <1>25, <1>26, <1>27, <1>28, <1>29, <1>30,
       <1>31, <1>32, <1>33,
       NextCases, Zenon

-----------------------------------------------------------------------------
(* Semaphore accounting.                                                    *)
LEMMA ReservedStoredFinite == IsFiniteSet(Reserved) /\ IsFiniteSet(Stored)
  <1>1. IsFiniteSet(Producer)
    BY EntryAssumption, FS_AddElement DEF Producer
  <1> QED
    BY <1>1, FS_Subset DEF Reserved, Stored

(* A step of a thread that neither enters nor leaves the two sets.          *)
LEMMA SetsUnchanged ==
  ASSUME pc \in [Thread -> ProducerPc \cup PrinterPc], NEW t \in Thread, NEW l,
         pc' = [pc EXCEPT ![t] = l],
         pc[t] \in {"wait_mutex", "put"} <=> l \in {"wait_mutex", "put"},
         pc[t] \in {"post_mutex", "post_full"} <=> l \in {"post_mutex", "post_full"}
  PROVE  Reserved' = Reserved /\ Stored' = Stored
  BY DEF Reserved, Stored, Thread

(* Moving a token between the terms of the two sums.                        *)
LEMMA EmptySum ==
  ASSUME empty \in Nat, Cardinality(Reserved) \in Nat, Len(sent) \in Nat,
         Len(rcvd) \in Nat, EmptyInit \in Nat, Returning \in Nat,
         empty + Cardinality(Reserved) + Len(sent) + Returning = EmptyInit + Len(rcvd)
  PROVE  /\ (empty - 1) + (Cardinality(Reserved) + 1) + Len(sent) + Returning
               = EmptyInit + Len(rcvd)
         /\ empty + (Cardinality(Reserved) - 1) + (Len(sent) + 1) + Returning
               = EmptyInit + Len(rcvd)
  OBVIOUS

LEMMA FullSum ==
  ASSUME full \in Nat, Cardinality(Stored) \in Nat, Len(sent) \in Nat,
         Len(rcvd) \in Nat, Taking \in Nat,
         full + Cardinality(Stored) + Taking + Len(rcvd) = Len(sent)
  PROVE  /\ full + (Cardinality(Stored) + 1) + Taking + Len(rcvd) = Len(sent) + 1
         /\ (full + 1) + (Cardinality(Stored) - 1) + Taking + Len(rcvd) = Len(sent)
  OBVIOUS

LEMMA AccountingInit == Init => Accounting
  <1> SUFFICES ASSUME Init PROVE Accounting
    OBVIOUS
  <1>1. Reserved = {} /\ Stored = {}
    BY ThreadAssumption DEF Init, Reserved, Stored, Thread, Producer
  <1>2. Cardinality(Reserved) = 0 /\ Cardinality(Stored) = 0
    BY <1>1, FS_EmptySet
  <1>3. Taking = 0 /\ Returning = 0
    BY ThreadAssumption DEF Init, Taking, Returning, Thread, Producer
  <1> QED
    BY <1>2, <1>3, SizeAssumption DEF Init, Accounting

LEMMA AccountingNext ==
  TypeInv /\ StructInv /\ Accounting /\ [Next]_vars => Accounting'
  <1> SUFFICES ASSUME TypeInv, StructInv, Accounting, [Next]_vars PROVE Accounting'
    OBVIOUS
  <1>0. /\ pc \in [Thread -> ProducerPc \cup PrinterPc] /\ unread \subseteq Entry
        /\ empty \in Nat /\ full \in Nat /\ Len(sent) \in Nat /\ Len(rcvd) \in Nat
        /\ sent \in Seq(Item) /\ rcvd \in Seq(Item \cup {NoStr})
    BY DEF TypeInv, TypeOK
  <1>a. Cardinality(Reserved) \in Nat /\ Cardinality(Stored) \in Nat
    BY ReservedStoredFinite, FS_CardinalityType
  <1>b. ASSUME Reserved' = Reserved, Stored' = Stored
        PROVE  /\ Cardinality(Reserved)' = Cardinality(Reserved)
               /\ Cardinality(Stored)' = Cardinality(Stored)
    BY <1>b
  <1>c. Main \in Thread /\ Printer \in Thread /\ Entry \subseteq Thread /\ Producer \subseteq Thread
    BY DEF Thread, Producer
  <1>d. /\ empty \in Nat /\ full \in Nat /\ EmptyInit \in Nat
        /\ Len(sent) \in Nat /\ Len(rcvd) \in Nat
        /\ Cardinality(Reserved) \in Nat /\ Cardinality(Stored) \in Nat
    BY <1>0, <1>a, SizeAssumption
  <1> USE <1>0, <1>a, <1>c, ThreadAssumption, SizeAssumption
      DEF Accounting, Taking, Returning, Step, Goto, Moves, SemStep, sems, logs
  <1>1. CASE CreatePrinter
    <2>1. Reserved' = Reserved /\ Stored' = Stored
      BY <1>1 DEF CreatePrinter, Reserved, Stored, Thread, Producer
    <2> QED
      BY <1>1, <2>1, <1>b DEF CreatePrinter, Alive, StructInv
  <1>2. CASE OpenDir
    <2>1. Reserved' = Reserved /\ Stored' = Stored
      BY <1>2, SetsUnchanged DEF OpenDir
    <2> QED
      BY <1>2, <2>1, <1>b DEF OpenDir, Alive
  <1>3. CASE OpenDirFails
    BY <1>3 DEF OpenDirFails, ExitProcess, Alive
  <1>4. CASE CloseDir
    <2>1. Reserved' = Reserved /\ Stored' = Stored
      BY <1>4, SetsUnchanged DEF CloseDir
    <2> QED
      BY <1>4, <2>1, <1>b DEF CloseDir, Alive
  <1>5. CASE JoinWorker
    <2>1. Reserved' = Reserved /\ Stored' = Stored
      BY <1>5 DEF JoinWorker, Reserved, Stored
    <2> QED
      BY <1>5, <2>1, <1>b DEF JoinWorker, Alive
  <1>6. CASE AllJoined
    <2>1. Reserved' = Reserved /\ Stored' = Stored
      BY <1>6, SetsUnchanged DEF AllJoined, AllJoinedBut
    <2> QED
      BY <1>6, <2>1, <1>b DEF AllJoined, AllJoinedBut, Alive
  <1>7. CASE JoinPrinter
    <2>1. Reserved' = Reserved /\ Stored' = Stored
      BY <1>7, SetsUnchanged DEF JoinPrinter
    <2> QED
      BY <1>7, <2>1, <1>b DEF JoinPrinter, Alive
  <1>8. CASE DestroyBuffer
    <2>1. Reserved' = Reserved /\ Stored' = Stored
      BY <1>8, SetsUnchanged DEF DestroyBuffer
    <2> QED
      BY <1>8, <2>1, <1>b DEF DestroyBuffer, Alive
  <1>9. CASE Exit
    BY <1>9 DEF Exit, ExitProcess, Alive
  <1>30. CASE WriteFaults
    BY <1>30 DEF WriteFaults, ExitProcess, Alive
  <1>31. CASE CreatePrinterFails
    <2>1. Reserved' = Reserved /\ Stored' = Stored
      BY <1>31, SetsUnchanged DEF CreatePrinterFails
    <2> QED
      BY <1>31, <2>1, <1>b DEF CreatePrinterFails, Alive
  <1>32. CASE JoinFaults \/ JoinPrinterFaults
    BY <1>32 DEF JoinFaults, JoinPrinterFaults, ExitProcess, Alive
  <1>33. ASSUME NEW e \in Entry, CreateWorkerFails(e) PROVE Accounting'
    <2>1. Reserved' = Reserved /\ Stored' = Stored
      BY <1>33 DEF CreateWorkerFails, Reserved, Stored
    <2> QED
      BY <1>33, <2>1, <1>b DEF CreateWorkerFails, Alive
  <1>10. ASSUME NEW e \in Entry, SkipEntry(e) PROVE Accounting'
    <2>1. Reserved' = Reserved /\ Stored' = Stored
      BY <1>10 DEF SkipEntry, Reserved, Stored
    <2> QED
      BY <1>10, <2>1, <1>b DEF SkipEntry, Alive
  <1>11. ASSUME NEW e \in Entry, CreateWorker(e) PROVE Accounting'
    <2>1. CASE Len(tids) < MaxTids
      <3>1. pc' = [pc EXCEPT ![e] = "open"] /\ UNCHANGED <<sems, logs>>
        BY <1>11, <2>1 DEF CreateWorker
      <3>2. pc[e] = "none"
        BY <1>11 DEF CreateWorker, StructInv, Alive
      <3>3. Reserved' = Reserved /\ Stored' = Stored
        BY <3>1, <3>2, SetsUnchanged
      <3> QED
        BY <3>1, <3>3, <1>b DEF Alive
    <2>2. CASE ~(Len(tids) < MaxTids)
      BY <1>11, <2>2 DEF CreateWorker, Alive
    <2> QED
      BY <2>1, <2>2
  <1>12. ASSUME NEW e \in Entry, OpenFile(e) PROVE Accounting'
    <2>1. Reserved' = Reserved /\ Stored' = Stored
      BY <1>12, SetsUnchanged DEF OpenFile
    <2> QED
      BY <1>12, <2>1, <1>b DEF OpenFile, Alive
  <1>13. ASSUME NEW e \in Entry, ReadLine(e) PROVE Accounting'
    <2>1. Reserved' = Reserved /\ Stored' = Stored
      BY <1>13, SetsUnchanged DEF ReadLine
    <2> QED
      BY <1>13, <2>1, <1>b DEF ReadLine, Alive
  <1>14. ASSUME NEW e \in Entry, EndOfFile(e) PROVE Accounting'
    <2>1. Reserved' = Reserved /\ Stored' = Stored
      BY <1>14, SetsUnchanged DEF EndOfFile
    <2> QED
      BY <1>14, <2>1, <1>b DEF EndOfFile, Alive
  <1>15. ASSUME NEW t \in Producer, WaitEmpty(t) PROVE Accounting'
    <2>1. Reserved' = Reserved \cup {t} /\ t \notin Reserved /\ Stored' = Stored
      BY <1>15 DEF WaitEmpty, Reserved, Stored, Thread
    <2>2. Cardinality(Reserved)' = Cardinality(Reserved) + 1
      BY <2>1, ReservedStoredFinite, FS_AddElement
    <2>3. Cardinality(Stored)' = Cardinality(Stored)
      BY <2>1
    <2>4. pc'[Printer] = pc[Printer] /\ Alive
      BY <1>15 DEF WaitEmpty, Producer, StructInv
    <2>5. Taking' = Taking /\ Returning' = Returning /\ Taking \in Nat /\ Returning \in Nat
      BY <2>4
    <2>6. /\ empty + Cardinality(Reserved) + Len(sent) + Returning = EmptyInit + Len(rcvd)
          /\ full + Cardinality(Stored) + Taking + Len(rcvd) = Len(sent)
      BY <2>4
    <2>7. empty' = empty - 1 /\ full' = full /\ Len(sent)' = Len(sent) /\ Len(rcvd)' = Len(rcvd)
      BY <1>15 DEF WaitEmpty
    <2> HIDE <1>0, <1>a, <1>c, ThreadAssumption, SizeAssumption
        DEF Accounting, Taking, Returning
    <2>8. (empty - 1) + (Cardinality(Reserved) + 1) + Len(sent) + Returning = EmptyInit + Len(rcvd)
      BY <1>d, <2>5, <2>6, EmptySum, Zenon
    <2>9. full + Cardinality(Stored) + Taking + Len(rcvd) = Len(sent)
      BY <1>d, <2>5, <2>6, FullSum, Zenon
    <2>10. empty' + Cardinality(Reserved)' + Len(sent)' + Returning' = EmptyInit + Len(rcvd)'
      BY <2>2, <2>3, <2>5, <2>7, <2>8, Zenon
    <2>11. full' + Cardinality(Stored)' + Taking' + Len(rcvd)' = Len(sent)'
      BY <2>2, <2>3, <2>5, <2>7, <2>9, Zenon
    <2> QED
      BY <2>10, <2>11 DEF Accounting
  <1>16. ASSUME NEW t \in Producer, WaitMutex(t) PROVE Accounting'
    <2>1. Reserved' = Reserved /\ Stored' = Stored
      BY <1>16, SetsUnchanged DEF WaitMutex
    <2>2. pc'[Printer] = pc[Printer]
      BY <1>16 DEF WaitMutex, Producer
    <2>3. Alive' => Alive
      BY <1>16 DEF WaitMutex, Alive, Producer
    <2>4. Taking' = Taking /\ Returning' = Returning
      BY <2>2
    <2>5. empty' = empty /\ full' = full /\ sent' = sent /\ rcvd' = rcvd
      BY <1>16 DEF WaitMutex
    <2> HIDE <1>0, <1>a, <1>c, ThreadAssumption, SizeAssumption DEF Taking, Returning
    <2> QED
      BY <2>1, <2>3, <2>4, <2>5 DEF Accounting
  <1>17. ASSUME NEW t \in Producer, Put(t) PROVE Accounting'
    <2>1. /\ Reserved' = Reserved \ {t} /\ t \in Reserved
          /\ Stored' = Stored \cup {t} /\ t \notin Stored
      BY <1>17 DEF Put, Reserved, Stored, Thread
    <2>2. Cardinality(Reserved)' = Cardinality(Reserved) - 1
      BY <2>1, ReservedStoredFinite, FS_RemoveElement
    <2>3. Cardinality(Stored)' = Cardinality(Stored) + 1
      BY <2>1, ReservedStoredFinite, FS_AddElement
    <2>4. pc'[Printer] = pc[Printer] /\ Alive
      BY <1>17 DEF Put, Producer, StructInv
    <2>5. Taking' = Taking /\ Returning' = Returning /\ Taking \in Nat /\ Returning \in Nat
      BY <2>4
    <2>6. /\ empty + Cardinality(Reserved) + Len(sent) + Returning = EmptyInit + Len(rcvd)
          /\ full + Cardinality(Stored) + Taking + Len(rcvd) = Len(sent)
      BY <2>4
    <2>7. empty' = empty /\ full' = full /\ Len(sent)' = Len(sent) + 1 /\ Len(rcvd)' = Len(rcvd)
      BY <1>17 DEF Put
    <2> HIDE <1>0, <1>a, <1>c, ThreadAssumption, SizeAssumption
        DEF Accounting, Taking, Returning
    <2>8. empty + (Cardinality(Reserved) - 1) + (Len(sent) + 1) + Returning = EmptyInit + Len(rcvd)
      BY <1>d, <2>5, <2>6, EmptySum, Zenon
    <2>9. full + (Cardinality(Stored) + 1) + Taking + Len(rcvd) = Len(sent) + 1
      BY <1>d, <2>5, <2>6, FullSum, Zenon
    <2>10. empty' + Cardinality(Reserved)' + Len(sent)' + Returning' = EmptyInit + Len(rcvd)'
      BY <2>2, <2>3, <2>5, <2>7, <2>8, Zenon
    <2>11. full' + Cardinality(Stored)' + Taking' + Len(rcvd)' = Len(sent)'
      BY <2>2, <2>3, <2>5, <2>7, <2>9, Zenon
    <2> QED
      BY <2>10, <2>11 DEF Accounting
  <1>18. ASSUME NEW t \in Producer, PostMutex(t) PROVE Accounting'
    <2>1. Reserved' = Reserved /\ Stored' = Stored
      BY <1>18, SetsUnchanged DEF PostMutex
    <2>2. pc'[Printer] = pc[Printer]
      BY <1>18 DEF PostMutex, Producer
    <2>3. Alive' => Alive
      BY <1>18 DEF PostMutex, Alive, Producer
    <2>4. Taking' = Taking /\ Returning' = Returning
      BY <2>2
    <2>5. empty' = empty /\ full' = full /\ sent' = sent /\ rcvd' = rcvd
      BY <1>18 DEF PostMutex
    <2> HIDE <1>0, <1>a, <1>c, ThreadAssumption, SizeAssumption DEF Taking, Returning
    <2> QED
      BY <2>1, <2>3, <2>4, <2>5 DEF Accounting
  <1>19. ASSUME NEW t \in Producer, PostFull(t) PROVE Accounting'
    <2>1. Stored' = Stored \ {t} /\ t \in Stored /\ Reserved' = Reserved
      BY <1>19 DEF PostFull, PostFullBy, Reserved, Stored, Thread
    <2>2. Cardinality(Stored)' = Cardinality(Stored) - 1
      BY <2>1, ReservedStoredFinite, FS_RemoveElement
    <2>3. Cardinality(Reserved)' = Cardinality(Reserved)
      BY <2>1
    <2>4. pc'[Printer] = pc[Printer] /\ Alive
      BY <1>19 DEF PostFull, PostFullBy, Producer, StructInv
    <2>5. Taking' = Taking /\ Returning' = Returning /\ Taking \in Nat /\ Returning \in Nat
      BY <2>4
    <2>6. /\ empty + Cardinality(Reserved) + Len(sent) + Returning = EmptyInit + Len(rcvd)
          /\ full + Cardinality(Stored) + Taking + Len(rcvd) = Len(sent)
      BY <2>4
    <2>7. empty' = empty /\ full' = full + 1 /\ Len(sent)' = Len(sent) /\ Len(rcvd)' = Len(rcvd)
      BY <1>19 DEF PostFull, PostFullBy
    <2> HIDE <1>0, <1>a, <1>c, ThreadAssumption, SizeAssumption
        DEF Accounting, Taking, Returning
    <2>8. empty + Cardinality(Reserved) + Len(sent) + Returning = EmptyInit + Len(rcvd)
      BY <1>d, <2>5, <2>6, EmptySum, Zenon
    <2>9. (full + 1) + (Cardinality(Stored) - 1) + Taking + Len(rcvd) = Len(sent)
      BY <1>d, <2>5, <2>6, FullSum, Zenon
    <2>10. empty' + Cardinality(Reserved)' + Len(sent)' + Returning' = EmptyInit + Len(rcvd)'
      BY <2>2, <2>3, <2>5, <2>7, <2>8, Zenon
    <2>11. full' + Cardinality(Stored)' + Taking' + Len(rcvd)' = Len(sent)'
      BY <2>2, <2>3, <2>5, <2>7, <2>9, Zenon
    <2> QED
      BY <2>10, <2>11 DEF Accounting
  <1>20. CASE PrinterWaitFull
    <2>1. Reserved' = Reserved /\ Stored' = Stored
      BY <1>20 DEF PrinterWaitFull, Reserved, Stored, Producer, Thread
    <2> QED
      BY <1>20, <2>1, <1>b DEF PrinterWaitFull, Alive
  <1>21. CASE PrinterWaitMutex
    <2>1. Reserved' = Reserved /\ Stored' = Stored
      BY <1>21 DEF PrinterWaitMutex, Reserved, Stored, Producer, Thread
    <2> QED
      BY <1>21, <2>1, <1>b DEF PrinterWaitMutex, Alive
  <1>22. CASE GetItem
    <2>1. Reserved' = Reserved /\ Stored' = Stored
      BY <1>22 DEF GetItem, GetFrom, Reserved, Stored, Producer, Thread
    <2> QED
      BY <1>22, <2>1, <1>b DEF GetItem, GetFrom, Alive
  <1>23. CASE WaitBuf
    <2>1. Reserved' = Reserved /\ Stored' = Stored
      BY <1>23 DEF WaitBuf, Reserved, Stored, Producer, Thread
    <2> QED
      BY <1>23, <2>1, <1>b DEF WaitBuf, Alive
  <1>24. CASE Write
    <2>1. Reserved' = Reserved /\ Stored' = Stored
      BY <1>24 DEF Write, Reserved, Stored, Producer, Thread
    <2> QED
      BY <1>24, <2>1, <1>b DEF Write, Alive
  <1>25. CASE SignalBuf
    <2>1. Reserved' = Reserved /\ Stored' = Stored
      BY <1>25 DEF SignalBuf, Reserved, Stored, Producer, Thread
    <2> QED
      BY <1>25, <2>1, <1>b DEF SignalBuf, Alive
  <1>26. CASE PrinterPostMutex
    <2>1. Reserved' = Reserved /\ Stored' = Stored
      BY <1>26 DEF PrinterPostMutex, Reserved, Stored, Producer, Thread
    <2> QED
      BY <1>26, <2>1, <1>b DEF PrinterPostMutex, Alive
  <1>27. CASE PrinterPostEmpty
    <2>1. Reserved' = Reserved /\ Stored' = Stored
      BY <1>27 DEF PrinterPostEmpty, PrinterPostEmptyBy, Reserved, Stored, Producer, Thread
    <2> QED
      BY <1>27, <2>1, <1>b DEF PrinterPostEmpty, PrinterPostEmptyBy, Alive
  <1>28. CASE OtherWaitBuf \/ OtherSignalBuf
    <2>1. Reserved' = Reserved /\ Stored' = Stored
      BY <1>28 DEF OtherWaitBuf, OtherSignalBuf, Reserved, Stored
    <2> QED
      BY <1>28, <2>1, <1>b DEF OtherWaitBuf, OtherSignalBuf, Alive
  <1>29. CASE UNCHANGED vars
    <2>1. Reserved' = Reserved /\ Stored' = Stored
      BY <1>29 DEF vars, Reserved, Stored
    <2> QED
      BY <1>29, <2>1, <1>b DEF vars, Alive
  <1> HIDE DEF Accounting, Step, Goto, Moves, SemStep
  <1> QED
    BY <1>1, <1>2, <1>3, <1>4, <1>5, <1>6, <1>7, <1>8, <1>9, <1>10, <1>11,
       <1>12, <1>13, <1>14, <1>15, <1>16, <1>17, <1>18, <1>19, <1>20, <1>21,
       <1>22, <1>23, <1>24, <1>25, <1>26, <1>27, <1>28, <1>29, <1>30,
       <1>31, <1>32, <1>33,
       NextCases, Zenon

-----------------------------------------------------------------------------
(* The ring.  When the tokens of empty fit into the ring, what the          *)
(* semaphores count is what the ring can hold.                              *)
FifoInv == Fifo /\ RingContents

(* Slots behind slot g, for one turn of the ring.                           *)
LEMMA SlotNext ==
  ASSUME NEW g \in 0 .. BufferSize - 1, NEW k \in 0 .. BufferSize - 1
  PROVE  /\ Slot(g, k) \in 0 .. BufferSize - 1
         /\ Advance(Slot(g, k)) = Slot(g, k + 1)
         /\ \A j \in 0 .. k - 1 :
              Slot(g, j) # Slot(g, k) /\ Slot(g, j) \in 0 .. BufferSize - 1
  BY SizeAssumption DEF Slot, Advance

LEMMA SlotShift ==
  ASSUME NEW g \in 0 .. BufferSize - 1
  PROVE  \A k \in 0 .. BufferSize - 1 : Slot(Advance(g), k) = Slot(g, k + 1)
  BY SizeAssumption DEF Slot, Advance

(* A producer about to put holds a token of empty, so the ring has a slot.  *)
LEMMA PutHasRoom ==
  ASSUME EmptyInit <= BufferSize, TypeInv, StructInv, Accounting,
         NEW t \in Producer, pc[t] = "put"
  PROVE  Len(sent) - Len(rcvd) + 1 <= BufferSize
  <1>1. t \in Reserved /\ Alive
    BY DEF Reserved, StructInv, Thread
  <1>2. Cardinality(Reserved) \in Nat /\ Cardinality(Reserved) # 0
    BY <1>1, ReservedStoredFinite, FS_CardinalityType, FS_EmptySet
  <1>3. /\ empty \in Nat /\ Len(sent) \in Nat /\ Len(rcvd) \in Nat
        /\ EmptyInit \in Nat /\ BufferSize \in Nat
    BY SizeAssumption DEF TypeInv, TypeOK
  <1>4. Returning \in {0, 1}
    BY DEF Returning
  <1>5. empty + Cardinality(Reserved) + Len(sent) + Returning = EmptyInit + Len(rcvd)
    BY <1>1 DEF Accounting
  <1> QED
    BY <1>2, <1>3, <1>4, <1>5

(* The printer about to take holds a token of full, so something was put.   *)
LEMMA GetHasItem ==
  ASSUME TypeInv, StructInv, Accounting, pc[Printer] = "get"
  PROVE  Len(rcvd) + 1 <= Len(sent)
  <1>1. Alive
    BY DEF StructInv, Thread
  <1>2. Cardinality(Stored) \in Nat
    BY ReservedStoredFinite, FS_CardinalityType
  <1>3. full \in Nat /\ Len(sent) \in Nat /\ Len(rcvd) \in Nat
    BY DEF TypeInv, TypeOK
  <1>4. full + Cardinality(Stored) + 1 + Len(rcvd) = Len(sent)
    BY <1>1 DEF Accounting, Taking
  <1> QED
    BY <1>2, <1>3, <1>4

LEMMA FifoInvInit == Init => FifoInv
  BY SizeAssumption DEF Init, FifoInv, Fifo, RingContents, Slot

LEMMA FifoInvNext ==
  EmptyInit <= BufferSize /\ TypeInv /\ StructInv /\ Accounting /\ FifoInv /\ [Next]_vars
    => FifoInv'
  <1> SUFFICES ASSUME EmptyInit <= BufferSize, TypeInv, StructInv, Accounting, FifoInv,
                      [Next]_vars
               PROVE  FifoInv'
    OBVIOUS
  <1>a. /\ pc \in [Thread -> ProducerPc \cup PrinterPc]
        /\ sent \in Seq(Item) /\ rcvd \in Seq(Item \cup {NoStr})
        /\ Len(sent) \in Nat /\ Len(rcvd) \in Nat
        /\ buffer \in [0 .. BufferSize - 1 -> Item \cup {NoStr}]
        /\ cur_get \in 0 .. BufferSize - 1 /\ cur_put \in 0 .. BufferSize - 1
    BY DEF TypeInv, TypeOK
  <1>b. Fifo /\ RingContents
    BY DEF FifoInv
  <1> USE <1>a, <1>b, ThreadAssumption, SizeAssumption
  <1>1. CASE CreatePrinter
    BY <1>1 DEF CreatePrinter, FifoInv, Fifo, RingContents, Slot, ring, logs, Step, Goto, Moves, SemStep, Thread, Producer
  <1>2. CASE OpenDir
    BY <1>2 DEF OpenDir, FifoInv, Fifo, RingContents, Slot, ring, logs, Step, Goto, Moves, SemStep, Thread, Producer
  <1>3. CASE OpenDirFails
    BY <1>3 DEF OpenDirFails, ExitProcess, FifoInv, Fifo, RingContents, Slot, ring, logs, Thread, Producer
  <1>4. CASE CloseDir
    BY <1>4 DEF CloseDir, FifoInv, Fifo, RingContents, Slot, ring, logs, Step, Goto, Moves, SemStep, Thread, Producer
  <1>5. CASE JoinWorker
    BY <1>5 DEF JoinWorker, FifoInv, Fifo, RingContents, Slot, ring, logs, Step, Goto, Moves, SemStep, Thread, Producer
  <1>6. CASE AllJoined
    BY <1>6 DEF AllJoined, AllJoinedBut, FifoInv, Fifo, RingContents, Slot, ring, logs, Step, Goto, Moves, SemStep, Thread, Producer
  <1>7. CASE JoinPrinter
    BY <1>7 DEF JoinPrinter, FifoInv, Fifo, RingContents, Slot, ring, logs, Step, Goto, Moves, SemStep, Thread, Producer
  <1>8. CASE DestroyBuffer
    BY <1>8 DEF DestroyBuffer, FifoInv, Fifo, RingContents, Slot, ring, logs, Step, Goto, Moves, SemStep, Thread, Producer
  <1>9. CASE Exit
    BY <1>9 DEF Exit, ExitProcess, FifoInv, Fifo, RingContents, Slot, ring, logs, Thread, Producer
  <1>30. CASE WriteFaults
    BY <1>30 DEF WriteFaults, ExitProcess, FifoInv, Fifo, RingContents, Slot, ring, logs, Thread, Producer
  <1>31. CASE CreatePrinterFails
    BY <1>31 DEF CreatePrinterFails, FifoInv, Fifo, RingContents, Slot, ring, logs, Step, Goto, Thread, Producer
  <1>32. CASE JoinFaults \/ JoinPrinterFaults
    BY <1>32 DEF JoinFaults, JoinPrinterFaults, ExitProcess, FifoInv, Fifo, RingContents, Slot, ring, logs, Thread, Producer
  <1>33. ASSUME NEW e \in Entry, CreateWorkerFails(e) PROVE FifoInv'
    BY <1>33 DEF CreateWorkerFails, FifoInv, Fifo, RingContents, Slot, ring, logs
  <1>10. ASSUME NEW e \in Entry, SkipEntry(e) PROVE FifoInv'
    BY <1>10 DEF SkipEntry, FifoInv, Fifo, RingContents, Slot, ring, logs, Step, Goto, Moves, SemStep, Thread, Producer
  <1>11. ASSUME NEW e \in Entry, CreateWorker(e) PROVE FifoInv'
    <2>1. UNCHANGED <<ring, logs>> /\ pc'[Main] \in {pc[Main], "overrun"}
      <3>1. CASE Len(tids) < MaxTids
        <4>1. pc' = [pc EXCEPT ![e] = "open"] /\ UNCHANGED <<ring, logs>>
          BY <1>11, <3>1 DEF CreateWorker
        <4> QED
          BY <4>1
      <3>2. CASE ~(Len(tids) < MaxTids)
        BY <1>11, <3>2 DEF CreateWorker, Thread, Producer
      <3> QED
        BY <3>1, <3>2
    <2> QED
      BY <2>1 DEF FifoInv, Fifo, RingContents, Slot, ring, logs
  <1>12. ASSUME NEW e \in Entry, OpenFile(e) PROVE FifoInv'
    BY <1>12 DEF OpenFile, FifoInv, Fifo, RingContents, Slot, ring, logs, Step, Goto, Moves, SemStep, Thread, Producer
  <1>13. ASSUME NEW e \in Entry, ReadLine(e) PROVE FifoInv'
    BY <1>13 DEF ReadLine, FifoInv, Fifo, RingContents, Slot, ring, logs, Step, Goto, Moves, SemStep, Thread, Producer
  <1>14. ASSUME NEW e \in Entry, EndOfFile(e) PROVE FifoInv'
    BY <1>14 DEF EndOfFile, FifoInv, Fifo, RingContents, Slot, ring, logs, Step, Goto, Moves, SemStep, Thread, Producer
  <1>15. ASSUME NEW t \in Producer, WaitEmpty(t) PROVE FifoInv'
    BY <1>15 DEF WaitEmpty, FifoInv, Fifo, RingContents, Slot, ring, logs, Step, Goto, Moves, SemStep, Thread, Producer
  <1>16. ASSUME NEW t \in Producer, WaitMutex(t) PROVE FifoInv'
    BY <1>16 DEF WaitMutex, FifoInv, Fifo, RingContents, Slot, ring, logs, Step, Goto, Moves, SemStep, Thread, Producer
  <1>17. ASSUME NEW t \in Producer, Put(t) PROVE FifoInv'
    <2>0. PICK n \in Int : n = Len(sent) - Len(rcvd)
      OBVIOUS
    <2>1. n \in 0 .. BufferSize - 1
      BY <1>17, <2>0, PutHasRoom DEF Put, Step, Fifo
    <2>2. /\ buffer' = [buffer EXCEPT ![cur_put] = ItemOf(t)]
          /\ cur_put' = Advance(cur_put) /\ cur_get' = cur_get /\ rcvd' = rcvd
          /\ sent' = Append(sent, ItemOf(t))
          /\ pc' = [pc EXCEPT ![t] = "post_mutex"] /\ pc[t] = "put"
      BY <1>17 DEF Put, Step, Goto, Moves, SemStep
    <2>3. ItemOf(t) \in Item
      BY <1>17 DEF Put, Step, ItemOf, Item, Line, TypeInv, LineInv, Producer, TypeOK
    <2>4. Len(sent') = Len(sent) + 1 /\ sent'[Len(sent) + 1] = ItemOf(t)
      BY <2>2, <2>3
    <2>5. \A i \in 1 .. Len(sent) : sent'[i] = sent[i]
      BY <2>2, <2>3
    <2>6. Fifo'
      <3>1. Len(rcvd') <= Len(sent') /\ Len(sent') - Len(rcvd') <= BufferSize
        BY <2>0, <2>1, <2>2, <2>4
      <3>2. \A i \in 1 .. Len(rcvd') : rcvd'[i] = sent'[i]
        BY <2>2, <2>5 DEF Fifo
      <3> QED
        BY <3>1, <3>2 DEF Fifo
    <2>7. ASSUME pc'[Main] \notin {"exit", "dead", "overrun"}
          PROVE  /\ cur_put' = Slot(cur_get', Len(sent') - Len(rcvd'))
                 /\ \A k \in 0 .. Len(sent') - Len(rcvd') - 1 :
                       buffer'[Slot(cur_get', k)] = sent'[Len(rcvd') + 1 + k]
      <3>1. pc[Main] \notin {"exit", "dead", "overrun"}
        BY <2>2, <2>7 DEF Producer
      <3>2. /\ cur_put = Slot(cur_get, n)
            /\ \A k \in 0 .. n - 1 : buffer[Slot(cur_get, k)] = sent[Len(rcvd) + 1 + k]
        BY <2>0, <3>1 DEF RingContents
      <3>4. Len(sent') - Len(rcvd') = n + 1
        BY <2>0, <2>2, <2>4
      <3>5. cur_put' = Slot(cur_get', n + 1)
        BY <2>1, <2>2, <3>2, SlotNext
      <3>6. ASSUME NEW k \in 0 .. n - 1
            PROVE  buffer'[Slot(cur_get, k)] = sent'[Len(rcvd) + 1 + k]
        <4>1. Slot(cur_get, k) # Slot(cur_get, n) /\ Slot(cur_get, k) \in 0 .. BufferSize - 1
          BY <2>1, SlotNext
        <4>2. buffer'[Slot(cur_get, k)] = buffer[Slot(cur_get, k)]
          BY <2>2, <3>2, <4>1
        <4>3. Len(rcvd) + 1 + k \in 1 .. Len(sent)
          BY <2>0, <2>1
        <4> QED
          BY <2>5, <3>2, <4>2, <4>3
      <3>7. buffer'[Slot(cur_get, n)] = sent'[Len(rcvd) + 1 + n]
        <4>1. Len(rcvd) + 1 + n = Len(sent) + 1
          BY <2>0
        <4> QED
          BY <2>2, <2>4, <3>2, <4>1
      <3>8. ASSUME NEW k \in 0 .. n PROVE buffer'[Slot(cur_get, k)] = sent'[Len(rcvd) + 1 + k]
        <4>1. CASE k = n
          BY <3>7, <4>1
        <4>2. CASE k # n
          BY <2>1, <3>6, <4>2
        <4> QED
          BY <4>1, <4>2
      <3>9. 0 .. Len(sent') - Len(rcvd') - 1 = 0 .. n
        BY <2>1, <3>4
      <3> QED
        BY <2>2, <3>4, <3>5, <3>8, <3>9
    <2> QED
      BY <2>6, <2>7 DEF FifoInv, RingContents
  <1>18. ASSUME NEW t \in Producer, PostMutex(t) PROVE FifoInv'
    BY <1>18 DEF PostMutex, FifoInv, Fifo, RingContents, Slot, ring, logs, Step, Goto, Moves, SemStep, Thread, Producer
  <1>19. ASSUME NEW t \in Producer, PostFull(t) PROVE FifoInv'
    BY <1>19 DEF PostFull, PostFullBy, FifoInv, Fifo, RingContents, Slot, ring, logs, Step, Goto, Moves, SemStep, Thread, Producer
  <1>20. CASE PrinterWaitFull
    BY <1>20 DEF PrinterWaitFull, FifoInv, Fifo, RingContents, Slot, ring, logs, Step, Goto, Moves, SemStep, Thread, Producer
  <1>21. CASE PrinterWaitMutex
    BY <1>21 DEF PrinterWaitMutex, FifoInv, Fifo, RingContents, Slot, ring, logs, Step, Goto, Moves, SemStep, Thread, Producer
  <1>22. CASE GetItem
    <2>0. PICK n \in Int : n = Len(sent) - Len(rcvd)
      OBVIOUS
    <2>1. n \in 1 .. BufferSize
      BY <1>22, <2>0, GetHasItem DEF GetItem, GetFrom, Fifo
    <2>2. /\ rcvd' = Append(rcvd, buffer[cur_get]) /\ cur_get' = Advance(cur_get)
          /\ UNCHANGED <<sent, buffer, cur_put>> /\ pc'[Main] = pc[Main]
      BY <1>22 DEF GetItem, GetFrom, Goto
    <2>3. pc[Main] \notin {"exit", "dead", "overrun"}
      BY <1>22 DEF GetItem, GetFrom, StructInv, Alive, Thread
    <2>4. /\ cur_put = Slot(cur_get, n)
          /\ \A k \in 0 .. n - 1 : buffer[Slot(cur_get, k)] = sent[Len(rcvd) + 1 + k]
      BY <2>0, <2>3 DEF RingContents
    <2>5. Slot(cur_get, 0) = cur_get
      BY DEF Slot
    <2>6. buffer[cur_get] = sent[Len(rcvd) + 1]
      <3>1. 0 \in 0 .. n - 1 /\ Len(rcvd) + 1 + 0 = Len(rcvd) + 1
        BY <2>1
      <3> QED
        BY <2>4, <2>5, <3>1
    <2>7. buffer[cur_get] \in Item \cup {NoStr}
      BY DEF TypeInv, TypeOK
    <2>8. /\ Len(rcvd') = Len(rcvd) + 1 /\ rcvd'[Len(rcvd) + 1] = buffer[cur_get]
          /\ \A i \in 1 .. Len(rcvd) : rcvd'[i] = rcvd[i]
      BY <2>2, <2>7
    <2>9. Fifo'
      <3>1. Len(rcvd') <= Len(sent') /\ Len(sent') - Len(rcvd') <= BufferSize
        BY <2>0, <2>1, <2>2, <2>8
      <3>2. ASSUME NEW i \in 1 .. Len(rcvd') PROVE rcvd'[i] = sent'[i]
        <4>1. CASE i = Len(rcvd) + 1
          BY <2>2, <2>6, <2>8, <4>1
        <4>2. CASE i # Len(rcvd) + 1
          BY <2>2, <2>8, <4>2 DEF Fifo
        <4> QED
          BY <4>1, <4>2
      <3> QED
        BY <3>1, <3>2 DEF Fifo
    <2>10. /\ cur_put' = Slot(cur_get', Len(sent') - Len(rcvd'))
           /\ \A k \in 0 .. Len(sent') - Len(rcvd') - 1 :
                 buffer'[Slot(cur_get', k)] = sent'[Len(rcvd') + 1 + k]
      <3>1. Len(sent') - Len(rcvd') = n - 1 /\ n - 1 \in 0 .. BufferSize - 1
        BY <2>0, <2>1, <2>2, <2>8
      <3>2. \A k \in 0 .. BufferSize - 1 : Slot(cur_get', k) = Slot(cur_get, k + 1)
        BY <2>2, SlotShift
      <3>3. cur_put' = Slot(cur_get', n - 1)
        <4>1. (n - 1) + 1 = n
          BY <2>0
        <4> QED
          BY <2>2, <2>4, <3>1, <3>2, <4>1
      <3>4. ASSUME NEW k \in 0 .. n - 2
            PROVE  buffer'[Slot(cur_get', k)] = sent'[Len(rcvd') + 1 + k]
        <4>1. Slot(cur_get', k) = Slot(cur_get, k + 1)
          BY <2>1, <3>2
        <4>2. k + 1 \in 0 .. n - 1
          BY <2>1
        <4>3. buffer[Slot(cur_get, k + 1)] = sent[Len(rcvd) + 1 + (k + 1)]
          BY <2>4, <4>2
        <4>4. Len(rcvd') + 1 + k = Len(rcvd) + 1 + (k + 1)
          BY <2>8
        <4> QED
          BY <2>2, <4>1, <4>3, <4>4
      <3>5. 0 .. Len(sent') - Len(rcvd') - 1 = 0 .. n - 2
        BY <2>1, <3>1
      <3> QED
        BY <3>1, <3>3, <3>4, <3>5
    <2> QED
      BY <2>9, <2>10 DEF FifoInv, RingContents
  <1>23. CASE WaitBuf
    BY <1>23 DEF WaitBuf, FifoInv, Fifo, RingContents, Slot, ring, logs, Step, Goto, Moves, SemStep, Thread, Producer
  <1>24. CASE Write
    BY <1>24 DEF Write, FifoInv, Fifo, RingContents, Slot, ring, logs, Step, Goto, Moves, SemStep, Thread, Producer
  <1>25. CASE SignalBuf
    BY <1>25 DEF SignalBuf, FifoInv, Fifo, RingContents, Slot, ring, logs, Step, Goto, Moves, SemStep, Thread, Producer
  <1>26. CASE PrinterPostMutex
    BY <1>26 DEF PrinterPostMutex, FifoInv, Fifo, RingContents, Slot, ring, logs, Step, Goto, Moves, SemStep, Thread, Producer
  <1>27. CASE PrinterPostEmpty
    BY <1>27 DEF PrinterPostEmpty, PrinterPostEmptyBy, FifoInv, Fifo, RingContents, Slot, ring, logs, Step, Goto, Moves, SemStep, Thread, Producer
  <1>28. CASE OtherWaitBuf \/ OtherSignalBuf
    BY <1>28 DEF OtherWaitBuf, OtherSignalBuf, FifoInv, Fifo, RingContents, Slot, ring, logs
  <1>29. CASE UNCHANGED vars
    BY <1>29 DEF vars, FifoInv, Fifo, RingContents, Slot, ring, logs
  <1> QED
    BY <1>1, <1>2, <1>3, <1>4, <1>5, <1>6, <1>7, <1>8, <1>9, <1>10, <1>11,
       <1>12, <1>13, <1>14, <1>15, <1>16, <1>17, <1>18, <1>19, <1>20, <1>21,
       <1>22, <1>23, <1>24, <1>25, <1>26, <1>27, <1>28, <1>29, <1>30,
       <1>31, <1>32, <1>33,
       NextCases, Zenon

(* Tokens of empty and full are neither lost nor made.                      *)
THEOREM AccountingCorrect == Spec => []Accounting
  <1>1. Spec => [](TypeInv /\ StructInv /\ Accounting)
    BY TypeInvInit, TypeInvNext, StructInvInit, StructInvNext, AccountingInit,
       AccountingNext, PTL DEF Spec
  <1> QED
    BY <1>1, PTL

(* The printer gets what the workers put, once and in order, for any number *)
(* of workers and lines, as long as sem_init gives empty at most BUFFERSIZE *)
(* tokens.                                                                  *)
THEOREM FifoCorrect == ASSUME EmptyInit <= BufferSize PROVE Spec => []Fifo
  <1>1. Init => TypeInv /\ StructInv /\ Accounting /\ FifoInv
    BY TypeInvInit, StructInvInit, AccountingInit, FifoInvInit
  <1>2. TypeInv /\ StructInv /\ Accounting /\ FifoInv /\ [Next]_vars
          => (TypeInv /\ StructInv /\ Accounting /\ FifoInv)'
    BY TypeInvNext, StructInvNext, AccountingNext, FifoInvNext
  <1>3. FifoInv => Fifo
    BY DEF FifoInv
  <1> QED
    BY <1>1, <1>2, <1>3, PTL DEF Spec
-----------------------------------------------------------------------------
(* The joins of ChildsPlay: every worker that was created has its id in     *)
(* tids, joinThreads has met the end of each one up to joined, whatever ids *)
(* failed creations recorded, and ChildsPlay puts its sentinel with no      *)
(* worker left.                                                             *)
Final == {"wait_empty", "wait_mutex", "put", "post_mutex", "post_full",
          "join_printer", "destroy", "exit"}

JoinInv ==
  /\ pc[Main] \in {"create", "opendir", "readdir"} => joined = 0
  /\ joined <= Len(tids)
  /\ Alive => \A e \in Entry : pc[e] # "none" => \E i \in 1 .. Len(tids) : tids[i] = e
  /\ Alive => \A i \in 1 .. joined : tids[i] \in Entry => pc[tids[i]] = "done"
  /\ pc[Main] \in Final => \A e \in Entry : pc[e] \in {"none", "done"}
  /\ SEMbuf = "mine" => pc[Printer] \in {"write", "signal_buf", "overrun"}

LEMMA JoinInvInit == Init => JoinInv
  BY ThreadAssumption DEF Init, JoinInv, Final, Alive, Thread, Producer

LEMMA JoinInvNext == TypeInv /\ StructInv /\ JoinInv /\ [Next]_vars => JoinInv'
  <1> SUFFICES ASSUME TypeInv, StructInv, JoinInv, [Next]_vars PROVE JoinInv'
    OBVIOUS
  <1>0. /\ pc \in [Thread -> ProducerPc \cup PrinterPc] /\ unread \subseteq Entry
        /\ tids \in Seq(Entry \cup {NoTid}) /\ joined \in Nat /\ Len(tids) \in Nat
    BY DEF TypeInv, TypeOK
  <1> USE <1>0, ThreadAssumption
      DEF JoinInv, Final, StructInv, Alive, Thread, Producer, Step, Goto, Moves, SemStep, dirv, outv

  <1>1. CASE CreatePrinter
    BY <1>1 DEF CreatePrinter
  <1>2. CASE OpenDir
    BY <1>2 DEF OpenDir
  <1>3. CASE OpenDirFails
    BY <1>3 DEF OpenDirFails, ExitProcess
  <1>4. CASE CloseDir
    BY <1>4 DEF CloseDir
  <1>5. CASE JoinWorker
    <2>1. /\ UNCHANGED <<pc, tids, SEMbuf>> /\ joined' = joined + 1 /\ pc[Main] = "join"
          /\ joined < Len(tids) /\ (Joinable(joined + 1) => pc[tids[joined + 1]] = "done")
      BY <1>5 DEF JoinWorker
    <2>2. Alive => \A i \in 1 .. joined + 1 : tids[i] \in Entry => pc[tids[i]] = "done"
      <3> SUFFICES ASSUME Alive, NEW i \in 1 .. joined + 1, tids[i] \in Entry
                   PROVE  pc[tids[i]] = "done"
        OBVIOUS
      <3>1. CASE i \in 1 .. joined
        BY <3>1
      <3>2. CASE i = joined + 1 /\ Joinable(joined + 1)
        BY <2>1, <3>2
      <3>3. CASE i = joined + 1 /\ ~Joinable(joined + 1)
        <4>1. \E j \in 1 .. joined : tids[j] = tids[joined + 1]
          BY <3>3 DEF Joinable
        <4> QED
          BY <3>3, <4>1
      <3> QED
        BY <3>1, <3>2, <3>3
    <2> QED
      BY <2>1, <2>2
  <1>6. CASE AllJoined
    BY <1>6 DEF AllJoined, AllJoinedBut
  <1>7. CASE JoinPrinter
    BY <1>7 DEF JoinPrinter
  <1>8. CASE DestroyBuffer
    BY <1>8 DEF DestroyBuffer
  <1>9. CASE Exit
    BY <1>9 DEF Exit, ExitProcess
  <1>30. CASE WriteFaults
    BY <1>30 DEF WriteFaults, ExitProcess
  <1>31. CASE CreatePrinterFails
    BY <1>31 DEF CreatePrinterFails
  <1>32. CASE JoinFaults \/ JoinPrinterFaults
    BY <1>32 DEF JoinFaults, JoinPrinterFaults, ExitProcess
  <1>33. ASSUME NEW e \in Entry, CreateWorkerFails(e) PROVE JoinInv'
    BY <1>33 DEF CreateWorkerFails
  <1>10. ASSUME NEW e \in Entry, SkipEntry(e) PROVE JoinInv'
    BY <1>10 DEF SkipEntry
  <1>11. ASSUME NEW e \in Entry, CreateWorker(e) PROVE JoinInv'
    <2>1. CASE Len(tids) < MaxTids
      <3>1. /\ pc' = [pc EXCEPT ![e] = "open"] /\ tids' = Append(tids, e)
            /\ UNCHANGED <<joined, SEMbuf>> /\ pc[Main] = "readdir"
        BY <1>11, <2>1 DEF CreateWorker
      <3>2. /\ Len(tids') = Len(tids) + 1 /\ tids'[Len(tids) + 1] = e
            /\ \A i \in 1 .. Len(tids) : tids'[i] = tids[i]
        BY <3>1
      <3>3. Len(tids') \in Nat /\ Len(tids) + 1 \in 1 .. Len(tids')
            /\ \A i \in 1 .. Len(tids) : i \in 1 .. Len(tids')
        BY <3>2
      <3>4. joined' = 0 /\ joined = 0 /\ pc'[Main] = "readdir"
        BY <3>1
      <3>5. \A d \in Entry : pc'[d] # "none" => \E i \in 1 .. Len(tids') : tids'[i] = d
        <4> SUFFICES ASSUME NEW d \in Entry, pc'[d] # "none"
                     PROVE  \E i \in 1 .. Len(tids') : tids'[i] = d
          OBVIOUS
        <4>1. CASE d = e
          BY <3>2, <3>3, <4>1
        <4>2. CASE d # e
          <5>1. pc[d] # "none" /\ Alive
            BY <3>1, <4>2
          <5>2. PICK i \in 1 .. Len(tids) : tids[i] = d
            BY <5>1
          <5> QED
            BY <3>2, <3>3, <5>2
        <4> QED
          BY <4>1, <4>2
      <3> QED
        BY <3>1, <3>2, <3>4, <3>5
    <2>2. CASE ~(Len(tids) < MaxTids)
      <3>1. /\ pc' = [t \in Thread |-> "overrun"]
            /\ UNCHANGED <<tids, joined, SEMbuf>> /\ pc[Main] = "readdir"
        BY <1>11, <2>2 DEF CreateWorker
      <3> QED
        BY <3>1
    <2> QED
      BY <2>1, <2>2
  <1>12. ASSUME NEW e \in Entry, OpenFile(e) PROVE JoinInv'
    BY <1>12 DEF OpenFile
  <1>13. ASSUME NEW e \in Entry, ReadLine(e) PROVE JoinInv'
    BY <1>13 DEF ReadLine
  <1>14. ASSUME NEW e \in Entry, EndOfFile(e) PROVE JoinInv'
    BY <1>14 DEF EndOfFile
  <1>15. ASSUME NEW t \in Producer, WaitEmpty(t) PROVE JoinInv'
    BY <1>15 DEF WaitEmpty
  <1>16. ASSUME NEW t \in Producer, WaitMutex(t) PROVE JoinInv'
    BY <1>16 DEF WaitMutex
  <1>17. ASSUME NEW t \in Producer, Put(t) PROVE JoinInv'
    BY <1>17 DEF Put
  <1>18. ASSUME NEW t \in Producer, PostMutex(t) PROVE JoinInv'
    BY <1>18 DEF PostMutex
  <1>19. ASSUME NEW t \in Producer, PostFull(t) PROVE JoinInv'
    BY <1>19 DEF PostFull, PostFullBy
  <1>20. CASE PrinterWaitFull
    BY <1>20 DEF PrinterWaitFull
  <1>21. CASE PrinterWaitMutex
    BY <1>21 DEF PrinterWaitMutex
  <1>22. CASE GetItem
    BY <1>22 DEF GetItem, GetFrom
  <1>23. CASE WaitBuf
    BY <1>23 DEF WaitBuf
  <1>24. CASE Write
    BY <1>24 DEF Write
  <1>25. CASE SignalBuf
    BY <1>25 DEF SignalBuf
  <1>26. CASE PrinterPostMutex
    BY <1>26 DEF PrinterPostMutex
  <1>27. CASE PrinterPostEmpty
    BY <1>27 DEF PrinterPostEmpty, PrinterPostEmptyBy
  <1>28. CASE OtherWaitBuf \/ OtherSignalBuf
    BY <1>28 DEF OtherWaitBuf, OtherSignalBuf
  <1>29. CASE UNCHANGED vars
    BY <1>29 DEF vars
  <1> HIDE DEF JoinInv, Alive, Thread, Producer, Step, Goto, Moves, SemStep
  <1> QED
    BY <1>1, <1>2, <1>3, <1>4, <1>5, <1>6, <1>7, <1>8, <1>9, <1>10, <1>11,
       <1>12, <1>13, <1>14, <1>15, <1>16, <1>17, <1>18, <1>19, <1>20, <1>21,
       <1>22, <1>23, <1>24, <1>25, <1>26, <1>27, <1>28, <1>29, <1>30,
       <1>31, <1>32, <1>33,
       NextCases, Zenon

(* When destroyBuffer frees the ring, every thread that was created has      *)
(* ended and SEMbuf is not held, also when pthread_create has failed and    *)
(* joinThreads has joined a wrong id.                                       *)
THEOREM QuietCorrect == Spec => []QuietAtDestroy
  <1>1. Spec => [](TypeInv /\ StructInv /\ JoinInv)
    BY TypeInvInit, TypeInvNext, StructInvInit, StructInvNext, JoinInvInit, JoinInvNext,
       PTL DEF Spec
  <1>2. StructInv /\ JoinInv => QuietAtDestroy
    BY DEF StructInv, JoinInv, Final, QuietAtDestroy, Thread, Producer
  <1> QED
    BY <1>1, <1>2, PTL

-----------------------------------------------------------------------------
(* The sentinel comes last: only ChildsPlay puts it, and from then on no    *)
(* worker is left to put anything.                                          *)
SentinelInv ==
  \A i \in 1 .. Len(sent) : sent[i] = ExitChild =>
    /\ i = Len(sent)
    /\ pc[Main] \in {"post_mutex", "post_full", "join_printer", "destroy", "exit", "dead", "overrun"}

LEMMA SentinelInvInit == Init => SentinelInv
  BY DEF Init, SentinelInv

LEMMA SentinelInvNext ==
  TypeInv /\ StructInv /\ JoinInv /\ SentinelInv /\ [Next]_vars => SentinelInv'
  <1> SUFFICES ASSUME TypeInv, StructInv, JoinInv, SentinelInv, [Next]_vars PROVE SentinelInv'
    OBVIOUS
  <1>0. /\ pc \in [Thread -> ProducerPc \cup PrinterPc]
        /\ sent \in Seq(Item) /\ Len(sent) \in Nat
    BY DEF TypeInv, TypeOK
  <1> USE <1>0, ThreadAssumption
      DEF SentinelInv, Thread, Producer, Step, Goto, Moves, SemStep, logs

  <1>1. CASE CreatePrinter
    BY <1>1 DEF CreatePrinter
  <1>2. CASE OpenDir
    BY <1>2 DEF OpenDir
  <1>3. CASE OpenDirFails
    BY <1>3 DEF OpenDirFails, ExitProcess
  <1>4. CASE CloseDir
    BY <1>4 DEF CloseDir
  <1>5. CASE JoinWorker
    BY <1>5 DEF JoinWorker
  <1>6. CASE AllJoined
    BY <1>6 DEF AllJoined, AllJoinedBut
  <1>7. CASE JoinPrinter
    BY <1>7 DEF JoinPrinter
  <1>8. CASE DestroyBuffer
    BY <1>8 DEF DestroyBuffer
  <1>9. CASE Exit
    BY <1>9 DEF Exit, ExitProcess
  <1>30. CASE WriteFaults
    BY <1>30 DEF WriteFaults, ExitProcess
  <1>31. CASE CreatePrinterFails
    BY <1>31 DEF CreatePrinterFails
  <1>32. CASE JoinFaults \/ JoinPrinterFaults
    BY <1>32 DEF JoinFaults, JoinPrinterFaults, ExitProcess
  <1>33. ASSUME NEW e \in Entry, CreateWorkerFails(e) PROVE SentinelInv'
    BY <1>33 DEF CreateWorkerFails
  <1>10. ASSUME NEW e \in Entry, SkipEntry(e) PROVE SentinelInv'
    BY <1>10 DEF SkipEntry
  <1>11. ASSUME NEW e \in Entry, CreateWorker(e) PROVE SentinelInv'
    BY <1>11 DEF CreateWorker
  <1>12. ASSUME NEW e \in Entry, OpenFile(e) PROVE SentinelInv'
    BY <1>12 DEF OpenFile
  <1>13. ASSUME NEW e \in Entry, ReadLine(e) PROVE SentinelInv'
    BY <1>13 DEF ReadLine
  <1>14. ASSUME NEW e \in Entry, EndOfFile(e) PROVE SentinelInv'
    BY <1>14 DEF EndOfFile
  <1>15. ASSUME NEW t \in Producer, WaitEmpty(t) PROVE SentinelInv'
    BY <1>15 DEF WaitEmpty
  <1>16. ASSUME NEW t \in Producer, WaitMutex(t) PROVE SentinelInv'
    BY <1>16 DEF WaitMutex
  <1>17. ASSUME NEW t \in Producer, Put(t) PROVE SentinelInv'
    <2>1. /\ sent' = Append(sent, ItemOf(t)) /\ pc[t] = "put"
          /\ pc' = [pc EXCEPT ![t] = "post_mutex"]
      BY <1>17 DEF Put
    <2>2. ItemOf(t) \in Item
      BY <2>1 DEF ItemOf, Item, Line, TypeInv, LineInv, TypeOK
    <2>3. /\ Len(sent') = Len(sent) + 1 /\ sent'[Len(sent) + 1] = ItemOf(t)
          /\ \A i \in 1 .. Len(sent) : sent'[i] = sent[i]
      BY <2>1, <2>2
    <2>4. \A i \in 1 .. Len(sent) : sent[i] # ExitChild
      BY <2>1 DEF StructInv, Alive, JoinInv, Final
    <2>5. t = Main \/ ItemOf(t) # ExitChild
      <3> SUFFICES ASSUME t # Main PROVE ItemOf(t) # ExitChild
        OBVIOUS
      <3>1. ItemOf(t) \in Line
        BY <2>1 DEF ItemOf, Line, TypeInv, LineInv, TypeOK
      <3> QED
        BY <3>1, SentinelAssumption
    <2> QED
      BY <2>1, <2>3, <2>4, <2>5
  <1>18. ASSUME NEW t \in Producer, PostMutex(t) PROVE SentinelInv'
    BY <1>18 DEF PostMutex
  <1>19. ASSUME NEW t \in Producer, PostFull(t) PROVE SentinelInv'
    BY <1>19 DEF PostFull, PostFullBy
  <1>20. CASE PrinterWaitFull
    BY <1>20 DEF PrinterWaitFull
  <1>21. CASE PrinterWaitMutex
    BY <1>21 DEF PrinterWaitMutex
  <1>22. CASE GetItem
    BY <1>22 DEF GetItem, GetFrom
  <1>23. CASE WaitBuf
    BY <1>23 DEF WaitBuf
  <1>24. CASE Write
    BY <1>24 DEF Write
  <1>25. CASE SignalBuf
    BY <1>25 DEF SignalBuf
  <1>26. CASE PrinterPostMutex
    BY <1>26 DEF PrinterPostMutex
  <1>27. CASE PrinterPostEmpty
    BY <1>27 DEF PrinterPostEmpty, PrinterPostEmptyBy
  <1>28. CASE OtherWaitBuf \/ OtherSignalBuf
    BY <1>28 DEF OtherWaitBuf, OtherSignalBuf
  <1>29. CASE UNCHANGED vars
    BY <1>29 DEF vars
  <1> HIDE DEF SentinelInv, Thread, Producer, Step, Goto, Moves, SemStep
  <1> QED
    BY <1>1, <1>2, <1>3, <1>4, <1>5, <1>6, <1>7, <1>8, <1>9, <1>10, <1>11,
       <1>12, <1>13, <1>14, <1>15, <1>16, <1>17, <1>18, <1>19, <1>20, <1>21,
       <1>22, <1>23, <1>24, <1>25, <1>26, <1>27, <1>28, <1>29, <1>30,
       <1>31, <1>32, <1>33,
       NextCases, Zenon

(* "exitchild" is the last item that is ever put.                           *)
THEOREM SentinelCorrect == Spec => []SentinelLast
  <1>1. Spec => [](TypeInv /\ StructInv /\ JoinInv /\ SentinelInv)
    BY TypeInvInit, TypeInvNext, StructInvInit, StructInvNext, JoinInvInit, JoinInvNext,
       SentinelInvInit, SentinelInvNext, PTL DEF Spec
  <1>2. SentinelInv => SentinelLast
    BY DEF SentinelInv, SentinelLast
  <1> QED
    BY <1>1, <1>2, PTL
=============================================================================
