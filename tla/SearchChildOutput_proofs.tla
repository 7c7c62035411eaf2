---------------------- MODULE SearchChildOutput_proofs ----------------------
(***************************************************************************)
(* What a child writes: the printer appends exactly the lines with the      *)
(* keyword, and the ring between the workers and the printer implements     *)
(* Channel.  For every directory, every text and every size of the ring.    *)
(***************************************************************************)
EXTENDS SearchChild_proofs, SequenceTheorems

(* The printer and output.txt: str is what getitem returned last, output    *)
(* has what it returned before, the sentinel left out, and the printer ends *)
(* with the sentinel and not before.                                        *)
NoSentinel == \A i \in 1 .. Len(rcvd) : rcvd[i] # ExitChild

PrintInv ==
  Alive =>
    /\ pc[Printer] \in {"none", "wait_full", "wait_mutex", "get", "wait_buf", "write", "signal_buf"}
         => NoSentinel
    /\ pc[Printer] \in {"wait_buf", "write", "signal_buf", "post_mutex", "post_empty"}
         => rcvd # << >> /\ str = rcvd[Len(rcvd)]
    /\ pc[Printer] \in {"post_mutex", "post_empty"} /\ str # ExitChild => NoSentinel
    /\ pc[Printer] = "done" => rcvd # << >> /\ rcvd[Len(rcvd)] = ExitChild
    /\ pc[Main] \in {"destroy", "exit"} => pc[Printer] = "done" \/ Printer \in failed
    /\ pc[Printer] = "none" => rcvd = << >>

WrittenInv ==
  Alive =>
    /\ Len(output) <= Len(rcvd)
    /\ \A i \in 1 .. Len(output) : output[i] = rcvd[i]
    /\ NoSentinel /\ pc[Printer] \notin {"wait_buf", "write"} => Len(output) = Len(rcvd)
    /\ pc[Printer] \in {"wait_buf", "write"} => Len(output) = Len(rcvd) - 1
    /\ rcvd # << >> /\ rcvd[Len(rcvd)] = ExitChild => Len(output) = Len(rcvd) - 1

LEMMA PrintInvInit == Init => PrintInv /\ WrittenInv
  BY ThreadAssumption DEF Init, PrintInv, WrittenInv, NoSentinel, Thread, Producer

LEMMA PrintInvNext == TypeInv /\ StructInv /\ PrintInv /\ [Next]_vars => PrintInv'
  <1> SUFFICES ASSUME TypeInv, StructInv, PrintInv, [Next]_vars PROVE PrintInv'
    OBVIOUS
  <1>0. /\ pc \in [Thread -> ProducerPc \cup PrinterPc] /\ pc[Printer] \in PrinterPc
        /\ rcvd \in Seq(Item \cup {NoStr}) /\ Len(rcvd) \in Nat
        /\ buffer \in [0 .. BufferSize - 1 -> Item \cup {NoStr}] /\ cur_get \in 0 .. BufferSize - 1
    BY DEF TypeInv, TypeOK
  <1> USE <1>0, ThreadAssumption
      DEF PrintInv, NoSentinel, StructInv, Alive, Thread, Producer, Step, Goto, Moves, SemStep,
          dirv, logs
  <1>1. CASE CreatePrinter
    BY <1>1 DEF CreatePrinter
  <1>2. CASE OpenDir
    BY <1>2 DEF OpenDir
  <1>3. CASE OpenDirFails
    BY <1>3 DEF OpenDirFails, ExitProcess
  <1>4. CASE CloseDir
    BY <1>4 DEF CloseDir
  <1>5. CASE JoinWorker
    BY <1>5 DEF JoinWorker
  <1>6. CASE AllJoined
    BY <1>6 DEF AllJoined, AllJoinedBut
  <1>7. CASE JoinPrinter
    BY <1>7 DEF JoinPrinter
  <1>8. CASE DestroyBuffer
    BY <1>8 DEF DestroyBuffer
  <1>9. CASE Exit
    BY <1>9 DEF Exit, ExitProcess
  <1>30. CASE WriteFaults
    BY <1>30 DEF WriteFaults, ExitProcess
  <1>31. CASE CreatePrinterFails
    BY <1>31 DEF CreatePrinterFails
  <1>32. CASE JoinFaults \/ JoinPrinterFaults
    BY <1>32 DEF JoinFaults, JoinPrinterFaults, ExitProcess
  <1>33. ASSUME NEW e \in Entry, CreateWorkerFails(e) PROVE PrintInv'
    BY <1>33 DEF CreateWorkerFails
  <1>10. ASSUME NEW e \in Entry, SkipEntry(e) PROVE PrintInv'
    BY <1>10 DEF SkipEntry
  <1>11. ASSUME NEW e \in Entry, CreateWorker(e) PROVE PrintInv'
    BY <1>11 DEF CreateWorker
  <1>12. ASSUME NEW e \in Entry, OpenFile(e) PROVE PrintInv'
    BY <1>12 DEF OpenFile
  <1>13. ASSUME NEW e \in Entry, ReadLine(e) PROVE PrintInv'
    BY <1>13 DEF ReadLine
  <1>14. ASSUME NEW e \in Entry, EndOfFile(e) PROVE PrintInv'
    BY <1>14 DEF EndOfFile
  <1>15. ASSUME NEW t \in Producer, WaitEmpty(t) PROVE PrintInv'
    BY <1>15 DEF WaitEmpty
  <1>16. ASSUME NEW t \in Producer, WaitMutex(t) PROVE PrintInv'
    BY <1>16 DEF WaitMutex
  <1>17. ASSUME NEW t \in Producer, Put(t) PROVE PrintInv'
    BY <1>17 DEF Put
  <1>18. ASSUME NEW t \in Producer, PostMutex(t) PROVE PrintInv'
    BY <1>18 DEF PostMutex
  <1>19. ASSUME NEW t \in Producer, PostFull(t) PROVE PrintInv'
    BY <1>19 DEF PostFull, PostFullBy
  <1>20. CASE PrinterWaitFull
    BY <1>20 DEF PrinterWaitFull
  <1>21. CASE PrinterWaitMutex
    BY <1>21 DEF PrinterWaitMutex
  <1>22. CASE GetItem
    <2>1. /\ rcvd' = Append(rcvd, buffer[cur_get]) /\ str' = buffer[cur_get]
          /\ pc' = [pc EXCEPT ![Printer] = IF buffer[cur_get] = ExitChild THEN "post_mutex"
                                                                          ELSE "wait_buf"]
          /\ pc[Printer] = "get" /\ failed' = failed
      BY <1>22 DEF GetItem, GetFrom
    <2>2. buffer[cur_get] \in Item \cup {NoStr}
      OBVIOUS
    <2>3. /\ Len(rcvd') = Len(rcvd) + 1 /\ rcvd'[Len(rcvd) + 1] = buffer[cur_get]
          /\ \A i \in 1 .. Len(rcvd) : rcvd'[i] = rcvd[i]
          /\ rcvd' # << >>
      BY <2>1, <2>2
    <2>4. Alive /\ NoSentinel /\ pc[Main] \notin {"destroy", "exit"}
      BY <2>1
    <2>5. buffer[cur_get] # ExitChild => NoSentinel'
      BY <2>3, <2>4
    <2>6. pc'[Printer] = (IF buffer[cur_get] = ExitChild THEN "post_mutex" ELSE "wait_buf")
          /\ pc'[Main] = pc[Main]
      BY <2>1
    <2> QED
      BY <2>1, <2>3, <2>4, <2>5, <2>6
  <1>23. CASE WaitBuf
    BY <1>23 DEF WaitBuf
  <1>24. CASE Write
    BY <1>24 DEF Write
  <1>25. CASE SignalBuf
    BY <1>25 DEF SignalBuf
  <1>26. CASE PrinterPostMutex
    BY <1>26 DEF PrinterPostMutex
  <1>27. CASE PrinterPostEmpty
    BY <1>27 DEF PrinterPostEmpty, PrinterPostEmptyBy
  <1>28. CASE OtherWaitBuf \/ OtherSignalBuf
    BY <1>28 DEF OtherWaitBuf, OtherSignalBuf
  <1>29. CASE UNCHANGED vars
    BY <1>29 DEF vars
  <1> HIDE DEF PrintInv, StructInv, Alive, Thread, Producer, Step, Goto, Moves, SemStep
  <1> QED
    BY <1>1, <1>2, <1>3, <1>4, <1>5, <1>6, <1>7, <1>8, <1>9, <1>10, <1>11,
       <1>12, <1>13, <1>14, <1>15, <1>16, <1>17, <1>18, <1>19, <1>20, <1>21,
       <1>22, <1>23, <1>24, <1>25, <1>26, <1>27, <1>28, <1>29, <1>30,
       <1>31, <1>32, <1>33,
       NextCases, Zenon

LEMMA WrittenInvNext ==
  TypeInv /\ StructInv /\ PrintInv /\ WrittenInv /\ [Next]_vars => WrittenInv'
  <1> SUFFICES ASSUME TypeInv, StructInv, PrintInv, WrittenInv, [Next]_vars PROVE WrittenInv'
    OBVIOUS
  <1>0. /\ pc \in [Thread -> ProducerPc \cup PrinterPc] /\ pc[Printer] \in PrinterPc
        /\ rcvd \in Seq(Item \cup {NoStr}) /\ Len(rcvd) \in Nat
        /\ output \in Seq(Item \cup {NoStr}) /\ Len(output) \in Nat /\ str \in Item \cup {NoStr}
    BY DEF TypeInv, TypeOK
  <1> USE <1>0, ThreadAssumption
      DEF WrittenInv, NoSentinel, Alive, Thread, Producer, Step, Goto, Moves, SemStep,
          logs, outv
  <1>1. CASE CreatePrinter
    BY <1>1 DEF CreatePrinter, StructInv
  <1>2. CASE OpenDir
    BY <1>2 DEF OpenDir
  <1>3. CASE OpenDirFails
    BY <1>3 DEF OpenDirFails, ExitProcess
  <1>4. CASE CloseDir
    BY <1>4 DEF CloseDir
  <1>5. CASE JoinWorker
    BY <1>5 DEF JoinWorker
  <1>6. CASE AllJoined
    BY <1>6 DEF AllJoined, AllJoinedBut
  <1>7. CASE JoinPrinter
    BY <1>7 DEF JoinPrinter
  <1>8. CASE DestroyBuffer
    BY <1>8 DEF DestroyBuffer
  <1>9. CASE Exit
    BY <1>9 DEF Exit, ExitProcess
  <1>30. CASE WriteFaults
    BY <1>30 DEF WriteFaults, ExitProcess
  <1>31. CASE CreatePrinterFails
    BY <1>31 DEF CreatePrinterFails
  <1>32. CASE JoinFaults \/ JoinPrinterFaults
    BY <1>32 DEF JoinFaults, JoinPrinterFaults, ExitProcess
  <1>33. ASSUME NEW e \in Entry, CreateWorkerFails(e) PROVE WrittenInv'
    BY <1>33 DEF CreateWorkerFails
  <1>10. ASSUME NEW e \in Entry, SkipEntry(e) PROVE WrittenInv'
    BY <1>10 DEF SkipEntry
  <1>11. ASSUME NEW e \in Entry, CreateWorker(e) PROVE WrittenInv'
    BY <1>11 DEF CreateWorker
  <1>12. ASSUME NEW e \in Entry, OpenFile(e) PROVE WrittenInv'
    BY <1>12 DEF OpenFile
  <1>13. ASSUME NEW e \in Entry, ReadLine(e) PROVE WrittenInv'
    BY <1>13 DEF ReadLine
  <1>14. ASSUME NEW e \in Entry, EndOfFile(e) PROVE WrittenInv'
    BY <1>14 DEF EndOfFile
  <1>15. ASSUME NEW t \in Producer, WaitEmpty(t) PROVE WrittenInv'
    BY <1>15 DEF WaitEmpty
  <1>16. ASSUME NEW t \in Producer, WaitMutex(t) PROVE WrittenInv'
    BY <1>16 DEF WaitMutex
  <1>17. ASSUME NEW t \in Producer, Put(t) PROVE WrittenInv'
    BY <1>17 DEF Put
  <1>18. ASSUME NEW t \in Producer, PostMutex(t) PROVE WrittenInv'
    BY <1>18 DEF PostMutex
  <1>19. ASSUME NEW t \in Producer, PostFull(t) PROVE WrittenInv'
    BY <1>19 DEF PostFull, PostFullBy
  <1>20. CASE PrinterWaitFull
    BY <1>20 DEF PrinterWaitFull
  <1>21. CASE PrinterWaitMutex
    BY <1>21 DEF PrinterWaitMutex
  <1>22. CASE GetItem
    <2>1. /\ rcvd' = Append(rcvd, buffer[cur_get]) /\ output' = output
          /\ pc' = [pc EXCEPT ![Printer] = IF buffer[cur_get] = ExitChild THEN "post_mutex"
                                                                          ELSE "wait_buf"]
          /\ pc[Printer] = "get"
      BY <1>22 DEF GetItem, GetFrom, outv
    <2>2. buffer[cur_get] \in Item \cup {NoStr}
      BY DEF TypeInv, TypeOK
    <2>3. /\ Len(rcvd') = Len(rcvd) + 1 /\ rcvd'[Len(rcvd) + 1] = buffer[cur_get]
          /\ \A i \in 1 .. Len(rcvd) : rcvd'[i] = rcvd[i]
      BY <2>1, <2>2
    <2>4. Alive /\ NoSentinel
      BY <2>1 DEF PrintInv, StructInv
    <2>5. Len(output) = Len(rcvd) /\ \A i \in 1 .. Len(output) : output[i] = rcvd[i]
      BY <2>1, <2>4
    <2>6. buffer[cur_get] = ExitChild => ~NoSentinel'
      BY <2>3
    <2>7. pc'[Printer] = (IF buffer[cur_get] = ExitChild THEN "post_mutex" ELSE "wait_buf")
      BY <2>1
    <2> QED
      BY <2>1, <2>3, <2>5, <2>6, <2>7
  <1>23. CASE WaitBuf
    BY <1>23 DEF WaitBuf
  <1>24. CASE Write
    <2>1. /\ output' = Append(output, str) /\ rcvd' = rcvd /\ pc[Printer] = "write"
          /\ pc' = [pc EXCEPT ![Printer] = "signal_buf"]
      BY <1>24 DEF Write
    <2>2. /\ Len(output') = Len(output) + 1 /\ output'[Len(output) + 1] = str
          /\ \A i \in 1 .. Len(output) : output'[i] = output[i]
      BY <2>1
    <2>3. Alive /\ NoSentinel /\ rcvd # << >> /\ str = rcvd[Len(rcvd)] /\ Len(rcvd) \in 1 .. Len(rcvd)
      BY <2>1 DEF PrintInv, StructInv
    <2>4. Len(output) = Len(rcvd) - 1 /\ \A i \in 1 .. Len(output) : output[i] = rcvd[i]
      BY <2>1, <2>3
    <2>5. Len(output') = Len(rcvd')
      BY <2>1, <2>2, <2>4
    <2>6. ASSUME NEW i \in 1 .. Len(output') PROVE output'[i] = rcvd'[i]
      <3>1. CASE i = Len(output) + 1
        BY <2>1, <2>2, <2>3, <2>4, <3>1
      <3>2. CASE i # Len(output) + 1
        BY <2>1, <2>2, <2>4, <3>2
      <3> QED
        BY <3>1, <3>2
    <2>7. rcvd'[Len(rcvd)] # ExitChild /\ pc'[Printer] = "signal_buf"
      BY <2>1, <2>3
    <2> QED
      BY <2>1, <2>5, <2>6, <2>7
  <1>25. CASE SignalBuf
    BY <1>25 DEF SignalBuf
  <1>26. CASE PrinterPostMutex
    BY <1>26 DEF PrinterPostMutex
  <1>27. CASE PrinterPostEmpty
    BY <1>27 DEF PrinterPostEmpty, PrinterPostEmptyBy
  <1>28. CASE OtherWaitBuf \/ OtherSignalBuf
    BY <1>28 DEF OtherWaitBuf, OtherSignalBuf
  <1>29. CASE UNCHANGED vars
    BY <1>29 DEF vars
  <1> HIDE DEF WrittenInv, NoSentinel, Alive, Thread, Producer, Step, Goto, Moves, SemStep
  <1> QED
    BY <1>1, <1>2, <1>3, <1>4, <1>5, <1>6, <1>7, <1>8, <1>9, <1>10, <1>11,
       <1>12, <1>13, <1>14, <1>15, <1>16, <1>17, <1>18, <1>19, <1>20, <1>21,
       <1>22, <1>23, <1>24, <1>25, <1>26, <1>27, <1>28, <1>29, <1>30,
       <1>31, <1>32, <1>33,
       NextCases, Zenon

-----------------------------------------------------------------------------
(* What the workers have put: of every file the lines with the keyword that *)
(* were read, but for one on its way to put, each once and in order; and    *)
(* which entries have a worker.                                             *)
PutPc == {"wait_empty", "wait_mutex", "put"}

WorkerInv ==
  Alive => \A e \in Entry :
    /\ pc[e] \in PutPc => Found(e, line_num[e])
    /\ pc[e] \in {"none", "open"} => line_num[e] = 0
    /\ pc[e] \notin {"none", "open", "done"} => Kind[e] = "file"
    /\ pc[e] = "done" => line_num[e] = IF Kind[e] = "file" THEN Len(Text[e]) ELSE 0
    /\ pc[e] = "none" => e \in unread \/ Skipped(e) \/ e \in failed
    /\ pc[e] # "none" => ~Skipped(e) /\ e \notin failed
    /\ e \in unread => e \notin failed
    /\ pc[Main] \notin {"create", "opendir", "readdir"} => e \notin unread

SentInv ==
  Alive =>
    /\ \A i \in 1 .. Len(sent) : sent[i] # ExitChild =>
         /\ Found(sent[i][1], sent[i][2]) /\ sent[i][2] <= line_num[sent[i][1]]
         /\ pc[sent[i][1]] \in PutPc => sent[i][2] < line_num[sent[i][1]]
    /\ \A i, j \in 1 .. Len(sent) :
         /\ i < j /\ sent[i] # ExitChild /\ sent[j] # ExitChild /\ sent[i][1] = sent[j][1]
         => sent[i][2] < sent[j][2]
    /\ \A e \in Entry : \A k \in 1 .. line_num[e] :
         Found(e, k) => \/ \E i \in 1 .. Len(sent) : sent[i] = <<e, k>>
                        \/ pc[e] \in PutPc /\ k = line_num[e]

LEMMA WorkerInvInit == Init => WorkerInv /\ SentInv
  BY ThreadAssumption DEF Init, WorkerInv, SentInv, PutPc, Thread, Producer

LEMMA WorkerInvNext == TypeInv /\ StructInv /\ WorkerInv /\ [Next]_vars => WorkerInv'
  <1> SUFFICES ASSUME TypeInv, StructInv, WorkerInv, [Next]_vars PROVE WorkerInv'
    OBVIOUS
  <1>0. /\ pc \in [Thread -> ProducerPc \cup PrinterPc] /\ unread \subseteq Entry
        /\ line_num \in [Entry -> Nat] /\ \A e \in Entry : line_num[e] <= Len(Text[e])
        /\ \A e \in Entry : Len(Text[e]) \in Nat /\ pc[e] \in ProducerPc
    BY EntryAssumption DEF TypeInv, TypeOK, LineInv, Producer
  <1> USE <1>0, ThreadAssumption
      DEF WorkerInv, PutPc, StructInv, Alive, Thread, Producer, Step, Goto, Moves, SemStep, dirv
  <1>1. CASE CreatePrinter
    BY <1>1 DEF CreatePrinter
  <1>2. CASE OpenDir
    BY <1>2 DEF OpenDir
  <1>3. CASE OpenDirFails
    BY <1>3 DEF OpenDirFails, ExitProcess
  <1>4. CASE CloseDir
    BY <1>4 DEF CloseDir
  <1>5. CASE JoinWorker
    BY <1>5 DEF JoinWorker
  <1>6. CASE AllJoined
    BY <1>6 DEF AllJoined, AllJoinedBut
  <1>7. CASE JoinPrinter
    BY <1>7 DEF JoinPrinter
  <1>8. CASE DestroyBuffer
    BY <1>8 DEF DestroyBuffer
  <1>9. CASE Exit
    BY <1>9 DEF Exit, ExitProcess
  <1>30. CASE WriteFaults
    BY <1>30 DEF WriteFaults, ExitProcess
  <1>31. CASE CreatePrinterFails
    BY <1>31 DEF CreatePrinterFails
  <1>32. CASE JoinFaults \/ JoinPrinterFaults
    BY <1>32 DEF JoinFaults, JoinPrinterFaults, ExitProcess
  <1>33. ASSUME NEW e \in Entry, CreateWorkerFails(e) PROVE WorkerInv'
    BY <1>33 DEF CreateWorkerFails
  <1>10. ASSUME NEW e \in Entry, SkipEntry(e) PROVE WorkerInv'
    BY <1>10 DEF SkipEntry
  <1>11. ASSUME NEW e \in Entry, CreateWorker(e) PROVE WorkerInv'
    BY <1>11 DEF CreateWorker
  <1>12. ASSUME NEW e \in Entry, OpenFile(e) PROVE WorkerInv'
    <2>1. /\ pc[e] = "open" /\ line_num' = line_num /\ unread' = unread /\ failed' = failed
          /\ pc' = [pc EXCEPT ![e] = IF Kind[e] = "file" THEN "read" ELSE "done"]
      BY <1>12 DEF OpenFile, Searchable
    <2>2. line_num[e] = 0 /\ (Alive => ~Skipped(e) /\ e \notin failed)
      BY <2>1
    <2>3. pc'[e] = (IF Kind[e] = "file" THEN "read" ELSE "done") /\ pc'[Main] = pc[Main]
          /\ \A f \in Entry \ {e} : pc'[f] = pc[f]
      BY <2>1
    <2> QED
      BY <2>1, <2>2, <2>3
  <1>13. ASSUME NEW e \in Entry, ReadLine(e) PROVE WorkerInv'
    BY <1>13 DEF ReadLine
  <1>14. ASSUME NEW e \in Entry, EndOfFile(e) PROVE WorkerInv'
    BY <1>14 DEF EndOfFile
  <1>15. ASSUME NEW t \in Producer, WaitEmpty(t) PROVE WorkerInv'
    BY <1>15 DEF WaitEmpty
  <1>16. ASSUME NEW t \in Producer, WaitMutex(t) PROVE WorkerInv'
    BY <1>16 DEF WaitMutex
  <1>17. ASSUME NEW t \in Producer, Put(t) PROVE WorkerInv'
    BY <1>17 DEF Put
  <1>18. ASSUME NEW t \in Producer, PostMutex(t) PROVE WorkerInv'
    BY <1>18 DEF PostMutex
  <1>19. ASSUME NEW t \in Producer, PostFull(t) PROVE WorkerInv'
    BY <1>19 DEF PostFull, PostFullBy
  <1>20. CASE PrinterWaitFull
    BY <1>20 DEF PrinterWaitFull
  <1>21. CASE PrinterWaitMutex
    BY <1>21 DEF PrinterWaitMutex
  <1>22. CASE GetItem
    BY <1>22 DEF GetItem, GetFrom
  <1>23. CASE WaitBuf
    BY <1>23 DEF WaitBuf
  <1>24. CASE Write
    BY <1>24 DEF Write
  <1>25. CASE SignalBuf
    BY <1>25 DEF SignalBuf
  <1>26. CASE PrinterPostMutex
    BY <1>26 DEF PrinterPostMutex
  <1>27. CASE PrinterPostEmpty
    BY <1>27 DEF PrinterPostEmpty, PrinterPostEmptyBy
  <1>28. CASE OtherWaitBuf \/ OtherSignalBuf
    BY <1>28 DEF OtherWaitBuf, OtherSignalBuf
  <1>29. CASE UNCHANGED vars
    BY <1>29 DEF vars
  <1> HIDE DEF WorkerInv, StructInv, Alive, Thread, Producer, Step, Goto, Moves, SemStep
  <1> QED
    BY <1>1, <1>2, <1>3, <1>4, <1>5, <1>6, <1>7, <1>8, <1>9, <1>10, <1>11,
       <1>12, <1>13, <1>14, <1>15, <1>16, <1>17, <1>18, <1>19, <1>20, <1>21,
       <1>22, <1>23, <1>24, <1>25, <1>26, <1>27, <1>28, <1>29, <1>30,
       <1>31, <1>32, <1>33,
       NextCases, Zenon

LEMMA SentInvNext == TypeInv /\ StructInv /\ WorkerInv /\ SentInv /\ [Next]_vars => SentInv'
  <1> SUFFICES ASSUME TypeInv, StructInv, WorkerInv, SentInv, [Next]_vars PROVE SentInv'
    OBVIOUS
  <1>0. /\ pc \in [Thread -> ProducerPc \cup PrinterPc] /\ unread \subseteq Entry
        /\ line_num \in [Entry -> Nat]
        /\ sent \in Seq(Item) /\ Len(sent) \in Nat
    BY DEF TypeInv, TypeOK
  <1>a. \A i \in 1 .. Len(sent) : sent[i] # ExitChild => sent[i][1] \in Entry /\ sent[i][2] \in Nat
    BY <1>0 DEF Item, Line
  <1> USE <1>0, <1>a, ThreadAssumption
      DEF SentInv, PutPc, Alive, Thread, Producer, Step, Goto, Moves, SemStep, logs
  <1>1. CASE CreatePrinter
    BY <1>1 DEF CreatePrinter
  <1>2. CASE OpenDir
    BY <1>2 DEF OpenDir
  <1>3. CASE OpenDirFails
    BY <1>3 DEF OpenDirFails, ExitProcess
  <1>4. CASE CloseDir
    BY <1>4 DEF CloseDir
  <1>5. CASE JoinWorker
    BY <1>5 DEF JoinWorker
  <1>6. CASE AllJoined
    BY <1>6 DEF AllJoined, AllJoinedBut
  <1>7. CASE JoinPrinter
    BY <1>7 DEF JoinPrinter
  <1>8. CASE DestroyBuffer
    BY <1>8 DEF DestroyBuffer
  <1>9. CASE Exit
    BY <1>9 DEF Exit, ExitProcess
  <1>30. CASE WriteFaults
    BY <1>30 DEF WriteFaults, ExitProcess
  <1>31. CASE CreatePrinterFails
    BY <1>31 DEF CreatePrinterFails
  <1>32. CASE JoinFaults \/ JoinPrinterFaults
    BY <1>32 DEF JoinFaults, JoinPrinterFaults, ExitProcess
  <1>33. ASSUME NEW e \in Entry, CreateWorkerFails(e) PROVE SentInv'
    BY <1>33 DEF CreateWorkerFails
  <1>10. ASSUME NEW e \in Entry, SkipEntry(e) PROVE SentInv'
    BY <1>10 DEF SkipEntry
  <1>11. ASSUME NEW e \in Entry, CreateWorker(e) PROVE SentInv'
    <2>0. sent' = sent /\ line_num' = line_num
      BY <1>11 DEF CreateWorker
    <2>1. CASE Len(tids) < MaxTids
      <3>1. pc' = [pc EXCEPT ![e] = "open"]
        BY <1>11, <2>1 DEF CreateWorker
      <3>2. Alive => pc[e] = "none"
        BY <1>11 DEF CreateWorker, StructInv
      <3>3. Alive' = Alive
        BY <3>1
      <3>4. Alive => \A f \in Entry : (pc'[f] \in PutPc <=> pc[f] \in PutPc)
        BY <3>1, <3>2
      <3> QED
        BY <2>0, <3>3, <3>4 DEF SentInv
    <2>2. CASE ~(Len(tids) < MaxTids)
      BY <1>11, <2>2 DEF CreateWorker
    <2> QED
      BY <2>1, <2>2
  <1>12. ASSUME NEW e \in Entry, OpenFile(e) PROVE SentInv'
    BY <1>12 DEF OpenFile
  <1>13. ASSUME NEW e \in Entry, ReadLine(e) PROVE SentInv'
    <2>1. /\ sent' = sent /\ pc[e] = "read"
          /\ line_num' = [line_num EXCEPT ![e] = @ + 1]
          /\ pc' = [pc EXCEPT ![e] = IF Found(e, line_num[e] + 1) THEN "wait_empty" ELSE "read"]
      BY <1>13 DEF ReadLine
    <2>2. /\ Alive' = Alive /\ pc[e] \notin PutPc
          /\ \A f \in Entry \ {e} : (pc'[f] \in PutPc <=> pc[f] \in PutPc)
          /\ (pc'[e] \in PutPc <=> Found(e, line_num[e] + 1))
      BY <2>1
    <2>3. /\ line_num'[e] = line_num[e] + 1
          /\ \A f \in Entry \ {e} : line_num'[f] = line_num[f]
      BY <2>1
    <2> HIDE DEF PutPc, Alive
    <2> SUFFICES ASSUME Alive PROVE SentInv'
      BY <2>2 DEF SentInv
    <2>4. ASSUME NEW i \in 1 .. Len(sent), sent[i] # ExitChild
          PROVE  /\ sent[i][2] <= line_num'[sent[i][1]]
                 /\ pc'[sent[i][1]] \in PutPc => sent[i][2] < line_num'[sent[i][1]]
      <3>1. sent[i][2] <= line_num[sent[i][1]] /\ sent[i][1] \in Entry /\ sent[i][2] \in Nat
        BY <2>4
      <3>2. CASE sent[i][1] = e
        BY <3>1, <3>2, <2>3
      <3>3. CASE sent[i][1] # e
        BY <2>4, <3>1, <3>3, <2>3, <2>2
      <3> QED
        BY <3>2, <3>3
    <2>5. ASSUME NEW f \in Entry, NEW k \in 1 .. line_num'[f], Found(f, k)
          PROVE  \/ \E i \in 1 .. Len(sent) : sent[i] = <<f, k>>
                 \/ pc'[f] \in PutPc /\ k = line_num'[f]
      <3>1. CASE f # e
        BY <2>5, <3>1, <2>2, <2>3
      <3>2. CASE f = e /\ k = line_num[e] + 1
        BY <2>5, <3>2, <2>2, <2>3
      <3>3. CASE f = e /\ k # line_num[e] + 1
        <4>1. k \in 1 .. line_num[e]
          BY <3>3, <2>3
        <4> QED
          BY <4>1, <2>5, <3>3, <2>2
      <3> QED
        BY <3>1, <3>2, <3>3
    <2> QED
      BY <2>1, <2>4, <2>5
  <1>14. ASSUME NEW e \in Entry, EndOfFile(e) PROVE SentInv'
    BY <1>14 DEF EndOfFile
  <1>15. ASSUME NEW t \in Producer, WaitEmpty(t) PROVE SentInv'
    BY <1>15 DEF WaitEmpty
  <1>16. ASSUME NEW t \in Producer, WaitMutex(t) PROVE SentInv'
    BY <1>16 DEF WaitMutex
  <1>17. ASSUME NEW t \in Producer, Put(t) PROVE SentInv'
    <2>1. /\ sent' = Append(sent, ItemOf(t)) /\ pc[t] = "put" /\ line_num' = line_num
          /\ pc' = [pc EXCEPT ![t] = "post_mutex"]
      BY <1>17 DEF Put
    <2>2. ItemOf(t) \in Item
      BY <1>17, EntryAssumption DEF Put, TypeInv, LineInv, TypeOK, ItemOf, Item, Line
    <2>3. /\ Len(sent') = Len(sent) + 1 /\ sent'[Len(sent) + 1] = ItemOf(t)
          /\ \A i \in 1 .. Len(sent) : sent'[i] = sent[i]
      BY <2>1, <2>2
    <2>4. /\ Alive' = Alive /\ Alive
          /\ \A f \in Entry : (pc'[f] \in PutPc <=> f # t /\ pc[f] \in PutPc)
          /\ t \in Entry => pc[t] \in PutPc
      BY <2>1 DEF StructInv
    <2>5. CASE t = Main
      <3>1. ItemOf(t) = ExitChild
        BY <2>5 DEF ItemOf
      <3>2. \A f \in Entry : (pc'[f] \in PutPc <=> pc[f] \in PutPc)
        BY <2>4, <2>5
      <3> HIDE DEF PutPc, Alive
      <3>3. ASSUME NEW i \in 1 .. Len(sent'), sent'[i] # ExitChild
            PROVE  i \in 1 .. Len(sent) /\ sent'[i] = sent[i]
        BY <3>1, <2>3, <3>3
      <3>4. ASSUME NEW f \in Entry, NEW k \in 1 .. line_num[f], Found(f, k),
                   ~(pc[f] \in PutPc /\ k = line_num[f])
            PROVE  \E i \in 1 .. Len(sent') : sent'[i] = <<f, k>>
        <4>1. PICK i \in 1 .. Len(sent) : sent[i] = <<f, k>>
          BY <3>4, <2>4
        <4> QED
          BY <4>1, <2>3
      <3>5. ASSUME NEW i \in 1 .. Len(sent'), sent'[i] # ExitChild
            PROVE  /\ Found(sent'[i][1], sent'[i][2]) /\ sent'[i][2] <= line_num[sent'[i][1]]
                   /\ pc'[sent'[i][1]] \in PutPc => sent'[i][2] < line_num[sent'[i][1]]
        BY <3>5, <3>3, <3>2, <2>4
      <3>6. ASSUME NEW i \in 1 .. Len(sent'), NEW j \in 1 .. Len(sent'), i < j,
                   sent'[i] # ExitChild, sent'[j] # ExitChild, sent'[i][1] = sent'[j][1]
            PROVE  sent'[i][2] < sent'[j][2]
        BY <3>6, <3>3, <2>4
      <3> QED
        BY <2>1, <2>4, <3>2, <3>4, <3>5, <3>6
    <2>6. CASE t \in Entry
      <3>1. ItemOf(t) = <<t, line_num[t]>> /\ ItemOf(t) # ExitChild
        BY <2>6, <2>2, SentinelAssumption, EntryAssumption, <1>17
        DEF ItemOf, Put, TypeInv, LineInv, TypeOK, Line
      <3>2. ItemOf(t)[1] = t /\ ItemOf(t)[2] = line_num[t] /\ Found(t, line_num[t])
        BY <3>1, <2>4, <2>6 DEF WorkerInv
      <3> HIDE DEF PutPc, Alive
      <3>3. \A i \in 1 .. Len(sent) : sent[i] # ExitChild /\ sent[i][1] = t => sent[i][2] < line_num[t]
        BY <2>4, <2>6
      <3>4. ASSUME NEW i \in 1 .. Len(sent'), sent'[i] # ExitChild
            PROVE  /\ Found(sent'[i][1], sent'[i][2]) /\ sent'[i][2] <= line_num[sent'[i][1]]
                   /\ pc'[sent'[i][1]] \in PutPc => sent'[i][2] < line_num[sent'[i][1]]
        <4>1. CASE i \in 1 .. Len(sent)
          BY <4>1, <2>3, <2>4, <3>4
        <4>2. CASE i = Len(sent) + 1
          BY <4>2, <2>3, <2>4, <3>2, <2>6
        <4> QED
          BY <4>1, <4>2, <2>3
      <3>5. ASSUME NEW i \in 1 .. Len(sent'), NEW j \in 1 .. Len(sent'), i < j,
                   sent'[i] # ExitChild, sent'[j] # ExitChild, sent'[i][1] = sent'[j][1]
            PROVE  sent'[i][2] < sent'[j][2]
        <4>1. i \in 1 .. Len(sent)
          BY <3>5, <2>3
        <4>2. CASE j \in 1 .. Len(sent)
          BY <4>1, <4>2, <3>5, <2>3, <2>4
        <4>3. CASE j = Len(sent) + 1
          BY <4>1, <4>3, <3>5, <2>3, <3>2, <3>3
        <4> QED
          BY <4>2, <4>3, <2>3
      <3>6. ASSUME NEW f \in Entry, NEW k \in 1 .. line_num[f], Found(f, k)
            PROVE  \/ \E i \in 1 .. Len(sent') : sent'[i] = <<f, k>>
                   \/ pc'[f] \in PutPc /\ k = line_num[f]
        <4>1. CASE \E i \in 1 .. Len(sent) : sent[i] = <<f, k>>
          BY <4>1, <2>3
        <4>2. CASE pc[f] \in PutPc /\ k = line_num[f] /\ f # t
          BY <4>2, <2>4
        <4>3. CASE f = t /\ k = line_num[f]
          BY <4>3, <2>3, <3>1
        <4> QED
          BY <4>1, <4>2, <4>3, <3>6, <2>4
      <3> QED
        BY <2>1, <2>4, <3>4, <3>5, <3>6
    <2> QED
      BY <2>5, <2>6
  <1>18. ASSUME NEW t \in Producer, PostMutex(t) PROVE SentInv'
    BY <1>18 DEF PostMutex
  <1>19. ASSUME NEW t \in Producer, PostFull(t) PROVE SentInv'
    BY <1>19 DEF PostFull, PostFullBy
  <1>20. CASE PrinterWaitFull
    BY <1>20 DEF PrinterWaitFull
  <1>21. CASE PrinterWaitMutex
    BY <1>21 DEF PrinterWaitMutex
  <1>22. CASE GetItem
    BY <1>22 DEF GetItem, GetFrom
  <1>23. CASE WaitBuf
    BY <1>23 DEF WaitBuf
  <1>24. CASE Write
    BY <1>24 DEF Write
  <1>25. CASE SignalBuf
    BY <1>25 DEF SignalBuf
  <1>26. CASE PrinterPostMutex
    BY <1>26 DEF PrinterPostMutex
  <1>27. CASE PrinterPostEmpty
    BY <1>27 DEF PrinterPostEmpty, PrinterPostEmptyBy
  <1>28. CASE OtherWaitBuf \/ OtherSignalBuf
    BY <1>28 DEF OtherWaitBuf, OtherSignalBuf
  <1>29. CASE UNCHANGED vars
    BY <1>29 DEF vars
  <1> HIDE DEF SentInv, PutPc, Alive, Thread, Producer, Step, Goto, Moves, SemStep
  <1> QED
    BY <1>1, <1>2, <1>3, <1>4, <1>5, <1>6, <1>7, <1>8, <1>9, <1>10, <1>11,
       <1>12, <1>13, <1>14, <1>15, <1>16, <1>17, <1>18, <1>19, <1>20, <1>21,
       <1>22, <1>23, <1>24, <1>25, <1>26, <1>27, <1>28, <1>29, <1>30,
       <1>31, <1>32, <1>33,
       NextCases, Zenon

-----------------------------------------------------------------------------
(* At the end of ChildsPlay the printer has taken everything that was put   *)
(* and the sentinel was the last of it.                                     *)
LEMMA AllTaken ==
  ASSUME TypeInv, FifoInv, PrintInv, SentinelInv, Alive, pc[Printer] = "done"
  PROVE  /\ Len(rcvd) = Len(sent) /\ Len(sent) \in Nat \ {0} /\ sent[Len(sent)] = ExitChild
         /\ rcvd[Len(rcvd)] = ExitChild
         /\ \A i \in 1 .. Len(sent) - 1 : sent[i] # ExitChild /\ rcvd[i] = sent[i]
  <1>0. sent \in Seq(Item) /\ rcvd \in Seq(Item \cup {NoStr}) /\ Len(sent) \in Nat /\ Len(rcvd) \in Nat
    BY DEF TypeInv, TypeOK
  <1>1. rcvd # << >> /\ rcvd[Len(rcvd)] = ExitChild
    BY DEF PrintInv
  <1>2. Len(rcvd) \in 1 .. Len(sent) /\ \A i \in 1 .. Len(rcvd) : rcvd[i] = sent[i]
    BY <1>0, <1>1 DEF FifoInv, Fifo
  <1>3. Len(rcvd) = Len(sent)
    BY <1>1, <1>2 DEF SentinelInv
  <1>4. \A i \in 1 .. Len(sent) - 1 : sent[i] # ExitChild
    BY <1>0 DEF SentinelInv
  <1> QED
    BY <1>0, <1>1, <1>2, <1>3, <1>4

(* The invariant of the whole child.                                        *)
ChildInv ==
  /\ TypeInv /\ StructInv /\ Accounting /\ FifoInv /\ JoinInv /\ SentinelInv
  /\ PrintInv /\ WrittenInv /\ WorkerInv /\ SentInv

LEMMA ChildInvInit == Init => ChildInv
  BY TypeInvInit, StructInvInit, AccountingInit, FifoInvInit, JoinInvInit, SentinelInvInit,
     PrintInvInit, WorkerInvInit DEF ChildInv

LEMMA ChildInvNext == EmptyInit <= BufferSize /\ ChildInv /\ [Next]_vars => ChildInv'
  BY TypeInvNext, StructInvNext, AccountingNext, FifoInvNext, JoinInvNext, SentinelInvNext,
     PrintInvNext, WrittenInvNext, WorkerInvNext, SentInvNext DEF ChildInv

LEMMA ChildInvExact == ChildInv => ExactOutput
  <1> SUFFICES ASSUME ChildInv, pc[Main] \in {"destroy", "exit"}, Printer \notin failed
               PROVE  /\ {output[i] : i \in 1 .. Len(output)}
                           = {l \in Matching : Kind[l[1]] = "file" /\ l[1] \notin failed}
                      /\ \A i, j \in 1 .. Len(output) :
                           i < j /\ output[i][1] = output[j][1] => output[i][2] < output[j][2]
    BY DEF ExactOutput
  <1>1. Alive /\ pc[Printer] = "done" /\ pc[Main] \in Final
    BY DEF ChildInv, PrintInv, Alive, Final
  <1>2. /\ Len(rcvd) = Len(sent) /\ Len(sent) \in Nat \ {0} /\ sent[Len(sent)] = ExitChild
        /\ rcvd[Len(rcvd)] = ExitChild
        /\ \A i \in 1 .. Len(sent) - 1 : sent[i] # ExitChild /\ rcvd[i] = sent[i]
    BY <1>1, AllTaken DEF ChildInv
  <1>3. Len(output) = Len(sent) - 1 /\ \A i \in 1 .. Len(output) : output[i] = sent[i]
    <2>1. rcvd # << >>
      BY <1>2 DEF ChildInv, TypeInv, TypeOK
    <2> QED
      BY <1>1, <1>2, <2>1 DEF ChildInv, WrittenInv
  <1>4. \A e \in Entry : pc[e] \in {"none", "done"} /\ pc[e] \notin PutPc
    BY <1>1 DEF ChildInv, JoinInv, PutPc
  <1>5. \A i \in 1 .. Len(output) :
          /\ output[i] \in Line /\ Found(output[i][1], output[i][2])
          /\ 1 <= output[i][2] /\ output[i][2] <= line_num[output[i][1]]
    <2> TAKE i \in 1 .. Len(output)
    <2>1. i \in 1 .. Len(sent) /\ output[i] = sent[i] /\ sent[i] # ExitChild
      BY <1>2, <1>3
    <2>2. sent[i] \in Line
      BY <2>1 DEF ChildInv, TypeInv, TypeOK, Item
    <2>3. Found(sent[i][1], sent[i][2]) /\ sent[i][2] <= line_num[sent[i][1]]
      BY <1>1, <2>1 DEF ChildInv, SentInv
    <2>4. sent[i][2] >= 1
      BY <2>2, EntryAssumption DEF Line
    <2> QED
      BY <2>1, <2>2, <2>3, <2>4, EntryAssumption DEF Line
  <1>6. \A e \in Entry :
          /\ line_num[e] # 0 => Kind[e] = "file" /\ e \notin failed
          /\ Kind[e] = "file" /\ e \notin failed => line_num[e] = Len(Text[e])
    BY <1>1, <1>4 DEF ChildInv, WorkerInv, Skipped, Alive
  <1>7. ASSUME NEW i \in 1 .. Len(output)
        PROVE  output[i] \in {l \in Matching : Kind[l[1]] = "file" /\ l[1] \notin failed}
    <2>1. output[i][1] \in Entry /\ output[i][2] \in Nat
      BY <1>5, EntryAssumption DEF Line
    <2>2. line_num[output[i][1]] # 0
      BY <1>5, <2>1 DEF ChildInv, TypeInv, TypeOK
    <2> QED
      BY <1>5, <1>6, <2>1, <2>2 DEF Matching, Found
  <1>8. ASSUME NEW l \in Matching, Kind[l[1]] = "file", l[1] \notin failed
        PROVE  \E i \in 1 .. Len(output) : l = output[i]
    <2>1. l \in Line /\ l[1] \in Entry /\ l[2] \in 1 .. Len(Text[l[1]]) /\ l = <<l[1], l[2]>>
      BY EntryAssumption DEF Matching, Line
    <2>2. Found(l[1], l[2])
      BY DEF Matching, Found
    <2>3. l[2] \in 1 .. line_num[l[1]]
      BY <1>6, <1>8, <2>1
    <2>4. PICK i \in 1 .. Len(sent) : sent[i] = l
      <3>1. \E i \in 1 .. Len(sent) : sent[i] = <<l[1], l[2]>>
        BY <1>1, <1>4, <2>1, <2>2, <2>3 DEF ChildInv, SentInv
      <3> QED
        BY <2>1, <3>1
    <2>5. i # Len(sent)
      BY <1>2, <2>1, <2>4, SentinelAssumption
    <2> QED
      BY <1>2, <1>3, <2>4, <2>5
  <1>9. \A i, j \in 1 .. Len(output) :
          i < j /\ output[i][1] = output[j][1] => output[i][2] < output[j][2]
    <2> TAKE i, j \in 1 .. Len(output)
    <2>1. /\ i \in 1 .. Len(sent) /\ output[i] = sent[i] /\ sent[i] # ExitChild
          /\ j \in 1 .. Len(sent) /\ output[j] = sent[j] /\ sent[j] # ExitChild
      BY <1>2, <1>3
    <2> QED
      BY <1>1, <2>1 DEF ChildInv, SentInv
  <1> QED
    BY <1>7, <1>8, <1>9, Zenon

(* What ExactOutput says of output.txt, for every directory and text.       *)
THEOREM ExactCorrect == ASSUME EmptyInit <= BufferSize PROVE Spec => []ExactOutput
  <1>1. Spec => []ChildInv
    BY ChildInvInit, ChildInvNext, PTL DEF Spec
  <1> QED
    BY <1>1, ChildInvExact, PTL

-----------------------------------------------------------------------------
(* The ring implements the channel.                                         *)

(* A sequence that is another one with x behind it, or without its first.   *)
LEMMA AppendIs ==
  ASSUME NEW S, NEW s \in Seq(S), NEW u \in Seq(S), NEW x \in S, Len(u) = Len(s) + 1,
         \A k \in 1 .. Len(s) : u[k] = s[k], u[Len(s) + 1] = x
  PROVE  u = Append(s, x)
  <1>1. Append(s, x) \in Seq(S) /\ Len(Append(s, x)) = Len(u)
    OBVIOUS
  <1>2. \A k \in 1 .. Len(u) : u[k] = Append(s, x)[k]
    OBVIOUS
  <1> QED
    BY <1>1, <1>2, SeqEqual

LEMMA TailIs ==
  ASSUME NEW S, NEW s \in Seq(S), NEW u \in Seq(S), s # << >>, Len(u) = Len(s) - 1,
         \A k \in 1 .. Len(s) - 1 : u[k] = s[k + 1]
  PROVE  u = Tail(s)
  BY HeadTailProperties, SeqEqual

(* Unread, by the puts and the gets.                                        *)
UnreadIsRest ==
  /\ Unread \in Seq(Item) /\ Len(Unread) = Len(sent) - Len(rcvd)
  /\ \A k \in 1 .. Len(sent) - Len(rcvd) : Unread[k] = sent[Len(rcvd) + k]

LEMMA UnreadIs ==
  TypeInv /\ FifoInv /\ Printer \notin failed /\ pc[Main] \notin {"exit", "dead", "overrun"}
    => UnreadIsRest
  <1> SUFFICES ASSUME TypeInv, FifoInv, Printer \notin failed,
                      pc[Main] \notin {"exit", "dead", "overrun"}
               PROVE  UnreadIsRest
    OBVIOUS
  <1>0. /\ sent \in Seq(Item) /\ rcvd \in Seq(Item \cup {NoStr}) /\ Len(sent) \in Nat
        /\ Len(rcvd) \in Nat /\ Len(rcvd) <= Len(sent)
    BY DEF TypeInv, TypeOK, FifoInv, Fifo
  <1>1. \A k \in 1 .. Len(sent) - Len(rcvd) :
          buffer[Slot(cur_get, k - 1)] = sent[Len(rcvd) + k]
    <2> TAKE k \in 1 .. Len(sent) - Len(rcvd)
    <2>1. k - 1 \in 0 .. Len(sent) - Len(rcvd) - 1 /\ Len(rcvd) + 1 + (k - 1) = Len(rcvd) + k
      BY <1>0
    <2>2. buffer[Slot(cur_get, k - 1)] = sent[Len(rcvd) + 1 + (k - 1)]
      BY <2>1 DEF FifoInv, RingContents
    <2> QED
      BY <2>1, <2>2
  <1>2. Unread = [k \in 1 .. Len(sent) - Len(rcvd) |-> buffer[Slot(cur_get, k - 1)]]
    BY DEF Unread
  <1>3. Unread = [k \in 1 .. Len(sent) - Len(rcvd) |-> sent[Len(rcvd) + k]]
    BY <1>1, <1>2
  <1>4. \A k \in 1 .. Len(sent) - Len(rcvd) : sent[Len(rcvd) + k] \in Item
    BY <1>0
  <1> QED
    BY <1>0, <1>3, <1>4 DEF UnreadIsRest

(* Before the printer is created nothing has happened.                      *)
StartInv ==
  pc[Main] = "create" => /\ sent = << >> /\ rcvd = << >>
                         /\ \A t \in Thread \ {Main} : pc[t] = "none"

LEMMA StartInvInit == Init => StartInv
  BY DEF Init, StartInv

LEMMA StartInvNext == TypeInv /\ StartInv /\ [Next]_vars => StartInv'
  <1> SUFFICES ASSUME TypeInv, StartInv, [Next]_vars PROVE StartInv'
    OBVIOUS
  <1>0. pc \in [Thread -> ProducerPc \cup PrinterPc]
    BY DEF TypeInv, TypeOK
  <1> USE <1>0, ThreadAssumption
      DEF StartInv, Thread, Producer, Step, Goto, Moves, SemStep, logs
  <1>1. CASE CreatePrinter
    BY <1>1 DEF CreatePrinter
  <1>2. CASE OpenDir
    BY <1>2 DEF OpenDir
  <1>3. CASE OpenDirFails
    BY <1>3 DEF OpenDirFails, ExitProcess
  <1>4. CASE CloseDir
    BY <1>4 DEF CloseDir
  <1>5. CASE JoinWorker
    BY <1>5 DEF JoinWorker
  <1>6. CASE AllJoined
    BY <1>6 DEF AllJoined, AllJoinedBut
  <1>7. CASE JoinPrinter
    BY <1>7 DEF JoinPrinter
  <1>8. CASE DestroyBuffer
    BY <1>8 DEF DestroyBuffer
  <1>9. CASE Exit
    BY <1>9 DEF Exit, ExitProcess
  <1>30. CASE WriteFaults
    BY <1>30 DEF WriteFaults, ExitProcess
  <1>31. CASE CreatePrinterFails
    BY <1>31 DEF CreatePrinterFails
  <1>32. CASE JoinFaults \/ JoinPrinterFaults
    BY <1>32 DEF JoinFaults, JoinPrinterFaults, ExitProcess
  <1>33. ASSUME NEW e \in Entry, CreateWorkerFails(e) PROVE StartInv'
    BY <1>33 DEF CreateWorkerFails
  <1>10. ASSUME NEW e \in Entry, SkipEntry(e) PROVE StartInv'
    BY <1>10 DEF SkipEntry
  <1>11. ASSUME NEW e \in Entry, CreateWorker(e) PROVE StartInv'
    BY <1>11 DEF CreateWorker
  <1>12. ASSUME NEW e \in Entry, OpenFile(e) PROVE StartInv'
    BY <1>12 DEF OpenFile
  <1>13. ASSUME NEW e \in Entry, ReadLine(e) PROVE StartInv'
    BY <1>13 DEF ReadLine
  <1>14. ASSUME NEW e \in Entry, EndOfFile(e) PROVE StartInv'
    BY <1>14 DEF EndOfFile
  <1>15. ASSUME NEW t \in Producer, WaitEmpty(t) PROVE StartInv'
    BY <1>15 DEF WaitEmpty
  <1>16. ASSUME NEW t \in Producer, WaitMutex(t) PROVE StartInv'
    BY <1>16 DEF WaitMutex
  <1>17. ASSUME NEW t \in Producer, Put(t) PROVE StartInv'
    BY <1>17 DEF Put
  <1>18. ASSUME NEW t \in Producer, PostMutex(t) PROVE StartInv'
    BY <1>18 DEF PostMutex
  <1>19. ASSUME NEW t \in Producer, PostFull(t) PROVE StartInv'
    BY <1>19 DEF PostFull, PostFullBy
  <1>20. CASE PrinterWaitFull
    BY <1>20 DEF PrinterWaitFull
  <1>21. CASE PrinterWaitMutex
    BY <1>21 DEF PrinterWaitMutex
  <1>22. CASE GetItem
    BY <1>22 DEF GetItem, GetFrom
  <1>23. CASE WaitBuf
    BY <1>23 DEF WaitBuf
  <1>24. CASE Write
    BY <1>24 DEF Write
  <1>25. CASE SignalBuf
    BY <1>25 DEF SignalBuf
  <1>26. CASE PrinterPostMutex
    BY <1>26 DEF PrinterPostMutex
  <1>27. CASE PrinterPostEmpty
    BY <1>27 DEF PrinterPostEmpty, PrinterPostEmptyBy
  <1>28. CASE OtherWaitBuf \/ OtherSignalBuf
    BY <1>28 DEF OtherWaitBuf, OtherSignalBuf
  <1>29. CASE UNCHANGED vars
    BY <1>29 DEF vars
  <1> HIDE DEF StartInv, Thread, Producer, Step, Goto, Moves, SemStep
  <1> QED
    BY <1>1, <1>2, <1>3, <1>4, <1>5, <1>6, <1>7, <1>8, <1>9, <1>10, <1>11,
       <1>12, <1>13, <1>14, <1>15, <1>16, <1>17, <1>18, <1>19, <1>20, <1>21,
       <1>22, <1>23, <1>24, <1>25, <1>26, <1>27, <1>28, <1>29, <1>30,
       <1>31, <1>32, <1>33,
       NextCases, Zenon

(* A put sends.                                                             *)
LEMMA PutSends ==
  ASSUME EmptyInit <= BufferSize, ChildInv, ChildInv', NEW t \in Producer, Put(t),
         Printer \notin failed
  PROVE  Ch!Send(ItemOf(t)) /\ ItemOf(t) \in Item
  <1>0. TypeInv /\ FifoInv /\ StructInv /\ JoinInv /\ Accounting
    BY DEF ChildInv
  <1>a. TypeInv' /\ FifoInv'
    BY DEF ChildInv
  <1>1. /\ sent' = Append(sent, ItemOf(t)) /\ rcvd' = rcvd /\ failed' = failed
        /\ pc[t] = "put" /\ pc' = [pc EXCEPT ![t] = "post_mutex"]
    BY DEF Put, Step, Goto, dirv
  <1>2. /\ pc \in [Thread -> ProducerPc \cup PrinterPc] /\ sent \in Seq(Item) /\ Len(sent) \in Nat
        /\ rcvd \in Seq(Item \cup {NoStr}) /\ Len(rcvd) \in Nat /\ Len(rcvd) <= Len(sent)
    BY <1>0 DEF TypeInv, TypeOK, FifoInv, Fifo
  <1>3. ItemOf(t) \in Item
    BY <1>0, <1>1, <1>2, EntryAssumption DEF TypeInv, TypeOK, LineInv, Producer, ItemOf, Item, Line
  <1>4. pc[Main] \notin {"exit", "dead", "overrun"} /\ pc'[Main] \notin {"exit", "dead", "overrun"}
    BY <1>0, <1>1, <1>2, ThreadAssumption DEF StructInv, JoinInv, Final, Alive, Thread, Producer
  <1>5. UnreadIsRest
    BY <1>0, <1>4, UnreadIs
  <1>6. UnreadIsRest'
    <2>1. (TypeInv /\ FifoInv /\ Printer \notin failed
             /\ pc[Main] \notin {"exit", "dead", "overrun"})'
      BY <1>a, <1>1, <1>4
    <2> QED
      BY <2>1, UnreadIs, PTL
  <1>7. Len(Unread) < BufferSize
    BY <1>0, <1>1, <1>2, <1>5, PutHasRoom, SizeAssumption DEF UnreadIsRest
  <1>8. Unread' = Append(Unread, ItemOf(t))
    <2>0. Unread \in Seq(Item) /\ Unread' \in Seq(Item)
      BY <1>5, <1>6 DEF UnreadIsRest
    <2>1. Len(sent') = Len(sent) + 1 /\ sent'[Len(sent) + 1] = ItemOf(t)
          /\ \A i \in 1 .. Len(sent) : sent'[i] = sent[i]
      BY <1>1, <1>2, <1>3
    <2>2. Len(Unread') = Len(Unread) + 1
      BY <1>1, <1>2, <1>5, <1>6, <2>1 DEF UnreadIsRest
    <2>3. \A k \in 1 .. Len(Unread) : Unread'[k] = Unread[k]
      <3> TAKE k \in 1 .. Len(Unread)
      <3>1. k \in 1 .. Len(sent') - Len(rcvd') /\ k \in 1 .. Len(sent) - Len(rcvd)
        BY <1>1, <1>2, <1>5, <2>1 DEF UnreadIsRest
      <3>2. Unread'[k] = sent'[Len(rcvd') + k] /\ Unread[k] = sent[Len(rcvd) + k]
        BY <3>1, <1>5, <1>6 DEF UnreadIsRest
      <3>3. Len(rcvd) + k \in 1 .. Len(sent)
        BY <3>1, <1>2
      <3> QED
        BY <1>1, <2>1, <3>2, <3>3
    <2>4. Unread'[Len(Unread) + 1] = ItemOf(t)
      <3>1. Len(Unread) + 1 \in 1 .. Len(sent') - Len(rcvd') /\ Len(rcvd') + (Len(Unread) + 1) = Len(sent) + 1
        BY <1>1, <1>2, <1>5, <2>1 DEF UnreadIsRest
      <3>2. Unread'[Len(Unread) + 1] = sent'[Len(rcvd') + (Len(Unread) + 1)]
        BY <3>1, <1>6 DEF UnreadIsRest
      <3> QED
        BY <2>1, <3>1, <3>2
    <2> QED
      BY <1>3, <2>0, <2>2, <2>3, <2>4, AppendIs
  <1> QED
    BY <1>1, <1>3, <1>7, <1>8 DEF Ch!Send

(* A getitem receives.                                                      *)
LEMMA GetReceives ==
  ASSUME EmptyInit <= BufferSize, ChildInv, ChildInv', GetItem
  PROVE  Ch!Receive
  <1>0. TypeInv /\ FifoInv /\ StructInv /\ JoinInv /\ Accounting
    BY DEF ChildInv
  <1>a. TypeInv' /\ FifoInv'
    BY DEF ChildInv
  <1>1. /\ sent' = sent /\ rcvd' = Append(rcvd, buffer[cur_get]) /\ failed' = failed
        /\ pc[Printer] = "get" /\ pc'[Main] = pc[Main]
    BY <1>0, ThreadAssumption DEF GetItem, GetFrom, Goto, logs, dirv, TypeInv, TypeOK, Thread, Producer
  <1>2. /\ sent \in Seq(Item) /\ Len(sent) \in Nat /\ rcvd \in Seq(Item \cup {NoStr})
        /\ Len(rcvd) \in Nat /\ buffer[cur_get] \in Item \cup {NoStr}
        /\ cur_get \in 0 .. BufferSize - 1
    BY <1>0 DEF TypeInv, TypeOK
  <1>3. Len(rcvd) + 1 <= Len(sent)
    BY <1>0, <1>1, GetHasItem
  <1>4. pc[Main] \notin {"exit", "dead", "overrun"} /\ Printer \notin failed
    BY <1>0, <1>1 DEF StructInv, Alive, Thread
  <1>5. UnreadIsRest
    BY <1>0, <1>4, UnreadIs
  <1>6. UnreadIsRest'
    <2>1. (TypeInv /\ FifoInv /\ Printer \notin failed
             /\ pc[Main] \notin {"exit", "dead", "overrun"})'
      BY <1>a, <1>1, <1>4
    <2> QED
      BY <2>1, UnreadIs, PTL
  <1>7. Len(rcvd') = Len(rcvd) + 1
    BY <1>1, <1>2
  <1>8. Unread # << >> /\ Head(Unread) = Unread[1]
    <2>1. Unread \in Seq(Item) /\ Len(Unread) # 0
      BY <1>2, <1>3, <1>5 DEF UnreadIsRest
    <2> QED
      BY <2>1
  <1>9. Unread[1] = buffer[cur_get]
    <2>1. Slot(cur_get, 0) = cur_get
      BY <1>2, SizeAssumption DEF Slot
    <2>2. 0 \in 0 .. Len(sent) - Len(rcvd) - 1
      BY <1>2, <1>3
    <2>3. buffer[Slot(cur_get, 0)] = sent[Len(rcvd) + 1 + 0]
      BY <1>0, <1>4, <2>2 DEF FifoInv, RingContents
    <2> QED
      BY <1>2, <1>3, <1>5, <2>1, <2>3 DEF UnreadIsRest
  <1>10. Unread' = Tail(Unread)
    <2>0. Unread \in Seq(Item) /\ Unread' \in Seq(Item)
      BY <1>5, <1>6 DEF UnreadIsRest
    <2>1. Len(Unread') = Len(Unread) - 1
      BY <1>1, <1>2, <1>5, <1>6, <1>7 DEF UnreadIsRest
    <2>2. \A k \in 1 .. Len(Unread) - 1 : Unread'[k] = Unread[k + 1]
      <3> TAKE k \in 1 .. Len(Unread) - 1
      <3>1. k \in 1 .. Len(sent') - Len(rcvd') /\ k + 1 \in 1 .. Len(sent) - Len(rcvd)
        BY <1>1, <1>2, <1>5, <1>7 DEF UnreadIsRest
      <3>2. Unread'[k] = sent'[Len(rcvd') + k]
        BY <3>1, <1>6 DEF UnreadIsRest
      <3>3. Unread[k + 1] = sent[Len(rcvd) + (k + 1)]
        BY <3>1, <1>5 DEF UnreadIsRest
      <3>4. Len(rcvd') + k = Len(rcvd) + (k + 1)
        BY <1>2, <1>7, <3>1
      <3> QED
        BY <1>1, <3>2, <3>3, <3>4
    <2> QED
      BY <1>8, <2>0, <2>1, <2>2, TailIs
  <1> QED
    BY <1>1, <1>8, <1>9, <1>10 DEF Ch!Receive

(* Every step of the child sends, receives or leaves the channel alone.     *)
LEMMA RingStep ==
  EmptyInit <= BufferSize /\ ChildInv /\ ChildInv' /\ StartInv /\ [Next]_vars
    => [Ch!ChanNext]_<<Unread, rcvd>>
  <1> DEFINE G == [Ch!ChanNext]_<<Unread, rcvd>>
  <1> SUFFICES ASSUME EmptyInit <= BufferSize, ChildInv, ChildInv', StartInv, [Next]_vars
               PROVE  G
    OBVIOUS
  <1>0. ASSUME buffer' = buffer, cur_get' = cur_get, sent' = sent, rcvd' = rcvd,
               Printer \in failed' <=> Printer \in failed
        PROVE  G
    BY <1>0 DEF Unread
  <1> HIDE DEF G
  <1> USE <1>0, ThreadAssumption
      DEF Step, Goto, Moves, SemStep, dirv, ring, logs
  <1>1. CASE CreatePrinter
    BY <1>1 DEF CreatePrinter
  <1>2. CASE OpenDir
    BY <1>2 DEF OpenDir
  <1>3. CASE OpenDirFails
    BY <1>3 DEF OpenDirFails, ExitProcess
  <1>4. CASE CloseDir
    BY <1>4 DEF CloseDir
  <1>5. CASE JoinWorker
    BY <1>5 DEF JoinWorker
  <1>6. CASE AllJoined
    BY <1>6 DEF AllJoined, AllJoinedBut
  <1>7. CASE JoinPrinter
    BY <1>7 DEF JoinPrinter
  <1>8. CASE DestroyBuffer
    <2>1. sent' = sent /\ rcvd' = rcvd /\ failed' = failed /\ pc[Main] = "destroy"
      BY <1>8 DEF DestroyBuffer
    <2>2. CASE Printer \in failed
      BY <2>1, <2>2 DEF G, Unread
    <2>3. CASE Printer \notin failed
      <3>1. Len(rcvd) = Len(sent) /\ Len(sent) \in Nat
        BY <2>1, <2>3, AllTaken DEF ChildInv, PrintInv, Alive
      <3>2. Unread = << >> /\ Unread' = << >>
        BY <2>1, <2>3, <3>1 DEF Unread
      <3> QED
        BY <2>1, <3>2 DEF G
    <2> QED
      BY <2>2, <2>3
  <1>9. CASE Exit
    BY <1>9 DEF Exit, ExitProcess
  <1>30. CASE WriteFaults
    BY <1>30 DEF WriteFaults, ExitProcess
  <1>31. CASE CreatePrinterFails
    <2>1. sent' = << >> /\ rcvd' = << >> /\ sent = << >> /\ rcvd = << >>
      BY <1>31 DEF CreatePrinterFails, StartInv
    <2>2. Unread = << >> /\ Unread' = << >>
      BY <2>1 DEF Unread
    <2> QED
      BY <2>1, <2>2 DEF G
  <1>32. CASE JoinFaults \/ JoinPrinterFaults
    BY <1>32 DEF JoinFaults, JoinPrinterFaults, ExitProcess
  <1>33. ASSUME NEW e \in Entry, CreateWorkerFails(e) PROVE G
    BY <1>33 DEF CreateWorkerFails
  <1>10. ASSUME NEW e \in Entry, SkipEntry(e) PROVE G
    BY <1>10 DEF SkipEntry
  <1>11. ASSUME NEW e \in Entry, CreateWorker(e) PROVE G
    BY <1>11 DEF CreateWorker
  <1>12. ASSUME NEW e \in Entry, OpenFile(e) PROVE G
    BY <1>12 DEF OpenFile
  <1>13. ASSUME NEW e \in Entry, ReadLine(e) PROVE G
    BY <1>13 DEF ReadLine
  <1>14. ASSUME NEW e \in Entry, EndOfFile(e) PROVE G
    BY <1>14 DEF EndOfFile
  <1>15. ASSUME NEW t \in Producer, WaitEmpty(t) PROVE G
    BY <1>15 DEF WaitEmpty
  <1>16. ASSUME NEW t \in Producer, WaitMutex(t) PROVE G
    BY <1>16 DEF WaitMutex
  <1>17. ASSUME NEW t \in Producer, Put(t) PROVE G
    <2>1. CASE Printer \in failed
      BY <1>17, <2>1 DEF Put, G, Unread
    <2>2. CASE Printer \notin failed
      BY <1>17, <2>2, PutSends DEF G, Ch!ChanNext
    <2> QED
      BY <2>1, <2>2
  <1>18. ASSUME NEW t \in Producer, PostMutex(t) PROVE G
    BY <1>18 DEF PostMutex
  <1>19. ASSUME NEW t \in Producer, PostFull(t) PROVE G
    BY <1>19 DEF PostFull, PostFullBy
  <1>20. CASE PrinterWaitFull
    BY <1>20 DEF PrinterWaitFull
  <1>21. CASE PrinterWaitMutex
    BY <1>21 DEF PrinterWaitMutex
  <1>22. CASE GetItem
    BY <1>22, GetReceives DEF G, Ch!ChanNext
  <1>23. CASE WaitBuf
    BY <1>23 DEF WaitBuf
  <1>24. CASE Write
    BY <1>24 DEF Write
  <1>25. CASE SignalBuf
    BY <1>25 DEF SignalBuf
  <1>26. CASE PrinterPostMutex
    BY <1>26 DEF PrinterPostMutex
  <1>27. CASE PrinterPostEmpty
    BY <1>27 DEF PrinterPostEmpty, PrinterPostEmptyBy
  <1>28. CASE OtherWaitBuf \/ OtherSignalBuf
    BY <1>28 DEF OtherWaitBuf, OtherSignalBuf
  <1>29. CASE UNCHANGED vars
    BY <1>29 DEF vars
  <1> HIDE DEF Step, Goto, Moves, SemStep
  <1> QED
    BY <1>1, <1>2, <1>3, <1>4, <1>5, <1>6, <1>7, <1>8, <1>9, <1>10, <1>11,
       <1>12, <1>13, <1>14, <1>15, <1>16, <1>17, <1>18, <1>19, <1>20, <1>21,
       <1>22, <1>23, <1>24, <1>25, <1>26, <1>27, <1>28, <1>29, <1>30,
       <1>31, <1>32, <1>33,
       NextCases, Zenon

(* Every run of the child with its ring and its semaphores is a run of a    *)
(* first-in first-out channel of BUFFERSIZE places.                         *)
THEOREM RingRefines == ASSUME EmptyInit <= BufferSize PROVE Spec => RingIsChannel
  <1>1. Init => Ch!ChanInit
    BY DEF Init, Ch!ChanInit, Unread
  <1>2. Spec => [](ChildInv /\ StartInv)
    <2>1. ChildInv /\ StartInv /\ [Next]_vars => (ChildInv /\ StartInv)'
      BY ChildInvNext, StartInvNext DEF ChildInv
    <2> QED
      BY <2>1, ChildInvInit, StartInvInit, PTL DEF Spec
  <1> QED
    BY <1>1, <1>2, RingStep, PTL DEF Spec, RingIsChannel, Ch!ChanSpec
=============================================================================
