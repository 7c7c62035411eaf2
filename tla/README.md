# A verification project for the CSE420 keyword-search server

The repository holds the course work of an operating-systems class. Its largest
program is project 3 (`BlackBoxTestingFull_P3`): a server that takes search
requests from clients through a shared-memory segment, forks a child for each
request, and lets a child's threads search the files of a directory and append the
lines with the keyword to `output.txt`. Project 2 (`Lin/pardirlist`,
`Project2-5243528`) lists a directory tree and counts a keyword in every file,
with a thread per entry; project 1 (`Lin/dirlist`) only lists. This project models
these programs in TLA+, checks them with TLC on small instances and proves their
safety properties and refinements, for instances of any size, with TLAPS.

## 1. Inventory

| Component | State | Operations | Interacts through |
|---|---|---|---|
| Search child, `server-rev1.c` | ring `buffer`, `cur_put`, `cur_get`, POSIX semaphores `empty`, `full`, `mutex`, `tids`, `threadCount` | `ChildsPlay`, `openDir`, `Worker`, `search_test`, `Printer`, `put`, `getitem`, `fileWriter`, `joinThreads`, `destroyBuffer` | the ring (workers to printer), `SEMbuf` and `output.txt` (printers of all children), `SEMfr` (children of one directory) |
| Server main, `server-rev1.c` | segment `shm`, `RQptr`, `curItem`, `n`, `SEMrq`, `SEMfr` | `main` (loop, fork, recursion, wait), `init_shm`, `charcount`, `dequeueItem` | the segment (clients to server), fork (children inherit `curItem` and `SEMfr`) |
| Client, `client-rev1.c` | its input file, `Request` | `main`, `get_shm`, `readfile`, `parseReq`, `AddReq` | the segment under `SEMrq` |
| System V semaphores | value and undo value of each | `sem_ini`, `waits`, `signals`, undo at the end of a process | `SEMrq`, `SEMfr`, `SEMbuf` |
| `server.c`, `client.c`, the version the Makefile builds (also under `calc/BlackBoxTesting`) | as above without the ring | as above; `init_file`; a worker calls `fileWriter` itself | as above; `output.txt` and `SEMbuf` outlive a server, and the workers of all children of all servers share them |
| Parallel lister, `Lin/pardirlist/pardirlist.c` | list of nodes (`path`, `level`, `i`, `search`), list of thread ids | `open_dir`, `insert_sorted`, `makeThread`, `keyword_search`, `addTID`, `joinThreads`, `node_swap`, `sub_level`, `print_list` | a thread and `main` share a node |
| Parallel lister, `Project2-5243528/pardirlist.c` | list of nodes that point to items, `totalMatches` | `printDirSeq`, `printDirPar`, `AddPath`, `StartSearch`, `search_test`, `SortHelper`, `NumberChildren`, `fileWriter` | a thread and `main` share an item; all threads share `totalMatches` |
| `Lin/pardirlist/pardirlist_rev1.c` | as `pardirlist.c` | as `pardirlist.c` | as `pardirlist.c` |
| Sequential lister, `Lin/dirlist/dirlist.c` | doubly linked list of nodes (`path`, `level`, `i`, `next`, `prev`), `head`, `tail` | `open_dir`, `insert_sorted`, `node_swap`, `sub_level`, `print_list`, `destroy_list` | none |
| Sequential lister with items, `dirlist/BlackBoxTesting/dirlist.c` | as `Project2-5243528/pardirlist.c` | its sequential mode without the search | none |
| Exercises: `buffer/`, `DLL/`, `2darray/`, `calc/`, `Virtual Memory/`, `LectureExample/` | small | single algorithms, handouts | none |

The trees `linux-master`, `man-pages-master` and `final-src` are the data the
programs are run over; they are not code of this system.

What is hard, and what makes each part correct:

* **Ring.** Any number of workers put, one printer takes. Correct means: one
  thread at a time inside, no slot overwritten before it is read or read before
  it is written, no semaphore token lost or made.
* **Child.** The end of the search is announced through the ring itself. Correct
  means: the sentinel is the last item, the ring is freed when nobody can touch
  it, `output.txt` gets exactly the matching lines, and the child ends although
  the printer waits for `SEMbuf` with `mutex` held.
* **Segment.** The clients exclude each other with `SEMrq`, the server excludes
  nobody: it scans and rewrites the text while `AddReq` runs. Correct means:
  requests are received whole, once and in order; `exit` is seen by everybody and
  never taken for a request.
* **Semaphores across processes.** They outlive processes; `SEM_UNDO` and SETVAL
  interact. Correct means: no second client is let in by a start, an end or a
  kill, and no child waits for ever for a directory.
* **Output file.** A server does not wait for its children, so children of one
  run meet the next run's server, which removes `output.txt` and resets
  `SEMbuf`; `clean_os.sh` removes the semaphore altogether. Correct means: one
  worker writes at a time, a file's lines stay together, none is lost, and every
  child ends, whoever dies with the semaphore.
* **Listers.** Threads search while `main` walks, sorts and prints the same list.
  Correct means: every path is listed once, in order, numbered, and with its own
  count, whatever the threads' speed; nothing a thread uses is freed under it; the
  list stays linked in both directions, and its nodes are freed once.

`PROJECT.json` lists these hazards at their lines.

## 2. Modules

| Module | Models | |
|---|---|---|
| `Channel` | the abstract specification: a bounded first-in first-out channel | |
| `SearchChild` | one child process, thread by thread | refines `Channel` (`RingIsChannel`) |
| `SysVSem` | System V semaphores with undo | instantiated by `RequestQueue` and `OutputFile` |
| `RequestQueue` | clients, server main process, life of the children, segment | refines `Channel` (`SegmentIsChannel`) |
| `OutputFile` | `server.c`: servers one after the other, their children, the workers that append to `output.txt` | |
| `Lister` | the abstract specification of a lister: directories are opened from the root down, then each line is the next path of the tree | |
| `DirTree` | what the listers share: tree, search of a file, insertion by depth, numbering | extended by all of them |
| `DirList` | `Lin/dirlist/dirlist.c` with its pointers | refines `Lister` (`IsLister`) |
| `ParDirList` | `Lin/pardirlist/pardirlist.c` | refines `Lister` (`IsLister`) |
| `ParDirListItems` | `Project2-5243528/pardirlist.c` | refines `Lister` (`IsLister`) |
| `MC_SearchChild`, `MC_RequestQueue`, `MC_OutputFile`, `MC_DirList`, `MC_ParDirList`, `MC_ParDirListItems` | the instances TLC checks | |
| `SearchChild_proofs`, `SearchChildOutput_proofs` | theorems about the ring and the life of a child; about its output and the refinement of `Channel` | the second extends the first |
| `RequestQueue_proofs`, `OutputFile_proofs` | theorems about the queue and the output file | |
| `DirTree_proofs` | lemmas about trees, sorted lists and the walk | extended by the next three |
| `DirList_proofs`, `ParDirList_proofs`, `ParDirListItems_proofs` | theorems about the listers | |

Operators whose name says what is wrong with them (`SwapBackSkips`, `RecheckDropped`,
`PrinterSkipsMutex`, ...) stand in front of the definition they vary. No
specification uses them: each is a plausible mistake in that definition, and with
it in the definition's place TLC refutes the property that `mutants` in
`PROJECT.json` names.

### SearchChild

`pc[t]` is the next statement of a thread: `Main` runs `ChildsPlay` and `openDir`,
each entry of the directory names its worker, `Printer` runs `Printer`. Every
`sem_wait`, `sem_post`, `waits` and `signals` is an action; `put`, `getitem` and
the body of `fileWriter` run under a lock and are one action each. The producer's
five statements (`WaitEmpty` ... `PostFull`) occur twice in the source, in
`search_test` (428-432) and for the sentinel in `ChildsPlay` (280-284), and once
in the model, with the thread as the parameter.

A line is the pair of its file and its number, which is what `sprintf` makes
unique in it; its words are model values, because `search_test` only compares
whole words. The flag `found` (426), set by a word and reset where its line is
put, is the predicate `Found` of a line, so the model has no flag that could be
left over. `Kind` says what `readdir`, `opendir` and `fopen` answer for an entry.
The array `tids` has `MaxTids` places; the write behind its end is the state
`overrun`, where the model stops. `sent` and `rcvd` are histories. The printers of
other children are the two actions on `SEMbuf` with the value `"other"`. Every end
of the process (`exit(-1)` in `openDir`, `exit(1)`, the NULL that `fileWriter`
hands to `fprintf` when `fopen` fails) ends all threads at once. A
`pthread_create` may fail: a worker's id is then the one of the worker before, or
none if there was none (`NoTid`), and the join of an id that was joined before or
never assigned faults (`JoinFaults`) or returns. The same holds for the printer
(`CreatePrinterFails`, `JoinPrinterFaults`).

### RequestQueue

The text in the segment is a sequence of cells: the header (it ends in `>`), a
request, or one of the characters the scans look for. `AddReq` is four actions
(scan, `memcpy` with its NUL over the old `<`, `>`, new `<`); between them the
segment has no end mark. All of the server's looks at the segment are steps of
their own: the loop condition, `charcount`, the second test for `exit`,
`dequeueItem`, the tests before and after `fork`. `dequeueItem` is one step: it
works from right to left on bytes that only it changes, and the `>` on which a
client's scan depends is overwritten by the header's own `>`. Its copy of the
request is exact in the model. The code does not end `str` with a NUL before
`strdup`, so a tail of an older string may follow the keyword where `malloc`
returns a used chunk; that is data, on which no step depends. The three looks for
`exit` around a `fork` that is not made (143, 145, 148) are one step, since `exit`
stays once it is there. A `charcount` that
leaves the segment is undefined: it faults, or returns any number and sets the
history variable `wild`. The segment has `SegSize` cells; a scan of `AddReq` or a
`memcpy` that passes them faults as well, or writes where nobody looks.

A client or the server may be killed at any step; the kernel undoes its waits and
signals. `ServerRestarts` starts a server on what the last one left: `init_shm`
writes its header and `<` over the first bytes only and sets `SEMrq` to 0 whoever
holds it (history variable `overlap`). A kill between the writes of `dequeueItem`
is not distinguished: it is one step. `fork` may fail; `main` takes the -1 for a
parent's answer and goes on without the request (history variable `lost`).

The recursion of `main` is the step `Recurse` back to the loop with `n` zero. A
child is named by its request. `fullbuf`, `emptybuf` and `mutexbuf` are never
assigned, so the three `sem_ini` of `ChildsPlay` set the semaphore the kernel
numbered 0; the constant `SemIdZero` says which one that is, if it is one of the
program's. Semaphores carry their undo values: `SetVal` clears them for every
process, as the kernel does, and `Undo` never makes a value negative.

### OutputFile

`spc` is the next statement of the running server, `starts` says which server it
is. `content[i]` are the lines of the i-th file that was ever named `output.txt`:
`InitFile` (`remove`) only moves the name `out` on, so a worker that has the old
file open (`fd`) writes to that one, and the next `fopen` makes a new one.
`fprintf` and `fclose` hand the text to the kernel in several writes, one line per
step here; where two workers write at once, which only a broken semaphore allows,
a block of stdio may also end inside a line, which the model does not show. `set`
is the semaphore set behind the key 0x7171; `CleanOs` (`clean_os.sh`) removes it,
after which `waits` and `signals` of older children fail at once, and nobody looks
at their results. It removes the segment too; that a child of the old server still
has it attached, and may see `exit` there, is left out, so in the model such a
child may also go on. `broken` is a history variable: a set was removed or set to
1 while a worker was inside `fileWriter`.

The end of a child, by `exit(1)`, `exit(-1)` in `openDir`, the `fprintf` through
NULL or a signal, ends its threads and undoes its semaphore operations. `SEMfr`
and the text of the segment are left to `RequestQueue`; here a server forks its
children in any order until it sees `exit`. As every recursive call of `main` has
its own `n`, only the call that has just forked waits, and for one child.

### DirList and Lister

`Lister` knows which directories could be opened and which lines are printed. Its
one important step, `List`, appends the least of the paths still waiting, by
depth and then by `strcmp`, with its depth and its number within the depth.

`DirList` implements it with the nodes' pointers. A node is named by the path it
was created for; `next`, `prev`, `head` and `tail` are variables, and the loops
over the list are steps that move `tmp`. The three cases of an insertion are
`Before` and `After`; as in the source, the case at the end uses `list->tail` and
not the scan's pointer. Each call of `insert_sorted` also allocates a node to
which only its own, then shadowed, `tmp` points (54): `live` are the nodes
`create_node` allocated, `spare` those. The loop of `destroy_list` is the steps
`TakeNode`, `ReadNext` and `FreeNode`, in the order `Body` gives. (The case at the
head cannot happen: the root is there first and has the smallest depth.)

### ParDirList and ParDirListItems

`stack` holds the recursive calls that walk the tree, each with the entries
`readdir` has still to return, in any order; `opendir` may refuse any directory.
A path is a model value, `Rank` is the order `strcmp` gives. `Passed` and
`PlaceOf` are the scan and the three cases of `insert_sorted` and `AddPath`.

In `ParDirList` a node is named by the path it was created for, and `node_swap`
moves contents between nodes, in three steps, since a thread may store its result
in the node between them. A string that `node_swap` frees while a thread works
with it (`freed`) may hold anything: the thread then stores the count of any path,
or -1. The thread list is kept newest first, as `addTID` does, and `joinThreads`
stops in front of its last element. `late` is a history variable: a thread that is
never joined was still running when the sort began. With an `argv[4]` that is
neither 0 nor 1 threads are started and none is joined. A path whose
`pthread_create` failed (`"failed"`) keeps -69.

In `ParDirListItems` the sort exchanges pointers and a thread keeps its item, so
the two do not meet; what the threads share is `totalMatches`, whose increment is
a load (`LoadTotal`) and a store (`AddTotal`). The root has no thread; joining its
uninitialised `tid` faults (`JoinFaults`) or returns an error, and so does the
second join of an id that stands in for a thread that could not be created. A
garbage id that happens to name a running thread, so that the join blocks, is left
out. `keyword_search` takes every directory for one that its own `opendir` accepts,
also where the walk's `opendir` refused it; otherwise it would return what `fopen`
and `fgets` make of a directory. No property depends on that value.

## 3. Runs

| Run | Checks | Shows |
|---|---|---|
| `child` | `TypeOK`, `MutualExclusion`, `Fifo`, `Accounting`, `ExactOutput`, `QuietAtDestroy`, `SentinelLast`, `RingIsChannel`, `Terminates` | with `empty` no larger than the ring, a child is correct |
| `child_buffer_of_one` | `Fifo` violated | `sem_init(&empty, 0, 10)` with fewer than ten places overwrites lines |
| `queue` | `TypeOK`, `ExitStays`, `FreshItem`, `SegmentIsChannel`, `RequestServed`, `ExitObeyed`, `ClientsGetQueue` | the segment is a channel although the server takes no lock; nobody waits for ever; a request gets its child or is lost to a failed `fork`, and later ones are still served |
| `queue_faults` | `ClientExclusion`, `AtMostOnce`, `PlaceIsEnd` | through a kill of a client or of the server, a restart on the old segment and the end of the segment, clients exclude each other unless `SEMrq` is reset under one, and nothing is dequeued twice |
| `queue_crash` | `ServerSurvives` violated | `charcount` between `memcpy` and the new `<` leaves the segment |
| `queue_dir_lock` | `DirectoryExclusion` violated | SETVAL on `SEMfr` at each dequeue defeats the directory lock |
| `output` | `TypeOK`, `WriterExclusion`, `Unmixed`, `WholeOutput`, `OwnOrLate`, `ChildrenEnd` | one worker writes at a time and a file's lines stay together unless the semaphore was taken from under a worker; what a joined worker found is in one file, once, even then; no child waits for `SEMbuf` for ever |
| `output_own` | `OwnOutput` violated | a server returns before its children, and they write into the next run's `output.txt` |
| `dirlist` | `TypeOK`, `Linked`, `Released`, `IsLister`, `Terminates` | the pointer list is consistent for every order of `readdir`, and sorting by exchange of paths prints the listing; `destroy_list` frees every node of the list, none twice, and reads none it has freed; one node per `insert_sorted` stays |
| `lister` | `TypeOK`, `CountsIfJoined`, `IsLister`, `Terminates` | the listing is complete, ordered and numbered in every mode; counts are right unless a thread that is not joined is late |
| `lister_counts` | `CountsExact` violated | the first thread is not joined, and a line gets a wrong count |
| `lister_items` | `TypeOK`, `CountsExact`, `QuietAtExit`, `TotalBounded`, `IsLister`, `Terminates` | joining before each line makes listing and counts exact; `totalMatches` is never too large |

**Bounds.** `child`: four entries, of which two files with lines that match
twice, once and not at all, a link to a directory and a hidden one; four items go
through a ring of two places, so the ring fills, drains and wraps twice.
`EmptyInit` stands for the literal 10 and `MaxTids` for the literal 20; the runs
keep their relation to the sizes, not their values. `queue`: a client with two
requests for one directory, one with `exit`, which may never be started, and no
kills; the segment holds all of it. `queue_faults`: two clients with a request
each for directories of their own, a segment of five cells, which the second
request overruns, `MaxKills` = 1 killed client and `MaxRestarts` = 1 restart, in
any order; a second restart would find nothing the first does not. The semaphore
of a directory has the number 0 there, so the SETVALs of `ChildsPlay` hit it.
`output`: `MaxServers` = 2, since what is at stake is a server on the traces of
another, `MaxKills` = 1, `MaxCleans` = 1, two children with a worker each, one of
which writes two lines, so that it can die or lose the semaphore in the middle of
its text. Two workers of one child share the child's undo value; exclusion and
`Unmixed` are proved for them. Deadlock is not checked for the queue and the
output file, since blocking is part of them: when the server has ended, clients
wait for `SEMrq` for ever. `dirlist`: a root with two subdirectories and a file,
three entries below them, in every order. `lister`: `argv[4]` is 0, 1 or 2
(`Modes`), and three entries of one depth with different counts, since in mode 2
all their threads run beside the sort. `lister_items`: a root with a subdirectory,
an unreadable file and a file with the keyword twice, and below the subdirectory
one more file, a link to a directory and a hidden one; two depths are what the
insertion, which both share, has to keep apart while `readdir` returns the
subdirectory first, second or last, and three matches in two files make the race
on `totalMatches`. Three entries of one depth need up to three passes of the sort.
`MaxFails` = 1 thread may fail to start. Deadlock is not checked for the listers,
as a finished process has no step; that they finish is `Terminates`.

**Met on the way, without a run.** A directory with more files than `tids` has
places takes `SearchChild` to the state `overrun` (server-rev1.c:364). With
`SemIdZero` = `SEMrq` a child's SETVAL lets a second client in (259), which is why
the theorem on exclusion excludes it. `exit` overtakes the requests in front of it
(131), so `RequestServed` excepts a server that sees it. `insert_sorted` leaks a node
in every call (Lin/dirlist/dirlist.c:54). Two increments of
`totalMatches` that meet become one (Project2-5243528/pardirlist.c:63). An
`argv[4]` of 2 is announced as "Sequential Search" and has threads
(Lin/pardirlist/pardirlist.c:280, 368).

**Fairness.** Weak fairness of each thread or process: the kernel schedules what
can run. Strong fairness where a step may be the wait on a System V semaphore: a
client and a child of the queue, a worker of the output file, the printer's
`WaitBuf`. The kernel keeps the waiters of such a semaphore in a queue and serves
them in order, so one that could go again and again does. The POSIX semaphores
get no strong fairness. Starting a client or a server, kills, `exit`,
`clean_os.sh` and the other children's taking of `SEMbuf` are not fair; their
giving it back is, by `SEM_UNDO`. The listers need weak fairness of `main` and of
each thread only.

## 4. Proofs

Every invariant of the passing runs and every refinement is a theorem. Each is
proved in the same way: an inductive invariant, stated as named parts, holds
initially and is kept by every action (one step of the proof per action), and the
property follows from it. TLC checked each invariant on the instance of the run
before it was proved. Constants are unbounded: the theorems hold for
any number of clients, children, threads, files and lines.

### The search child

`SearchChild_proofs`, for every directory, every text, all sizes and every
`pthread_create` that fails:

* `TypeCorrect`: `Spec => []TypeOK`. `TypeOK` alone is not inductive: that what a
  worker puts is a line of its file needs `LineInv` (a worker on its way to `put`
  has read at least one line and at most all).
* `MutexCorrect`: `Spec => []MutualExclusion`, from `MutexInv`: a thread inside
  means `mutex = 0`, and `mutex` is at most 1.
* `AccountingCorrect`: `Spec => []Accounting`. It needs `StructInv` (all threads
  end together, a worker does not run before its entry is read, the printer runs
  from its creation until before `destroyBuffer`) and one lemma per way in which
  a step moves a thread in or out of the sets of token holders.
* `FifoCorrect`: `EmptyInit <= BufferSize` implies `Spec => []Fifo`. The
  inductive invariant adds where the unread items lie (`RingContents`). `Accounting`
  gives the two facts the steps need: a thread about to put holds a token of
  `empty`, so there is a free place (`PutHasRoom`); the printer about to take
  holds one of `full`, so there is an item (`GetHasItem`). The assumption is the
  relation the literal 10 breaks, and the run `child_buffer_of_one` shows it is
  needed.
* `QuietCorrect`: `Spec => []QuietAtDestroy`, from `JoinInv`: every worker that
  ever started is named in `tids`, although a failed creation records the id of the
  worker before; those in front of `joined` have ended, so all have when the
  sentinel is put.
* `SentinelCorrect`: `Spec => []SentinelLast`. `SentinelInv` says where `main` is
  once the sentinel is in; by `JoinInv` nobody is left to put a line behind it.

`SearchChildOutput_proofs`, under `EmptyInit <= BufferSize`:

* `ExactCorrect`: `Spec => []ExactOutput`. What was put is, of every file, the
  matching lines read so far but for one on its way to `put` (`WorkerInv`,
  `SentInv`); what was taken is a prefix of it (`Fifo`); what was written is what
  was taken (`PrintInv`, `WrittenInv`); and the printer ends only with the
  sentinel, which is last. The lines are stated as a set with an order between
  any two, not with `SelectSeq`, so that no induction over sequences is needed.
* `RingRefines`: `Spec => RingIsChannel`. Every `put` is a `Send`, every `getitem`
  a `Receive`, every other step a stutter; that there is room and that the item
  is the oldest is `PutHasRoom`, `GetHasItem` and `Fifo`. Before the printer is
  created nothing has happened (`StartInv`).

### The request queue

`RequestQueue_proofs`, for any clients and scripts, kills and restarts unless said
otherwise:

* `ExclusionCorrect`: `SemIdZero # SEMrq` implies `Spec => []ClientExclusion`.
  The inductive invariant `TokenInv` says where the one token of `SEMrq` is:
  nowhere before the server's `signals`, then in the semaphore, or with the one
  client between `waits` and `signals`, which alone has an undo value of 1; the
  server's own undo value can only take a token away. The undo values belong to
  the invariant, because the end of a process adds them: without them
  the kill of a client could let a second one in. A restart clears all of them
  with its SETVAL; if a client was writing then, `overlap` is set and nothing is
  claimed. The assumption excludes the
  SETVALs of `ChildsPlay` on semaphore number 0 when that is `SEMrq`.
* `TypeCorrect`: `Spec => []TypeOK`, also when `charcount` or `AddReq` has left
  the segment. It says that the place `AddReq` finds is inside the segment or just
  behind it and never the header's, without which a client's text could wipe the
  header out. A client inside `AddReq` has a line left to send (`HasLine`).
* `OnceCorrect`: `Spec => []AtMostOnce`, without any condition: a request not yet
  sent is nowhere, a request sent is in one cell or in `taken`, never in both
  (`OnceInv`). Two clients that write at the same time, or a new server's header
  over an old text, may lose requests; they do not double one.
* `ExitCorrect`, `FreshCorrect`, `PlaceCorrect`: `SemIdZero # SEMrq` implies
  `Spec => []ExitStays`, `[]FreshItem` and `[]PlaceIsEnd`. The properties are about
  the first server (`restarts = 0`), with any kills. The invariant `SegInv`
  describes the segment cell by cell with one number g, how many requests have
  got their `>`: blanks up to the header, whose place `Len(taken)` gives, then g
  requests with their `>`, then what one client is in the middle of writing, or
  a killed one left. `charcount` can only be one of the counts this text allows,
  which is why the unlocked server takes nothing that is not whole. `ServedTaken`
  ties children and `curItem` to what was taken.
* `SegmentRefines`: with `SemIdZero # SEMrq`, `MaxRestarts = 0` and `Roomy` (nobody
  is killed and all lines of all scripts fit into the segment),
  `Spec => SegmentIsChannel`. The `memcpy` of `AddReq` is the send and `dequeueItem`
  the receive; `charcount` may even have left the segment before. A client killed
  between the two leaves a request without its `>` behind, and a segment that is
  too small has one end outside it; the theorem says nothing of them.

### The output file

`OutputFile_proofs` holds for any number of servers, children, workers, lines,
kills and runs of `clean_os.sh`.

* `WriterCorrect`: `Spec => []WriterExclusion`. `BufInv` has the same idea as
  `TokenInv`: as long as the set is not `broken`, the token of `SEMbuf` is in the
  semaphore, or with the one worker inside `fileWriter`, whose process alone has
  an undo value of 1. It also says that sets not yet created are untouched and
  that a child that was not forked has no running worker.
* `TypeCorrect`: `Spec => []TypeOK`. That `out` names a file needs that it is
  never ahead of the number of servers started (`TypeInv`). It also says that a
  worker writes and closes only a file it has opened.
* `UnmixedCorrect`: `Spec => []Unmixed`, from the two and `PieceInv`: a line is in
  the file its worker has opened, and while the semaphore is intact a worker that
  has begun to write is the last one that wrote to its file. `AppendInPiece` is
  the lemma on sequences behind it.
* `WholeCorrect`: `Spec => []WholeOutput`, which is claimed even when the semaphore
  is broken. `ThreadInv` follows a worker from `pthread_create` to the join: it
  leaves its file only after its last line, and no child comes to its `exit(1)`
  before. `LinesInv`: what a worker has counted as written is in its file in that
  order, whoever writes in between.
* `OwnOrLateCorrect`: `Spec => []OwnOrLate`. `LateInv`: no worker has opened a file
  that is yet to be made, and a child at work, or with the present file open, is
  the running server's own or in `late`.

### The listers

`DirTree_proofs` has the lemmas all three share. That `Depth`, a recursive function
over the tree, satisfies its equation is proved from `TreeAssumption`: every
non-empty set of paths without the root has a member whose parent is outside it,
so "is an entry of" is well founded. The rest says what an insertion by depth, an
exchange of neighbours and the numbering do to a list without duplicates, that a
list whose neighbours are in order is in order, and what the stack of the walk
(`Walk`) has still to visit.

* `DirList_proofs`, for every tree, every order of `readdir` and every
  directory that cannot be opened: `TypeCorrect` (no loop reads through NULL),
  `LinkedCorrect`, `ReleasedCorrect` (each node of the list is freed once and not read
  afterwards; what is left is one node per `insert_sorted`) and `ListerRefined`
  (`Spec => IsLister`). The
  invariant says that some sequence of nodes `s` and place `c` explain the pointers
  (`\E s, c : NodesInv(s, c)`): `next` from `head` and `prev` from `tail` both follow
  `s`, and `tmp` is its `c`-th node. The rest is then about `s` and `c`: the paths the
  nodes show are those of `s`, each at its depth (`PathInv`); what a pass without an
  exchange has seen is in order (`OrderInv`); the nodes up to `tmp` are numbered,
  printed or freed. Each insertion gives the witness with the node in its place
  (`LinkForwardOK`, `LinkBackwardOK`).
* `ParDirList_proofs`, for every tree, every `argv[4]` and all interleavings:
  `TypeCorrect`, `CountsCorrect` (`Spec => []CountsIfJoined`) and `ListerRefined`.
  `node_swap` exchanges path and count in three steps, and between them a path or a
  count is in two nodes or in none: `Shown` and `CountAt` say which path and count
  the k-th node stands for at each step, and the invariants about order and counts
  are about them. `CountInv`: if no thread ran when the sort began, none does, and each
  path keeps its count. A thread that is late may store into any node, but never
  touches a path, so `ListerRefined` holds in any case.
* `ParDirListItems_proofs`, likewise: `TypeCorrect`, `CountsCorrect`
  (`[]CountsExact`), `QuietCorrect` (`[]QuietAtExit`), `TotalCorrect`
  (`[]TotalBounded`) and `ListerRefined`. The parts of `ItemsInv`: a thread that is
  done has stored its count (`ThreadInv`), what is printed was joined
  (`JoinedInv`), and `totalMatches`, as it is and as any thread has loaded it, is at
  most the matches counted so far (`TotalInv`), which bounds every store, however
  old the value it was computed from.

### Assumptions and limits

Assumptions on the constants, which the runs evaluate: `EntryAssumption`,
`ThreadAssumption`, `SizeAssumption`, `SentinelAssumption` of `SearchChild`;
`QueueAssumption` of `RequestQueue` (a request stands for one line of one client's
input, so no two lines are the same request); `OutputAssumption` of `OutputFile`
(finitely many workers); `TreeAssumption` of `DirTree` (a finite tree: every path but
the root is an entry of exactly one directory, and no directory is below itself;
`strcmp` tells paths apart); `NullAssumption`, `ModeAssumption` and `FailsAssumption`
of the listers.

Only model-checked: the liveness properties (`Terminates` of the child and of the
listers, `RequestServed`, `ExitObeyed`, `ClientsGetQueue`, `ChildrenEnd`), since
fairness and ENABLED are beyond the prover, and the violations, which are single
behaviours that TLC exhibits.


## 5. Not modelled

* `parseReq` and `rws`: a request is a model value, all of one length.
* A kill of the server in the middle of `dequeueItem`, and memory behind the end
  of the segment other than as "faults or returns".
* Failing `shmget`, `shmat`, `semget` and `malloc`: they end a process before it
  shares anything.
* In `server.c`, more than 20 files in a directory (`SearchChild` shows what that
  does to `tids`) and more text than `result` holds; its segment and `SEMfr`,
  which it uses as `server-rev1.c` does.
* Paths longer than the buffers of the listers, and fewer than four arguments.
* `pardirlist_rev1.c`: superseded by `pardirlist.c`; its thread list is that of
  `ParDirList`, its counter that of `ParDirListItems`.
  `dirlist/BlackBoxTesting/dirlist.c`: the sequential mode of `ParDirListItems`
  without the search.
* The exercises and handouts (`buffer/`, `DLL/`, `2darray/`, `calc/`,
  `Virtual Memory/`, `LectureExample/`): single calls on fixed inputs, unfinished
  or textbook code.
* The `linux-master`, `man-pages-master` and `final-src` trees. They are by far
  most of the lines in the repository and none of its program: they are what the
  listers and the server search.

## 6. Plan

1. Proofs: `SegmentIsChannel` with clients that are killed before their `memcpy`,
   and with a server that is killed; both leave the text whole.
2. `dequeueItem` byte by byte, so that a server can be killed inside it.
