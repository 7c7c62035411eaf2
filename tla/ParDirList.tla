----------------------------- MODULE ParDirList -----------------------------
(***************************************************************************)
(* The parallel directory lister (Lin/pardirlist/pardirlist.c).  main walks *)
(* a tree depth first and keeps a list of nodes sorted by depth; for every  *)
(* entry it either counts the keyword itself (ParMode 0) or starts a thread *)
(* that counts and stores the result in the node (any other ParMode).  It   *)
(* then joins the threads (ParMode 1 only), sorts the nodes of each depth    *)
(* by path, numbers and prints them.                                        *)
(*                                                                          *)
(* A node is named by the path it was created for.  node_swap moves the     *)
(* contents from node to node, so a node's path may become another one.     *)
(***************************************************************************)
EXTENDS DirTree

CONSTANTS Modes,     \* values of argv[4]
          MaxFails   \* bound: how many threads cannot be created

ASSUME ModeAssumption == Modes \subseteq Nat /\ MaxFails \in Nat

NotSearched == -69      \* what create_node stores in search

VARIABLES
  ParMode,   \* argv[4]
  pc,        \* the next statement of main
  stack,     \* the calls of open_dir: their x and the entries still to be read
  node,      \* node[p]: the contents of the node created for p
  list,      \* the nodes in the order of the list
  TID_list,  \* the threads in the order of the list, newest first
  tpc,       \* tpc[p]: the next statement of the thread of node p
  arg,       \* arg[p]: the string the thread of p works with
  freed,     \* freed[p]: that string has been freed since
  cur,       \* curNode, tmpNode or ptr of the loop main is in
  swap,      \* node_swap's flag
  saved,     \* node_swap's tempPath and svalue
  output,    \* the lines printed
  opened,    \* history: the directories opendir has opened
  late       \* history: a thread that is never joined was running when node_swap was called

walk == <<stack, opened>>
thrd == <<TID_list, tpc, arg, freed>>
sort == <<swap, saved>>
vars == <<ParMode, pc, walk, node, list, thrd, cur, sort, output, late>>

InThread(p) == tpc[p] \in {"start", "search"}

-----------------------------------------------------------------------------
create_node(p, x, v) == [path |-> p, level |-> x, i |-> 1, search |-> v]

Level(k) == node[list[k]].level
Levels   == [k \in DOMAIN list |-> Level(k)]

insert_sorted(p, x) == InsertAt(list, PlaceOf(Levels, x), p)

-----------------------------------------------------------------------------
(* main up to its call of open_dir: the root is searched and inserted.      *)
Init ==
  /\ ParMode \in Modes
  /\ pc = "opendir"
  /\ stack = <<[dir |-> Root, x |-> 1, unread |-> {}]>> /\ opened = {}
  /\ node = [p \in Path |-> create_node(p, 1, IF p = Root THEN keyword_search(p)
                                                          ELSE NotSearched)]
  /\ list = <<Root>>
  /\ TID_list = << >> /\ tpc = [p \in Path |-> "none"]
  /\ arg = [p \in Path |-> p] /\ freed = [p \in Path |-> FALSE]
  /\ cur = 1 /\ swap = FALSE /\ saved = create_node(Root, 1, NotSearched)
  /\ output = << >> /\ late = FALSE

(* A step of main that moves it to l, and to element k of a loop.           *)
MainAt(l, k) == pc' = l /\ cur' = k /\ UNCHANGED <<ParMode, walk, list, output>>
MainMoves(l, k) == MainAt(l, k) /\ UNCHANGED <<node, thrd, sort, late>>

Top == Last(stack)

OpenDir ==
  /\ pc = "opendir" /\ pc' = "readdir" /\ Kind[Top.dir] \in {"dir", "dirlink"}
  /\ stack' = Append(Front(stack), [Top EXCEPT !.x = @ + 1, !.unread = Entries[Top.dir]])
  /\ opened' = opened \cup {Top.dir}
  /\ UNCHANGED <<ParMode, node, list, thrd, cur, sort, output, late>>

(* The statement behind the return of an open_dir.                          *)
Return ==
  /\ stack' = Front(stack)
  /\ pc' = IF Len(stack) > 1 THEN "readdir" ELSE IF ParMode = 1 THEN "join" ELSE "sort"
  /\ late' = (pc' = "sort" /\ \E p \in Path : InThread(p))
  /\ UNCHANGED <<ParMode, node, list, thrd, cur, sort, output, opened>>

OpenDirFails == pc = "opendir" /\ Return

CloseDir == pc = "readdir" /\ Top.unread = {} /\ Return

SkipEntry(e) ==
  /\ pc = "readdir" /\ e \in Top.unread /\ Kind[e] = "hidden"
  /\ stack' = Append(Front(stack), [Top EXCEPT !.unread = @ \ {e}])
  /\ UNCHANGED <<ParMode, pc, node, list, thrd, cur, sort, output, opened, late>>

(* create_node, insert_sorted and, for a directory, the call of open_dir.   *)
AddNode(e, v) ==
  LET rest == Append(Front(stack), [Top EXCEPT !.unread = @ \ {e}])
  IN  /\ pc = "readdir" /\ e \in Top.unread /\ Kind[e] # "hidden"
      /\ node' = [node EXCEPT ![e] = create_node(e, Top.x, v)]
      /\ list' = insert_sorted(e, Top.x)
      /\ IF Kind[e] = "dir"
           THEN stack' = Append(rest, [dir |-> e, x |-> Top.x, unread |-> {}]) /\ pc' = "opendir"
           ELSE stack' = rest /\ pc' = "readdir"

AddSearched(e) ==
  /\ ParMode = 0 /\ AddNode(e, keyword_search(e))
  /\ UNCHANGED <<ParMode, thrd, cur, sort, output, opened, late>>

(* pthread_create and addTID, which puts the new thread at the head.  When  *)
(* there is no new thread, addTID gets an uninitialised id.                 *)
AddThread(e) ==
  /\ ParMode # 0 /\ AddNode(e, NotSearched)
  /\ \/ tpc' = [tpc EXCEPT ![e] = "start"]
     \/ /\ Cardinality({p \in Path : tpc[p] = "failed"}) < MaxFails
        /\ tpc' = [tpc EXCEPT ![e] = "failed"]
  /\ TID_list' = <<e>> \o TID_list
  /\ UNCHANGED <<ParMode, arg, freed, cur, sort, output, opened, late>>

-----------------------------------------------------------------------------
(* makeThread: the path is read from the node, the file is searched, the    *)
(* result is stored in the node.                                            *)
Running == pc \notin {"exited", "crashed"}

ReadPath(p) ==
  /\ Running /\ tpc[p] = "start"
  /\ tpc' = [tpc EXCEPT ![p] = "search"]
  /\ arg' = [arg EXCEPT ![p] = node[p].path]
  /\ UNCHANGED <<ParMode, pc, walk, node, list, TID_list, freed, cur, sort, output, late>>

(* A string freed by node_swap may hold any path, or none, when it is used. *)
StoreSearch(p) ==
  /\ Running /\ tpc[p] = "search"
  /\ tpc' = [tpc EXCEPT ![p] = "done"]
  /\ \E v \in IF freed[p] THEN {-1} \cup {keyword_search(q) : q \in Path}
                          ELSE {keyword_search(arg[p])} :
       node' = [node EXCEPT ![p].search = v]
  /\ UNCHANGED <<ParMode, pc, walk, list, TID_list, arg, freed, cur, sort, output, late>>

-----------------------------------------------------------------------------
(* joinThreads follows the list to the element without a successor, which   *)
(* is the thread created first, and does not join that one; it reads        *)
(* through NULL when there is no thread.  A join of an id that was never    *)
(* assigned faults or returns.                                              *)
JoinFaults ==
  /\ pc = "join"
  /\ TID_list = << >> \/ (cur < Len(TID_list) /\ tpc[TID_list[cur]] = "failed")
  /\ MainMoves("crashed", cur)

JoinThread ==
  /\ pc = "join" /\ cur < Len(TID_list) /\ tpc[TID_list[cur]] \in {"done", "failed"}
  /\ MainMoves("join", cur + 1)

JoinUpTo(n) ==
  /\ pc = "join" /\ TID_list # << >> /\ cur >= n /\ MainAt("sort", 1)
  /\ late' = InThread(Last(TID_list))
  /\ UNCHANGED <<node, thrd, sort>>

JoinEndsEarly == JoinUpTo(Len(TID_list) - 1)
JoinEnds == JoinUpTo(Len(TID_list))

-----------------------------------------------------------------------------
(* node_swap: passes over the list until one has swapped nothing.  The      *)
(* exchange is three steps, as a thread may store its result in between.    *)
This == list[cur]
That == list[cur + 1]

Unordered == /\ node[This].level = node[That].level
             /\ Rank[node[This].path] > Rank[node[That].path]

KeepOrder == pc = "sort" /\ cur < Len(list) /\ ~Unordered /\ MainMoves("sort", cur + 1)

SwapPath ==
  /\ pc = "sort" /\ cur < Len(list) /\ Unordered /\ MainAt("swap_search", cur)
  /\ swap' = TRUE /\ saved' = node[This]
  /\ node' = [node EXCEPT ![This].path = node[That].path]
  /\ freed' = [freed EXCEPT ![This] = @ \/ tpc[This] = "search"]
  /\ UNCHANGED <<TID_list, tpc, arg, late>>

SwapSearch ==
  /\ pc = "swap_search" /\ MainAt("swap_back", cur)
  /\ node' = [node EXCEPT ![This].search = node[That].search, ![That].path = saved.path]
  /\ freed' = [freed EXCEPT ![That] = @ \/ tpc[That] = "search"]
  /\ UNCHANGED <<TID_list, tpc, arg, sort, late>>

SwapBackTo(k) ==
  /\ pc = "swap_back" /\ MainAt("sort", k)
  /\ node' = [node EXCEPT ![That].search = saved.search]
  /\ UNCHANGED <<thrd, sort, late>>

SwapBackSkips == SwapBackTo(cur + 2)
SwapBack == SwapBackTo(cur + 1)

PassWith(flag) ==
  /\ pc = "sort" /\ cur = Len(list) /\ swap /\ MainAt("sort", 1)
  /\ swap' = flag
  /\ UNCHANGED <<node, thrd, saved, late>>

SwapNotReset == PassWith(TRUE)
PassAgain == PassWith(FALSE)

SortEndsIf(done) == pc = "sort" /\ cur = Len(list) /\ done /\ MainMoves("number", 1)

SortOnce == SortEndsIf(TRUE)
SortEnds == SortEndsIf(~swap)

-----------------------------------------------------------------------------
sub_level ==
  /\ pc = "number" /\ MainAt("print", cur)
  /\ node' = [p \in Path |->
       IF p \in ToSet(list)
         THEN [node[p] EXCEPT !.i = NumberAt(Levels, CHOOSE k \in DOMAIN list : list[k] = p)]
         ELSE node[p]]
  /\ UNCHANGED <<thrd, sort, late>>

(* print_list, a line at a time; a fopen that fails is not noticed before   *)
(* fprintf gets its NULL.                                                   *)
PrintNode ==
  /\ pc = "print" /\ cur <= Len(list)
  /\ output' = Append(output, node[This])
  /\ cur' = cur + 1
  /\ UNCHANGED <<ParMode, pc, walk, node, list, thrd, sort, late>>

PrintFaults == pc = "print" /\ cur = 1 /\ MainMoves("crashed", cur)

(* destroy_list and the return from main, which ends every thread.          *)
Exit == pc = "print" /\ cur > Len(list) /\ MainMoves("exited", cur)

-----------------------------------------------------------------------------
MainStep ==
  \/ OpenDir \/ OpenDirFails \/ CloseDir
  \/ \E e \in Path : SkipEntry(e) \/ AddSearched(e) \/ AddThread(e)
  \/ JoinFaults \/ JoinThread \/ JoinEnds
  \/ KeepOrder \/ SwapPath \/ SwapSearch \/ SwapBack \/ PassAgain \/ SortEnds
  \/ sub_level \/ PrintNode \/ PrintFaults \/ Exit

ThreadStep(p) == ReadPath(p) \/ StoreSearch(p)

Next == MainStep \/ \E p \in Path : ThreadStep(p)

(* The kernel runs every runnable thread.                                   *)
Fairness == WF_vars(MainStep) /\ \A p \in Path : WF_vars(ThreadStep(p))

Spec == Init /\ [][Next]_vars

FairSpec == Spec /\ Fairness

-----------------------------------------------------------------------------
(* Properties.                                                              *)

Node == [path : Path, level : Nat, i : Nat, search : Int]

MainPc == {"opendir", "readdir", "join", "sort", "swap_search", "swap_back", "number",
           "print", "exited", "crashed"}

(* The type invariant; node_swap stays inside the list.                     *)
TypeOK ==
  /\ ParMode \in Modes /\ pc \in MainPc
  /\ stack \in Seq([dir : Path, x : Nat, unread : SUBSET Path])
  /\ node \in [Path -> Node] /\ list \in Seq(Path) /\ TID_list \in Seq(Path)
  /\ tpc \in [Path -> {"none", "start", "search", "done", "failed"}]
  /\ arg \in [Path -> Path] /\ freed \in [Path -> BOOLEAN]
  /\ cur \in 1 .. Len(list) + 1 /\ (pc = "sort" => cur <= Len(list))
  /\ swap \in BOOLEAN /\ saved \in Node
  /\ output \in Seq(Node) /\ opened \subseteq Path /\ late \in BOOLEAN

Lines(s) == [k \in DOMAIN s |-> [path |-> s[k].path, level |-> s[k].level, i |-> s[k].i]]

L == INSTANCE Lister WITH
       lines  <- Lines(output),
       status <- IF Running THEN "running" ELSE IF pc = "exited" THEN "exited" ELSE "failed"

(* What is printed, line by line, is the listing that Lister describes, in  *)
(* every mode and whatever a thread does to the nodes that node_swap        *)
(* exchanges: each line is the next path of the tree, at its depth and with *)
(* its number.                                                              *)
IsLister == L!Spec

(* Every line has the count of its path, or -69 if the path got no thread.  *)
Exact ==
  \A k \in DOMAIN output :
    output[k].search = IF tpc[output[k].path] = "failed" THEN NotSearched
                                                         ELSE keyword_search(output[k].path)

(* The counts are those of keyword_search in the sequential mode, in the    *)
(* parallel mode when the thread created first, which is the only one that  *)
(* joinThreads leaves out, had ended before the sort, and in the others     *)
(* when all threads had: node_swap takes path and count along together.     *)
CountsIfJoined == pc = "exited" /\ ~late => Exact

(* What test.sh compares: the parallel listing has the counts of the files. *)
CountsExact == pc = "exited" /\ ParMode = 1 => Exact

(* main comes to its end: node_swap's passes stop although a thread still   *)
(* writes to the nodes.                                                     *)
Terminates == <>(~Running)
=============================================================================
