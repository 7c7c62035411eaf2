-------------------------- MODULE ParDirListItems --------------------------
(***************************************************************************)
(* The other parallel lister (Project2-5243528/pardirlist.c).  The nodes    *)
(* point to items; SortHelper exchanges the pointers and a thread keeps the *)
(* address of its item, so that sorting and searching do not meet.          *)
(* fileWriter joins the thread of an item right before it prints the item.  *)
(*                                                                          *)
(* An item is named by its path.  totalMatches is shared by the threads     *)
(* without a lock: a thread loads it, adds 1 and stores it.                 *)
(***************************************************************************)
EXTENDS DirTree

CONSTANT MaxFails  \* bound: how many threads cannot be created

ASSUME FailsAssumption == MaxFails \in Nat

NoCount == 69      \* what printDirPar stores in count before the search

VARIABLES
  runMode,       \* argv[4]
  pc,            \* the next statement of main
  stack,         \* the calls of printDirSeq or printDirPar
  item,          \* item[p]: level, num (i) and count (search) of p
  list,          \* the items in the order of the nodes
  tpc,           \* tpc[p]: the next statement of the thread of p
  left,          \* left[p]: the matches the thread of p has still to count
  reg,           \* reg[p]: totalMatches as the thread of p loaded it
  totalMatches,
  cur,           \* curNode of SortHelper, node of fileWriter
  Swap,          \* SortHelper's flag
  output,        \* the lines printed
  opened         \* history: the directories opendir has opened

walk == <<stack, opened>>
thrd == <<tpc, left, reg>>
vars == <<runMode, pc, walk, item, list, thrd, totalMatches, cur, Swap, output>>

PARALLEL == 1

Levels == [k \in DOMAIN list |-> item[list[k]].level]

InsertAsTail(p, x) == Append(list, p)

(* AddPath keeps the nodes sorted by depth.                                 *)
AddPath(p, x) == InsertAt(list, PlaceOf(Levels, x), p)

(* The calls of totalMatches++ in search_test.                              *)
Counted(p) == IF Kind[p] \in {"file", "hidden"} THEN Cardinality(Matches(p)) ELSE 0

-----------------------------------------------------------------------------
(* main up to printDirSeq or printDirPar, which opens the directory and     *)
(* then adds the root.                                                      *)
Init ==
  /\ runMode \in {0, PARALLEL}
  /\ pc = "opendir"
  /\ stack = <<[dir |-> Root, x |-> 1, unread |-> {}]>> /\ opened = {}
  /\ item = [p \in Path |-> [path |-> p, level |-> 1, i |-> 1,
                             search |-> IF p # Root THEN NoCount
                                        ELSE IF runMode = PARALLEL THEN 0 ELSE keyword_search(p)]]
  /\ list = <<Root>>
  /\ tpc = [p \in Path |-> "none"]
  /\ left = [p \in Path |-> 0] /\ reg = [p \in Path |-> 0]
  /\ totalMatches = IF runMode = PARALLEL THEN 0 ELSE Counted(Root)
  /\ cur = 1 /\ Swap = FALSE /\ output = << >>

(* A step of main that moves it to l, and to element k of a loop.           *)
MainAt(l, k) == pc' = l /\ cur' = k /\ UNCHANGED <<runMode, walk, thrd, totalMatches>>
MainMoves(l, k) == MainAt(l, k) /\ UNCHANGED <<item, list, Swap, output>>

Top == Last(stack)

OpenDir ==
  /\ pc = "opendir" /\ pc' = "readdir" /\ Kind[Top.dir] \in {"dir", "dirlink"}
  /\ stack' = Append(Front(stack), [Top EXCEPT !.x = @ + 1, !.unread = Entries[Top.dir]])
  /\ opened' = opened \cup {Top.dir}
  /\ UNCHANGED <<runMode, item, list, thrd, totalMatches, cur, Swap, output>>

(* exit(-1), with every thread.                                             *)
OpenDirFails == pc = "opendir" /\ MainMoves("failed", cur)

CloseDir ==
  /\ pc = "readdir" /\ Top.unread = {}
  /\ stack' = Front(stack)
  /\ pc' = IF Len(stack) > 1 THEN "readdir" ELSE "sort"
  /\ UNCHANGED <<runMode, item, list, thrd, totalMatches, cur, Swap, output, opened>>

SkipEntry(e) ==
  /\ pc = "readdir" /\ e \in Top.unread /\ Kind[e] = "hidden"
  /\ stack' = Append(Front(stack), [Top EXCEPT !.unread = @ \ {e}])
  /\ UNCHANGED <<runMode, pc, item, list, thrd, totalMatches, cur, Swap, output, opened>>

AddItem(e, v) ==
  LET rest == Append(Front(stack), [Top EXCEPT !.unread = @ \ {e}])
  IN  /\ pc = "readdir" /\ e \in Top.unread /\ Kind[e] # "hidden"
      /\ item' = [item EXCEPT ![e].level = Top.x, ![e].search = v]
      /\ list' = AddPath(e, Top.x)
      /\ IF Kind[e] = "dir"
           THEN stack' = Append(rest, [dir |-> e, x |-> Top.x, unread |-> {}]) /\ pc' = "opendir"
           ELSE stack' = rest /\ pc' = "readdir"

AddSearched(e) ==
  /\ runMode # PARALLEL /\ AddItem(e, keyword_search(e))
  /\ totalMatches' = totalMatches + Counted(e)
  /\ UNCHANGED <<runMode, thrd, cur, Swap, output, opened>>

Failed == {p \in Path : tpc[p] = "failed"}

(* When there is no new thread, tid still has the id of another, or none.   *)
AddThread(e) ==
  /\ runMode = PARALLEL /\ AddItem(e, NoCount)
  /\ \/ tpc' = [tpc EXCEPT ![e] = "open"]
     \/ Cardinality(Failed) < MaxFails /\ tpc' = [tpc EXCEPT ![e] = "failed"]
  /\ UNCHANGED <<runMode, left, reg, totalMatches, cur, Swap, output, opened>>

-----------------------------------------------------------------------------
(* StartSearch.                                                             *)
Running == pc \notin {"exited", "failed", "crashed"}

Thread(p, l, m) ==
  /\ Running /\ tpc[p] = l /\ tpc' = [tpc EXCEPT ![p] = m]
  /\ UNCHANGED <<runMode, pc, walk, list, cur, Swap, output>>

OpenFile(p) ==
  /\ Thread(p, "open", "search")
  /\ left' = [left EXCEPT ![p] = Counted(p)]
  /\ UNCHANGED <<item, reg, totalMatches>>

LoadTotal(p) ==
  /\ left[p] > 0 /\ Thread(p, "search", "add")
  /\ reg' = [reg EXCEPT ![p] = totalMatches]
  /\ UNCHANGED <<item, left, totalMatches>>

AddToTotal(p, n) ==
  /\ Thread(p, "add", "search")
  /\ totalMatches' = reg[p] + n
  /\ left' = [left EXCEPT ![p] = @ - 1]
  /\ UNCHANGED <<item, reg>>

AddTotalTwice(p) == AddToTotal(p, 2)
AddTotal(p) == AddToTotal(p, 1)

StoreCount(p) ==
  /\ left[p] = 0 /\ Thread(p, "search", "done")
  /\ item' = [item EXCEPT ![p].search = keyword_search(p)]
  /\ UNCHANGED <<left, reg, totalMatches>>

-----------------------------------------------------------------------------
(* SortHelper: passes over the list until one has swapped nothing.          *)
Unordered ==
  /\ item[list[cur]].level = item[list[cur + 1]].level
  /\ Rank[list[cur]] > Rank[list[cur + 1]]

KeepOrder == pc = "sort" /\ cur < Len(list) /\ ~Unordered /\ MainMoves("sort", cur + 1)

SwapThenTo(k) ==
  /\ pc = "sort" /\ cur < Len(list) /\ Unordered /\ MainAt("sort", k)
  /\ list' = [list EXCEPT ![cur] = list[cur + 1], ![cur + 1] = list[cur]]
  /\ Swap' = TRUE
  /\ UNCHANGED <<item, output>>

SwapItemsSkips == SwapThenTo(cur + 2)
SwapItems == SwapThenTo(cur + 1)

PassWith(flag) ==
  /\ pc = "sort" /\ cur = Len(list) /\ Swap /\ MainAt("sort", 1)
  /\ Swap' = flag
  /\ UNCHANGED <<item, list, output>>

PassNotReset == PassWith(TRUE)
PassAgain == PassWith(FALSE)

SortEnds == pc = "sort" /\ cur = Len(list) /\ ~Swap /\ MainMoves("number", 1)

NumberChildren ==
  /\ pc = "number" /\ MainAt("write", cur)
  /\ item' = [p \in Path |->
       IF p \in ToSet(list)
         THEN [item[p] EXCEPT !.i = NumberAt(Levels, CHOOSE k \in DOMAIN list : list[k] = p)]
         ELSE item[p]]
  /\ UNCHANGED <<list, Swap, output>>

-----------------------------------------------------------------------------
(* fileWriter.  The root has no thread: its tid is what malloc left there,  *)
(* and joining it faults or returns an error.  So does an id that is joined *)
(* for the second time, in place of one that was not created.  A garbage id *)
(* that happens to name a running thread is left out.                       *)
JoinFaults ==
  /\ pc = "write" /\ cur <= Len(list) /\ runMode = PARALLEL
  /\ tpc[list[cur]] = "none" \/ Failed # {}
  /\ MainMoves("crashed", cur)

(* The output file could not be opened.                                     *)
WriteFails == pc = "write" /\ cur = 1 /\ MainMoves("failed", cur)

WriteWhen(states) ==
  /\ pc = "write" /\ cur <= Len(list) /\ MainAt("write", cur + 1)
  /\ runMode = PARALLEL => tpc[list[cur]] \in states
  /\ output' = Append(output, item[list[cur]])
  /\ UNCHANGED <<item, list, Swap>>

WriteUnjoined == WriteWhen({"none", "failed", "open", "search", "add", "done"})
JoinAndWrite == WriteWhen({"none", "failed", "done"})

(* The summary with totalMatches, destroySDLL and the return from main.     *)
Exit == pc = "write" /\ cur > Len(list) /\ MainMoves("exited", cur)

-----------------------------------------------------------------------------
MainStep ==
  \/ OpenDir \/ OpenDirFails \/ CloseDir
  \/ \E e \in Path : SkipEntry(e) \/ AddSearched(e) \/ AddThread(e)
  \/ KeepOrder \/ SwapItems \/ PassAgain \/ SortEnds \/ NumberChildren
  \/ JoinFaults \/ WriteFails \/ JoinAndWrite \/ Exit

ThreadStep(p) == OpenFile(p) \/ LoadTotal(p) \/ AddTotal(p) \/ StoreCount(p)

Next == MainStep \/ \E p \in Path : ThreadStep(p)

(* The kernel runs every runnable thread.                                   *)
Fairness == WF_vars(MainStep) /\ \A p \in Path : WF_vars(ThreadStep(p))

Spec == Init /\ [][Next]_vars

FairSpec == Spec /\ Fairness

-----------------------------------------------------------------------------
(* Properties.                                                              *)

Item == [path : Path, level : Nat, i : Nat, search : Int]

(* The type invariant; SortHelper stays inside the list.                    *)
TypeOK ==
  /\ runMode \in {0, PARALLEL}
  /\ pc \in {"opendir", "readdir", "sort", "number", "write", "exited", "failed", "crashed"}
  /\ stack \in Seq([dir : Path, x : Nat, unread : SUBSET Path]) /\ opened \subseteq Path
  /\ item \in [Path -> Item] /\ \A p \in Path : item[p].path = p
  /\ list \in Seq(Path)
  /\ tpc \in [Path -> {"none", "failed", "open", "search", "add", "done"}]
  /\ left \in [Path -> Nat] /\ reg \in [Path -> Nat] /\ totalMatches \in Nat
  /\ cur \in 1 .. Len(list) + 1 /\ (pc = "sort" => cur <= Len(list))
  /\ Swap \in BOOLEAN /\ output \in Seq(Item)

Lines(s) == [k \in DOMAIN s |-> [path |-> s[k].path, level |-> s[k].level, i |-> s[k].i]]

L == INSTANCE Lister WITH
       lines  <- Lines(output),
       status <- IF Running THEN "running" ELSE IF pc = "exited" THEN "exited" ELSE "failed"

(* What is printed, line by line, is the listing that Lister describes, in  *)
(* both modes and while the threads run: each line is the next path of the  *)
(* tree, at its depth and with its number.                                  *)
IsLister == L!Spec

(* Every line printed has the count keyword_search gives for its path (69   *)
(* if the path got no thread), in both modes and however the threads run:   *)
(* an item is printed only when its thread has stored the count, and        *)
(* SortHelper never parts the two.  (The root of a parallel run is a        *)
(* directory, with count 0.)                                                *)
CountsExact ==
  \A k \in DOMAIN output :
    output[k].search = IF output[k].path \in Failed THEN NoCount
                                                    ELSE keyword_search(output[k].path)

(* No thread is running when the items are freed.                           *)
QuietAtExit == pc = "exited" => \A p \in Path : tpc[p] \in {"none", "failed", "done"}

AllMatches == UNION {{p} \X (1 .. Counted(p)) : p \in Reached(opened)}

(* Each match is added to totalMatches at most once: the summary may say    *)
(* too few matches, as increments that meet are lost, but never too many.   *)
TotalBounded == totalMatches <= Cardinality(AllMatches)

(* main comes to its end.                                                   *)
Terminates == <>(~Running)
=============================================================================
