------------------------------ MODULE DirList ------------------------------
(***************************************************************************)
(* The directory lister of the first project (Lin/dirlist/dirlist.c), with  *)
(* its doubly linked list pointer by pointer: the walk inserts a node for   *)
(* every entry behind the less deep ones, node_swap exchanges the paths of  *)
(* neighbours until no pass has changed anything, sub_level numbers the     *)
(* nodes of each depth, print_list writes them and destroy_list frees them. *)
(*                                                                          *)
(* A node is named by the path it was created for.                          *)
(***************************************************************************)
EXTENDS DirTree

CONSTANT NULL

ASSUME NullAssumption == NULL \notin Path

VARIABLES
  pc,        \* the next statement
  stack,     \* the calls of open_dir: their x and the entries still to be read
  path, level, i, next, prev,      \* the fields of the nodes
  head, tail,                      \* the fields of the list
  node,      \* the node that insert_sorted is to insert
  tmp,       \* tmp, tmpNode or ptr of the loop the program is in
  old,       \* tmp of destroy_list
  swap,      \* node_swap's flag
  n,         \* sub_level's counter
  output,    \* the lines printed
  live,      \* the nodes that create_node allocated and that are not freed
  spare,     \* the nodes that insert_sorted allocated, each for the node to be inserted
  opened     \* history: the directories opendir has opened

walk  == <<stack, opened>>
links == <<next, prev, head, tail>>
data  == <<path, level, i>>
vars  == <<pc, walk, links, data, node, tmp, old, swap, n, output, live, spare>>

Created == {p \in Path : level[p] > 0}

-----------------------------------------------------------------------------
create_node(p, x) ==
  /\ path' = [path EXCEPT ![p] = p] /\ level' = [level EXCEPT ![p] = x]
  /\ i' = [i EXCEPT ![p] = 1]
  /\ next' = [next EXCEPT ![p] = NULL] /\ prev' = [prev EXCEPT ![p] = NULL]
  /\ node' = p /\ live' = live \cup {p}

(* main up to the first insert_sorted: the root's node has been created.    *)
Init ==
  /\ pc = "insert" /\ node = Root /\ live = {Root} /\ spare = {}
  /\ stack = <<[dir |-> Root, x |-> 1, unread |-> {}]>> /\ opened = {}
  /\ path = [p \in Path |-> p] /\ level = [p \in Path |-> IF p = Root THEN 1 ELSE 0]
  /\ i = [p \in Path |-> 1]
  /\ next = [p \in Path |-> NULL] /\ prev = [p \in Path |-> NULL]
  /\ head = NULL /\ tail = NULL /\ tmp = NULL /\ old = NULL
  /\ swap = FALSE /\ n = 1 /\ output = << >>

(* A step that goes to l with tmp at p.                                     *)
At(l, p) == pc' = l /\ tmp' = p /\ UNCHANGED <<walk, node, old>>

-----------------------------------------------------------------------------
(* insert_sorted allocates a node of its own, to which its first tmp points *)
(* and nothing else; main and open_dir then open the directory of the node. *)
Malloc == spare' = spare \cup {node}

Inserted == IF Kind[node] = "dir" \/ node = Root THEN "opendir" ELSE "readdir"

InsertFirst ==
  /\ pc = "insert" /\ head = NULL /\ tail = NULL /\ At(Inserted, tmp)
  /\ Malloc /\ head' = node /\ tail' = node
  /\ UNCHANGED <<next, prev, data, swap, n, output, live>>

ScanFromHead ==
  /\ pc = "insert" /\ head # NULL /\ At("scan", head)
  /\ Malloc
  /\ UNCHANGED <<links, data, swap, n, output, live>>

LessDeep == next[tmp] # NULL /\ level[next[tmp]] < level[node]

Scan ==
  /\ pc = "scan" /\ LessDeep /\ At("scan", next[tmp])
  /\ UNCHANGED <<links, data, swap, n, output, live, spare>>

(* As head, as tail or in the middle.                                       *)
Before == IF level[node] < level[tmp] THEN NULL
          ELSE IF next[tmp] = NULL THEN tail ELSE tmp
After  == IF level[node] < level[tmp] THEN head ELSE next[tmp]

Link(b, a, back) ==
  /\ pc = "scan" /\ ~LessDeep /\ At(Inserted, tmp)
  /\ next' = [p \in Path |-> IF p = node THEN a ELSE IF p = b THEN node ELSE next[p]]
  /\ prev' = [p \in Path |-> IF p = node THEN b ELSE IF p = a THEN back ELSE prev[p]]
  /\ head' = IF b = NULL THEN node ELSE head
  /\ tail' = IF a = NULL THEN node ELSE tail
  /\ UNCHANGED <<data, swap, n, output, live, spare>>

LinkForward == Link(Before, After, Before)
insert_sorted == Link(Before, After, node)

-----------------------------------------------------------------------------
Top == Last(stack)

OpenDir ==
  /\ pc = "opendir" /\ pc' = "readdir" /\ Kind[Top.dir] \in {"dir", "dirlink"}
  /\ stack' = Append(Front(stack), [Top EXCEPT !.x = @ + 1, !.unread = Entries[Top.dir]])
  /\ opened' = opened \cup {Top.dir}
  /\ UNCHANGED <<links, data, node, tmp, old, swap, n, output, live, spare>>

(* The return of open_dir, to the loop of its caller or to node_swap.       *)
Return ==
  /\ stack' = Front(stack)
  /\ pc' = IF Len(stack) > 1 THEN "readdir" ELSE "sort"
  /\ tmp' = head
  /\ UNCHANGED <<links, data, node, old, swap, n, output, live, spare, opened>>

(* closedir is called with the NULL that opendir returned, and refuses it.  *)
OpenDirFails == pc = "opendir" /\ Return

CloseDir == pc = "readdir" /\ Top.unread = {} /\ Return

Rest(e) == Append(Front(stack), [Top EXCEPT !.unread = @ \ {e}])

SkipEntry(e) ==
  /\ pc = "readdir" /\ e \in Top.unread /\ Kind[e] = "hidden"
  /\ stack' = Rest(e)
  /\ UNCHANGED <<pc, links, data, node, tmp, old, swap, n, output, live, spare, opened>>

AddNode(e) ==
  /\ pc = "readdir" /\ e \in Top.unread /\ Kind[e] # "hidden" /\ pc' = "insert"
  /\ create_node(e, Top.x)
  /\ stack' = IF Kind[e] = "dir" THEN Append(Rest(e), [dir |-> e, x |-> Top.x, unread |-> {}])
                                 ELSE Rest(e)
  /\ UNCHANGED <<head, tail, tmp, old, swap, n, output, spare, opened>>

-----------------------------------------------------------------------------
(* node_swap.                                                               *)
Unordered ==
  level[tmp] = level[next[tmp]] /\ Rank[path[tmp]] > Rank[path[next[tmp]]]

KeepOrderTo(p) ==
  /\ pc = "sort" /\ next[tmp] # NULL /\ ~Unordered /\ At("sort", p)
  /\ UNCHANGED <<links, data, swap, n, output, live, spare>>

KeepOrderSkips == KeepOrderTo(next[next[tmp]])
KeepOrder == KeepOrderTo(next[tmp])

SwapPaths ==
  /\ pc = "sort" /\ next[tmp] # NULL /\ Unordered /\ At("sort", next[tmp])
  /\ path' = [path EXCEPT ![tmp] = path[next[tmp]], ![next[tmp]] = path[tmp]]
  /\ swap' = TRUE
  /\ UNCHANGED <<links, level, i, n, output, live, spare>>

PassWith(flag) ==
  /\ pc = "sort" /\ next[tmp] = NULL /\ swap /\ At("sort", head)
  /\ swap' = flag
  /\ UNCHANGED <<links, data, n, output, live, spare>>

SwapNotReset == PassWith(TRUE)
PassAgain == PassWith(FALSE)

SortEnds ==
  /\ pc = "sort" /\ next[tmp] = NULL /\ ~swap /\ At("number", head)
  /\ UNCHANGED <<links, data, swap, n, output, live, spare>>

-----------------------------------------------------------------------------
(* sub_level, print_list and destroy_list.                                  *)
NumberWith(m) ==
  /\ pc = "number" /\ next[tmp] # NULL /\ At("number", next[tmp])
  /\ n' = m
  /\ i' = IF level[next[tmp]] = level[tmp] THEN [i EXCEPT ![next[tmp]] = m] ELSE i
  /\ UNCHANGED <<links, path, level, swap, output, live, spare>>

NumberOn == NumberWith(n + 1)
sub_level == NumberWith(IF level[next[tmp]] = level[tmp] THEN n + 1 ELSE 1)

NumberEnds ==
  /\ pc = "number" /\ next[tmp] = NULL /\ At("print", head)
  /\ UNCHANGED <<links, data, swap, n, output, live, spare>>

PrintNode ==
  /\ pc = "print" /\ tmp # NULL /\ At("print", next[tmp])
  /\ output' = Append(output, [path |-> path[tmp], level |-> level[tmp], i |-> i[tmp]])
  /\ UNCHANGED <<links, data, swap, n, live, spare>>

(* A fopen that fails is not noticed before fprintf gets its NULL.          *)
PrintFaults ==
  /\ pc = "print" /\ output = << >> /\ At("crashed", tmp)
  /\ UNCHANGED <<links, data, swap, n, output, live, spare>>

PrintEnds ==
  /\ pc = "print" /\ tmp = NULL /\ At("destroy", head)
  /\ UNCHANGED <<links, data, swap, n, output, live, spare>>

(* The body of destroy_list's loop: tmp = ptr, and then two statements.     *)
BodyReversed == <<"free", "read_next">>
Body == <<"read_next", "free">>

Behind(l) == IF l = Body[1] THEN Body[2] ELSE "destroy"

TakeNode ==
  /\ pc = "destroy" /\ tmp # NULL /\ pc' = Body[1]
  /\ old' = tmp
  /\ UNCHANGED <<walk, links, data, node, tmp, swap, n, output, live, spare>>

ReadNext ==
  /\ pc = "read_next" /\ At(Behind("read_next"), next[tmp])
  /\ UNCHANGED <<links, data, swap, n, output, live, spare>>

FreeNode ==
  /\ pc = "free" /\ At(Behind("free"), tmp)
  /\ live' = live \ {old}
  /\ UNCHANGED <<links, data, swap, n, output, spare>>

Exit ==
  /\ pc = "destroy" /\ tmp = NULL /\ At("exited", tmp)
  /\ UNCHANGED <<links, data, swap, n, output, live, spare>>

-----------------------------------------------------------------------------
Next ==
  \/ InsertFirst \/ ScanFromHead \/ Scan \/ insert_sorted
  \/ OpenDir \/ OpenDirFails \/ CloseDir \/ (\E e \in Path : SkipEntry(e) \/ AddNode(e))
  \/ KeepOrder \/ SwapPaths \/ PassAgain \/ SortEnds
  \/ sub_level \/ NumberEnds \/ PrintNode \/ PrintFaults \/ PrintEnds
  \/ TakeNode \/ ReadNext \/ FreeNode \/ Exit

Spec == Init /\ [][Next]_vars

(* One thread, which the kernel runs.                                       *)
FairSpec == Spec /\ WF_vars(Next)

-----------------------------------------------------------------------------
(* Properties.                                                              *)

Pointer == Path \cup {NULL}

(* The type invariant; the loops that read through tmp have a node there.   *)
TypeOK ==
  /\ pc \in {"insert", "scan", "opendir", "readdir", "sort", "number", "print",
             "destroy", "read_next", "free", "exited", "crashed"}
  /\ stack \in Seq([dir : Path, x : Nat, unread : SUBSET Path]) /\ opened \subseteq Path
  /\ path \in [Path -> Path] /\ level \in [Path -> Nat] /\ i \in [Path -> Nat]
  /\ next \in [Path -> Pointer] /\ prev \in [Path -> Pointer]
  /\ head \in Pointer /\ tail \in Pointer /\ node \in Path /\ tmp \in Pointer /\ old \in Pointer
  /\ (pc \in {"scan", "sort", "number"} => tmp \in live)
  /\ swap \in BOOLEAN /\ n \in Nat /\ live \subseteq Path /\ spare \subseteq Path
  /\ output \in Seq([path : Path, level : Nat, i : Nat])

(* The nodes one comes by when following link from p.                       *)
Chain(p, link) ==
  LET N == Cardinality(Path)
      at[k \in 0 .. N] == IF k = 0 THEN p
                          ELSE IF at[k - 1] = NULL THEN NULL ELSE link[at[k - 1]]
  IN  [k \in 1 .. Cardinality({j \in 0 .. N : at[j] # NULL}) |-> at[k - 1]]

(* What insert_sorted has to keep: the list read from its head by next is   *)
(* the list read from its tail by prev, has every node created so far (but  *)
(* the one on its way) once, and goes from depth to depth.                  *)
Linked ==
  LET s == Chain(head, next)
  IN  /\ s = Reverse(Chain(tail, prev))
      /\ ToSet(s) = IF pc \in {"insert", "scan"} THEN Created \ {node} ELSE Created
      /\ Cardinality(ToSet(s)) = Len(s)
      /\ \A k \in 1 .. Len(s) - 1 : level[s[k]] <= level[s[k + 1]]

(* destroy_list reads through and frees only nodes that are not yet freed,  *)
(* and frees every node of the list; what it cannot reach, and what stays   *)
(* allocated in the end, is one node for every call of insert_sorted.       *)
Released ==
  /\ pc = "destroy" => tmp \in live \cup {NULL}
  /\ pc = "read_next" => tmp \in live
  /\ pc = "free" => old \in live
  /\ pc = "exited" => live = {} /\ spare = Created

L == INSTANCE Lister WITH
       lines  <- output,
       status <- IF pc = "exited" THEN "exited" ELSE IF pc = "crashed" THEN "failed" ELSE "running"

(* The program prints the listing that Lister describes: exchanging paths   *)
(* between neighbours of one depth, in a list ordered by depth, sorts all.  *)
IsLister == L!Spec

(* The passes of node_swap come to an end, and so does the program.         *)
Terminates == <>(pc \in {"exited", "crashed"})
=============================================================================
