------------------------- MODULE ParDirList_proofs -------------------------
(***************************************************************************)
(* Theorems about ParDirList, for any tree of files, any mode, any number   *)
(* of threads that cannot be created and any interleaving of the threads.   *)
(***************************************************************************)
EXTENDS ParDirList, DirTree_proofs

(* The walk and the join go on with each node holding its own path.         *)
Walking == pc \in {"opendir", "readdir", "join"}

(* The walk: the stack is what Walk says, its top is opened before it is    *)
(* read, and it is empty from joinThreads on.                               *)
StackInv ==
  /\ Walk(stack, opened, ToSet(list))
  /\ pc \in {"opendir", "readdir"} => stack # << >> /\ cur = 1
  /\ pc = "opendir" => Last(stack).dir \notin opened
  /\ pc = "readdir" => AllOpened(stack, opened)
  /\ pc \notin {"opendir", "readdir"} => stack = << >>

(* The nodes stay in the order of the depths.                               *)
ListInv ==
  /\ Listing(list) /\ list # << >>
  /\ \A p \in ToSet(list) : node[p].level = Depth[p]

(* The path of the k-th node, and its count: while node_swap exchanges two  *)
(* nodes, what belongs to the second is still in saved.                     *)
Shown ==
  [k \in DOMAIN list |-> IF pc = "swap_search" /\ k = cur + 1 THEN saved.path
                                                              ELSE node[list[k]].path]

CountAt(k) ==
  IF pc = "swap_search" /\ k = cur THEN node[That].search
  ELSE IF pc \in {"swap_search", "swap_back"} /\ k = cur + 1 THEN saved.search
  ELSE node[list[k]].search

(* node_swap exchanges paths of one depth: the paths shown are the nodes',  *)
(* each at its depth.                                                       *)
ShownInv ==
  /\ Walking => \A p \in Path : node[p].path = p
  /\ Listing(Shown) /\ ToSet(Shown) = ToSet(list)
  /\ \A k \in 1 .. Len(list) : Depth[Shown[k]] = Depth[list[k]]
  /\ pc \in {"swap_search", "swap_back"} =>
       cur < Len(list) /\ swap /\ Depth[list[cur]] = Depth[list[cur + 1]]

(* What a pass without an exchange has seen is in order.                    *)
OrderInv ==
  /\ pc = "sort" /\ ~swap =>
       \A k \in 1 .. cur - 1 :
         Depth[Shown[k]] = Depth[Shown[k + 1]] => ~(Rank[Shown[k]] > Rank[Shown[k + 1]])
  /\ pc \in {"number", "print"} => NeighboursInOrder(Shown)

(* print_list has printed the nodes up to cur.                              *)
PrintInv ==
  /\ pc \in {"print", "exited", "crashed"} \/ output = << >>
  /\ pc = "number" => cur = 1
  /\ pc = "print" =>
       /\ Len(output) = cur - 1
       /\ \A k \in 1 .. Len(list) : node[list[k]].i = NumberAt(DepthsOf(Shown), k)
       /\ \A k \in 1 .. Len(output) :
            /\ output[k].path = Shown[k] /\ output[k].level = Depth[Shown[k]]
            /\ output[k].i = NumberAt(DepthsOf(Shown), k)

(* The count a path has to have.                                            *)
Right(p) == IF tpc[p] = "failed" THEN NotSearched ELSE keyword_search(p)

(* A thread works with the path of its node until the sort; the threads     *)
(* before cur are joined.                                                   *)
ThreadInv ==
  /\ Len(TID_list) < Len(list)
  /\ \A p \in Path : InThread(p) => p \in ToSet(TID_list)
  /\ \A p \in Path \ ToSet(list) : tpc[p] = "none"
  /\ Walking => /\ ~late /\ \A p \in Path : arg[p] = p /\ ~freed[p]
                /\ \A p \in ToSet(list) : ~InThread(p) => node[p].search = Right(p)
  /\ pc = "join" => /\ \A k \in 1 .. cur - 1 : ~InThread(TID_list[k])
                    /\ cur <= Len(TID_list) \/ cur = 1

(* If no thread was running when node_swap was called, none is, and each    *)
(* path keeps its count.                                                    *)
CountInv ==
  ~late /\ ~Walking /\ pc # "crashed" =>
       /\ \A p \in Path : ~InThread(p)
       /\ \A k \in 1 .. Len(list) : CountAt(k) = Right(Shown[k])
       /\ Exact

NodesInv == StackInv /\ ListInv /\ ShownInv /\ OrderInv /\ PrintInv /\ ThreadInv /\ CountInv

LEMMA NodeIsRow == Node = Row
  BY DEF Node, Row

LEMMA LevelsAreDepths ==
  ListInv => Levels = DepthsOf(list)
  <1> SUFFICES ASSUME ListInv PROVE Levels = DepthsOf(list)
    OBVIOUS
  <1>1. \A k \in DOMAIN list : node[list[k]].level = Depth[list[k]]
    BY DEF ListInv, ToSet
  <1> QED BY <1>1 DEF Levels, Level, DepthsOf

(* While every node holds its own path, the paths shown are the nodes.      *)
Plain == list \in Seq(Path) /\ pc # "swap_search" /\ \A p \in Path : node[p].path = p

LEMMA ShownPlain == Plain => Shown = list
  <1> SUFFICES ASSUME Plain PROVE Shown = list
    OBVIOUS
  <1> USE DEF Plain
  <1>1. DOMAIN list = 1 .. Len(list) /\ \A k \in DOMAIN list : list[k] \in Path
    OBVIOUS
  <1>2. \A k \in DOMAIN list : node[list[k]].path = list[k]
    BY <1>1
  <1>3. Shown = [k \in DOMAIN list |-> list[k]]
    BY <1>2 DEF Shown
  <1> QED BY <1>1, <1>3

LEMMA NodesInvInit == Init => TypeOK /\ NodesInv
  <1> SUFFICES ASSUME Init PROVE TypeOK /\ NodesInv
    OBVIOUS
  <1> USE DEF Init
  <1>1. /\ list = <<Root>> /\ ToSet(list) = {Root} /\ Len(list) = 1 /\ DOMAIN list = {1}
        /\ list[1] = Root /\ list \in Seq(Path) /\ Root \in Path
    <2>1. list = <<Root>> /\ Root \in Path
      BY TreeAssumption
    <2>2. Len(list) = 1 /\ DOMAIN list = {1} /\ list[1] = Root /\ list \in Seq(Path)
      BY <2>1
    <2> QED BY <2>1, <2>2 DEF ToSet
  <1>2. keyword_search(Root) \in Int /\ NotSearched \in Int
    BY <1>1, SearchType DEF NotSearched
  <1>3. /\ stack = <<[dir |-> Root, x |-> 1, unread |-> {}]>> /\ opened = {}
        /\ Walk(stack, opened, ToSet(list))
    BY <1>1, WalkInit
  <1>4. stack # << >> /\ stack \in Seq(Frame) /\ Last(stack).dir = Root /\ Len(stack) = 1
    <2>1. stack \in Seq(Frame)
      BY <1>3 DEF Walk
    <2> QED BY <1>3, <2>1 DEF Last
  <1>5. /\ node \in [Path -> Node] /\ \A p \in Path : node[p].path = p /\ node[p].level = 1
        /\ node[Root].search = keyword_search(Root)
    BY <1>1, <1>2 DEF Node, create_node
  <1>6. TypeOK
    <2>1. stack \in Seq([dir : Path, x : Nat, unread : SUBSET Path]) /\ opened \subseteq Path
      BY <1>3, <1>4 DEF Frame
    <2>2. /\ tpc \in [Path -> {"none", "start", "search", "done", "failed"}]
          /\ arg \in [Path -> Path] /\ freed \in [Path -> BOOLEAN]
      OBVIOUS
    <2>3. saved \in Node
      BY <1>1, <1>2 DEF Node, create_node
    <2>4. cur \in 1 .. Len(list) + 1
      BY <1>1
    <2>5. swap \in BOOLEAN /\ late \in BOOLEAN /\ output = << >> /\ TID_list = << >>
      BY Zenon
    <2>6. output \in Seq(Node) /\ TID_list \in Seq(Path)
      BY <2>5
    <2> QED BY <1>1, <1>5, <2>1, <2>2, <2>3, <2>4, <2>5, <2>6 DEF TypeOK, MainPc
  <1>7. StackInv
    BY <1>3, <1>4 DEF StackInv
  <1>8. ListInv
    BY <1>1, <1>5, DepthType DEF ListInv, Listing
  <1>9. ShownInv
    <2>1. Shown = list
      BY <1>1, <1>5, ShownPlain DEF Plain
    <2> QED BY <1>5, <1>8, <2>1 DEF ShownInv, ListInv
  <1>10. OrderInv /\ PrintInv
    BY DEF OrderInv, PrintInv
  <1>11. ThreadInv
    <2>1. Len(TID_list) = 0
      OBVIOUS
    <2> QED BY <1>1, <1>5, <2>1 DEF ThreadInv, InThread, Right
  <1>12. CountInv
    BY DEF CountInv, Walking
  <1> QED BY <1>6, <1>7, <1>8, <1>9, <1>10, <1>11, <1>12 DEF NodesInv

(* What a step does that gives an entry its node, in either mode.           *)
LEMMA AddFacts ==
  ASSUME TypeOK, StackInv, ListInv, NEW e \in Path, NEW v \in Int, AddNode(e, v)
  PROVE  /\ e \notin ToSet(list) /\ e # Root /\ pc = "readdir" /\ Kind[e] # "hidden"
         /\ Listing(list') /\ ToSet(list') = ToSet(list) \cup {e} /\ Len(list') = Len(list) + 1
         /\ node' \in [Path -> Node] /\ node'[e].search = v /\ node'[e].level = Depth[e]
         /\ node'[e].path = e
         /\ \A p \in Path : p # e => node'[p] = node[p]
         /\ Walk(stack', opened, ToSet(list')) /\ stack' # << >>
         /\ pc' \in {"opendir", "readdir"}
         /\ pc' = "opendir" => Last(stack').dir \notin opened
         /\ pc' = "readdir" => AllOpened(stack', opened)
  <1> DEFINE g == ToSet(list)
             rest == ReadEntry(stack, e)
  <1>1. /\ pc = "readdir" /\ e \in Last(stack).unread /\ Kind[e] # "hidden"
        /\ node' = [node EXCEPT ![e] = create_node(e, Top.x, v)]
        /\ list' = insert_sorted(e, Top.x)
        /\ IF Kind[e] = "dir"
             THEN stack' = Append(rest, [dir |-> e, x |-> Top.x, unread |-> {}]) /\ pc' = "opendir"
             ELSE stack' = rest /\ pc' = "readdir"
    BY DEF AddNode, Top, ReadEntry
  <1>2. Walk(stack, opened, g) /\ stack # << >> /\ AllOpened(stack, opened)
    BY <1>1 DEF StackInv
  <1>3. /\ e # Root /\ e \notin g /\ e \notin opened /\ Top.x = Depth[e]
        /\ rest \in Seq(Frame) /\ rest # << >> /\ Len(rest) = Len(stack)
        /\ AllOpened(rest, opened)
        /\ Walk(rest, opened, g \cup {e})
    <2> HIDE DEF g
    <2>1. Top = Last(stack)
      BY DEF Top
    <2> QED BY <1>1, <1>2, <2>1, WalkRead
  <1>4. Depth[e] \in Nat /\ node \in [Path -> Node]
    BY DepthType DEF TypeOK
  <1>5. /\ node' \in [Path -> Node] /\ node'[e].search = v /\ node'[e].level = Depth[e]
        /\ node'[e].path = e
        /\ \A p \in Path : p # e => node'[p] = node[p]
    <2> DEFINE r == create_node(e, Depth[e], v)
    <2>1. r \in Node /\ r.search = v /\ r.level = Depth[e] /\ r.path = e
      BY <1>4 DEF create_node, Node
    <2>2. node' = [node EXCEPT ![e] = r]
      BY <1>1, <1>3
    <2> HIDE DEF r
    <2> QED BY <2>1, <2>2, <1>4
  <1>6. Listing(list') /\ ToSet(list') = g \cup {e} /\ Len(list') = Len(list) + 1
    <2>1. list' = InsertAt(list, PlaceOf(DepthsOf(list), Depth[e]), e)
      BY <1>1, <1>3, LevelsAreDepths DEF insert_sorted
    <2>2. Listing(list)
      BY DEF ListInv
    <2> QED BY <2>1, <2>2, <1>3, ListingInsert
  <1> HIDE DEF rest, g
  <1>7. CASE Kind[e] = "dir"
    <2>1. stack' = Append(rest, [dir |-> e, x |-> Top.x, unread |-> {}]) /\ pc' = "opendir"
      BY <1>1, <1>7
    <2>2. AllOpened(rest, opened)
      BY <1>3
    <2>3. e \in g \cup {e} /\ Top.x = Depth[e] /\ e \notin opened /\ Walk(rest, opened, g \cup {e})
      BY <1>3
    <2>4. Walk(stack', opened, g \cup {e}) /\ stack' # << >> /\ Last(stack').dir = e
      BY <2>1, <2>2, <2>3, WalkCall
    <2> QED BY <2>1, <2>3, <2>4, <1>1, <1>3, <1>5, <1>6 DEF g
  <1>8. CASE Kind[e] # "dir"
    <2>1. stack' = rest /\ pc' = "readdir"
      BY <1>1, <1>8
    <2>2. AllOpened(rest, opened)
      BY <1>3
    <2> QED BY <2>1, <2>2, <1>1, <1>3, <1>5, <1>6 DEF g
  <1> QED BY <1>7, <1>8

(* What a step of a thread leaves alone.                                    *)
LEMMA ThreadFacts ==
  ASSUME TypeOK, NEW p \in Path, ThreadStep(p)
  PROVE  /\ Running /\ UNCHANGED <<ParMode, pc, walk, list, TID_list, freed, cur, sort, output, late>>
         /\ node' \in [Path -> Node] /\ arg' \in [Path -> Path]
         /\ tpc' \in [Path -> {"none", "start", "search", "done", "failed"}]
         /\ InThread(p) /\ tpc'[p] \in {"search", "done"}
         /\ \A q \in Path : /\ node'[q].path = node[q].path /\ node'[q].level = node[q].level
                            /\ node'[q].i = node[q].i
                            /\ (q # p => /\ node'[q] = node[q] /\ tpc'[q] = tpc[q])
  <1>t. node \in [Path -> Node] /\ arg \in [Path -> Path] /\ node[p] \in Node
        /\ tpc \in [Path -> {"none", "start", "search", "done", "failed"}]
    BY DEF TypeOK
  <1>1. CASE ReadPath(p)
    <2>1. /\ Running /\ tpc[p] = "start" /\ tpc' = [tpc EXCEPT ![p] = "search"]
          /\ arg' = [arg EXCEPT ![p] = node[p].path]
          /\ UNCHANGED <<ParMode, pc, walk, node, list, TID_list, freed, cur, sort, output, late>>
      BY <1>1 DEF ReadPath
    <2>2. node[p].path \in Path
      BY <1>t DEF Node
    <2> QED BY <1>t, <2>1, <2>2 DEF InThread
  <1>2. CASE StoreSearch(p)
    <2>1. /\ Running /\ tpc[p] = "search" /\ tpc' = [tpc EXCEPT ![p] = "done"]
          /\ UNCHANGED <<ParMode, pc, walk, list, TID_list, arg, freed, cur, sort, output, late>>
      BY <1>2 DEF StoreSearch
    <2>2. \A q \in Path : keyword_search(q) \in Int
      BY SearchType
    <2>3. PICK v \in Int : node' = WithSearch(node, p, v)
      <3>1. PICK v \in IF freed[p] THEN {-1} \cup {keyword_search(q) : q \in Path}
                                   ELSE {keyword_search(arg[p])} : node' = WithSearch(node, p, v)
        BY <1>2 DEF StoreSearch, WithSearch
      <3>2. v \in Int
        BY <3>1, <2>2, <1>t
      <3> QED BY <3>1, <3>2
    <2>4. /\ node' \in [Path -> Node]
          /\ \A q \in Path : /\ node'[q].path = node[q].path /\ node'[q].level = node[q].level
                             /\ node'[q].i = node[q].i /\ (q # p => node'[q] = node[q])
      BY <1>t, <2>3, SearchSet, NodeIsRow
    <2> QED BY <1>t, <2>1, <2>4 DEF InThread
  <1> QED BY <1>1, <1>2 DEF ThreadStep

(* What the three steps of an exchange do to the nodes.                     *)
LEMMA SwapPathFacts ==
  ASSUME TypeOK, ListInv, SwapPath
  PROVE  /\ This \in Path /\ That \in Path /\ This # That /\ cur \in 1 .. Len(list) - 1
         /\ node' \in [Path -> Node] /\ saved' \in Node /\ saved' = node[This]
         /\ node'[This].path = node[That].path
         /\ \A p \in Path : /\ node'[p].level = node[p].level /\ node'[p].i = node[p].i
                            /\ node'[p].search = node[p].search
                            /\ p # This => node'[p] = node[p]
         /\ Depth[This] = Depth[That]
  <1>1. /\ cur < Len(list) /\ Unordered /\ node' = WithPath(node, This, node[That].path)
        /\ saved' = node[This]
    BY DEF SwapPath, WithPath
  <1>2. /\ cur \in 1 .. Len(list) - 1 /\ list \in Seq(Path) /\ node \in [Path -> Node]
    BY <1>1 DEF TypeOK
  <1>3. This \in Path /\ That \in Path /\ This # That /\ This \in ToSet(list) /\ That \in ToSet(list)
    BY <1>2 DEF This, That, ListInv, Listing, ToSet
  <1>4. node[That].path \in Path /\ node[This] \in Node
    BY <1>2, <1>3 DEF Node
  <1>5. Depth[This] = Depth[That]
    BY <1>1, <1>3 DEF ListInv, Unordered
  <1> HIDE DEF This, That
  <1>6. /\ node' \in [Path -> Node] /\ node'[This].path = node[That].path
        /\ node'[This].level = node[This].level /\ node'[This].i = node[This].i
        /\ node'[This].search = node[This].search
        /\ \A p \in Path : p # This => node'[p] = node[p]
    BY <1>1, <1>2, <1>3, <1>4, PathSet, NodeIsRow
  <1> QED BY <1>1, <1>2, <1>3, <1>4, <1>5, <1>6

LEMMA SwapSearchFacts ==
  ASSUME TypeOK, ListInv, ShownInv, SwapSearch
  PROVE  /\ This \in Path /\ That \in Path /\ This # That /\ cur \in 1 .. Len(list) - 1
         /\ node' \in [Path -> Node]
         /\ node'[This].path = node[This].path /\ node'[This].search = node[That].search
         /\ node'[That].path = saved.path /\ node'[That].search = node[That].search
         /\ \A p \in Path : /\ node'[p].level = node[p].level /\ node'[p].i = node[p].i
                            /\ p \notin {This, That} => node'[p] = node[p]
  <1>1. /\ pc = "swap_search"
        /\ node' = WithPath(WithSearch(node, This, node[That].search), That, saved.path)
    BY DEF SwapSearch, WithPath, WithSearch
  <1>2. /\ cur \in 1 .. Len(list) - 1 /\ list \in Seq(Path) /\ node \in [Path -> Node]
        /\ saved \in Node
    BY <1>1 DEF TypeOK, ShownInv
  <1>3. This \in Path /\ That \in Path /\ This # That
    BY <1>2 DEF This, That, ListInv, Listing
  <1>4. node[That].search \in Int /\ saved.path \in Path
    BY <1>2, <1>3 DEF Node
  <1> HIDE DEF This, That
  <1> DEFINE h == WithSearch(node, This, node[That].search)
  <1>5. /\ h \in [Path -> Node] /\ h[This].search = node[That].search
        /\ h[This].path = node[This].path
        /\ h[This].level = node[This].level /\ h[This].i = node[This].i
        /\ \A p \in Path : p # This => h[p] = node[p]
    BY <1>2, <1>3, <1>4, SearchSet, NodeIsRow
  <1> HIDE DEF h
  <1>6. /\ node' \in [Path -> Node] /\ node'[That].path = saved.path
        /\ node'[That].level = h[That].level /\ node'[That].i = h[That].i
        /\ node'[That].search = h[That].search
        /\ \A p \in Path : p # That => node'[p] = h[p]
    <2>1. node' = WithPath(h, That, saved.path)
      BY <1>1 DEF h
    <2> QED BY <2>1, <1>3, <1>4, <1>5, PathSet, NodeIsRow
  <1> QED BY <1>2, <1>3, <1>5, <1>6

LEMMA SwapBackFacts ==
  ASSUME TypeOK, ListInv, ShownInv, SwapBack
  PROVE  /\ That \in Path /\ cur \in 1 .. Len(list) - 1
         /\ node' \in [Path -> Node] /\ node'[That].search = saved.search
         /\ \A p \in Path : /\ node'[p].level = node[p].level /\ node'[p].i = node[p].i
                            /\ node'[p].path = node[p].path /\ (p # That => node'[p] = node[p])
  <1>1. pc = "swap_back" /\ node' = WithSearch(node, That, saved.search)
    BY DEF SwapBack, SwapBackTo, WithSearch
  <1>2. /\ cur \in 1 .. Len(list) - 1 /\ list \in Seq(Path) /\ node \in [Path -> Node]
        /\ saved \in Node
    BY <1>1 DEF TypeOK, ShownInv
  <1>3. That \in Path /\ saved.search \in Int
    BY <1>2 DEF That, Node
  <1> HIDE DEF That
  <1> QED BY <1>1, <1>2, <1>3, SearchSet, NodeIsRow

(* What sub_level does to the nodes.                                        *)
LEMMA NumberFacts ==
  ASSUME TypeOK, ListInv, sub_level
  PROVE  /\ node' \in [Path -> Node]
         /\ \A p \in Path : /\ node'[p].path = node[p].path /\ node'[p].level = node[p].level
                            /\ node'[p].search = node[p].search
         /\ \A k \in 1 .. Len(list) : node'[list[k]].i = NumberAt(DepthsOf(list), k)
  <1> DEFINE At(p) == CHOOSE k \in DOMAIN list : list[k] = p
             N(p) == NumberAt(DepthsOf(list), At(p))
  <1>1. node' = [p \in Path |-> IF p \in ToSet(list) THEN WithNumber(node[p], N(p)) ELSE node[p]]
    BY LevelsAreDepths DEF sub_level, WithNumber
  <1>2. /\ node \in [Path -> Node] /\ list \in Seq(Path) /\ DOMAIN list = 1 .. Len(list)
        /\ Listing(list)
    BY DEF TypeOK, ListInv
  <1>3. ASSUME NEW p \in ToSet(list) PROVE At(p) \in 1 .. Len(list) /\ list[At(p)] = p
    BY <1>2 DEF ToSet
  <1>4. ASSUME NEW k \in 1 .. Len(list) PROVE list[k] \in ToSet(list) /\ At(list[k]) = k
    <2>1. list[k] \in ToSet(list)
      BY <1>2 DEF ToSet
    <2>2. At(list[k]) \in 1 .. Len(list) /\ list[At(list[k])] = list[k]
      BY <2>1, <1>3
    <2> HIDE DEF At
    <2> QED BY <2>1, <2>2, <1>2 DEF Listing
  <1> HIDE DEF At
  <1>5. \A p \in ToSet(list) : N(p) \in Nat
    BY <1>2, <1>3, NumberSorted
  <1> HIDE DEF N
  <1>6. ASSUME NEW p \in Path
        PROVE  /\ node'[p] \in Node /\ node'[p].path = node[p].path /\ node'[p].level = node[p].level
               /\ node'[p].search = node[p].search
               /\ p \in ToSet(list) => node'[p].i = N(p)
    <2>1. CASE p \in ToSet(list)
      <3>1. node'[p] = WithNumber(node[p], N(p)) /\ node[p] \in Node /\ N(p) \in Nat
        BY <2>1, <1>1, <1>2, <1>5
      <3> QED BY <3>1, NumberSet, NodeIsRow
    <2>2. CASE p \notin ToSet(list)
      BY <2>2, <1>1, <1>2
    <2> QED BY <2>1, <2>2
  <1>7. node' \in [Path -> Node]
    BY <1>1, <1>6
  <1>8. \A k \in 1 .. Len(list) : node'[list[k]].i = NumberAt(DepthsOf(list), k)
    <2>1. \A k \in 1 .. Len(list) : list[k] \in Path
      BY <1>2
    <2> QED BY <2>1, <1>4, <1>6 DEF N
  <1> QED BY <1>6, <1>7, <1>8

(* A step that leaves the walk, the list and the depths of the nodes alone, *)
(* and is beyond the walk.                                                  *)
LEMMA WalkKept ==
  ASSUME StackInv, ListInv, UNCHANGED <<walk, list>>,
         \A p \in Path : node'[p].level = node[p].level,
         \/ pc' = pc /\ (cur' = cur \/ pc \notin {"opendir", "readdir"})
         \/ pc \notin {"opendir", "readdir"} /\ pc' \notin {"opendir", "readdir"}
  PROVE  StackInv' /\ ListInv'
  <1>1. ToSet(list) \subseteq Path
    BY DEF StackInv, Walk
  <1>2. stack' = stack /\ opened' = opened /\ list' = list
    BY DEF walk
  <1>3. StackInv'
    BY <1>2 DEF StackInv
  <1>4. ListInv'
    BY <1>1, <1>2 DEF ListInv
  <1> QED BY <1>3, <1>4

LEMMA WalkNext ==
  TypeOK /\ StackInv /\ ListInv /\ ShownInv /\ [Next]_vars => StackInv' /\ ListInv'
  <1> SUFFICES ASSUME TypeOK, StackInv, ListInv, ShownInv, [Next]_vars PROVE StackInv' /\ ListInv'
    OBVIOUS
  <1>0. Walk(stack, opened, ToSet(list)) /\ Listing(list)
    BY DEF StackInv, ListInv
  <1>1. CASE OpenDir
    <2>1. /\ pc = "opendir" /\ pc' = "readdir" /\ opened' = opened \cup {Last(stack).dir}
          /\ stack' = OpenTop(stack) /\ list' = list /\ node' = node /\ cur' = cur
      BY <1>1 DEF OpenDir, Top, OpenTop
    <2>2. stack # << >> /\ Last(stack).dir \notin opened /\ cur = 1
      BY <2>1 DEF StackInv
    <2>3. Walk(stack', opened', ToSet(list')) /\ stack' # << >> /\ AllOpened(stack', opened')
      BY <2>1, <2>2, <1>0, WalkOpen
    <2>8. StackInv'
      BY <2>1, <2>2, <2>3 DEF StackInv
    <2>9. ListInv'
      BY <2>1 DEF ListInv
    <2> QED BY <2>8, <2>9
  <1>2. CASE OpenDirFails \/ CloseDir
    <2>1. /\ pc \in {"opendir", "readdir"} /\ stack' = Front(stack)
          /\ pc = "opendir" \/ Last(stack).unread = {}
          /\ pc' = IF Len(stack) > 1 THEN "readdir" ELSE IF ParMode = 1 THEN "join" ELSE "sort"
          /\ list' = list /\ node' = node /\ cur' = cur /\ opened' = opened
      BY <1>2 DEF OpenDirFails, CloseDir, Return, Top
    <2>2. stack # << >> /\ cur = 1 /\ stack \in Seq(Frame)
      BY <2>1 DEF StackInv, Walk
    <2>3. Last(stack).unread = {}
      <3>1. CASE pc = "opendir"
        <4>1. Last(stack) = stack[Len(stack)] /\ Len(stack) \in Nat \ {0}
          BY <2>2, TopType
        <4>2. FrameOK(Last(stack), opened, ToSet(list))
          BY <4>1, <1>0 DEF Walk
        <4>3. Last(stack).dir \notin opened
          BY <3>1 DEF StackInv
        <4> QED BY <4>2, <4>3 DEF FrameOK
      <3> QED BY <3>1, <2>1
    <2>4. /\ Walk(stack', opened', ToSet(list')) /\ Len(stack') = Len(stack) - 1
          /\ AllOpened(stack', opened')
      BY <2>1, <2>2, <2>3, <1>0, WalkClose
    <2>5. Len(stack) \in Nat \ {0} /\ stack' \in Seq(Frame)
      BY <2>2, <2>4, TopType DEF Walk
    <2>6. pc' = "readdir" => stack' # << >>
      <3>1. \A m \in Nat : m > 1 => m - 1 # 0
        OBVIOUS
      <3>2. Len(stack) > 1 => Len(stack') # 0
        BY <3>1, <2>4, <2>5, Zenon
      <3> QED BY <3>2, <2>1
    <2>7. pc' # "readdir" => stack' = << >>
      <3> SUFFICES ASSUME pc' # "readdir" PROVE stack' = << >>
        OBVIOUS
      <3>1. Len(stack') = 0
        BY <2>1, <2>4, <2>5
      <3> QED BY <3>1, <2>5
    <2>8. StackInv'
      BY <2>1, <2>2, <2>4, <2>6, <2>7 DEF StackInv
    <2>9. ListInv'
      BY <2>1 DEF ListInv
    <2> QED BY <2>8, <2>9
  <1>3. ASSUME NEW e \in Path, SkipEntry(e) PROVE StackInv' /\ ListInv'
    <2>1. /\ pc = "readdir" /\ e \in Last(stack).unread /\ Kind[e] = "hidden" /\ pc' = pc
          /\ stack' = ReadEntry(stack, e)
          /\ list' = list /\ node' = node /\ cur' = cur /\ opened' = opened
      BY <1>3 DEF SkipEntry, Top, ReadEntry
    <2>2. stack # << >> /\ cur = 1 /\ AllOpened(stack, opened)
      BY <2>1 DEF StackInv
    <2>3. /\ Walk(stack', opened', ToSet(list')) /\ stack' # << >> /\ AllOpened(stack', opened')
      BY <2>1, <2>2, <1>0, WalkRead
    <2>4. StackInv'
      BY <2>1, <2>2, <2>3 DEF StackInv
    <2>5. ListInv'
      BY <2>1 DEF ListInv
    <2> QED BY <2>4, <2>5
  <1>4. ASSUME NEW e \in Path, NEW v \in Int, AddNode(e, v), cur' = cur, opened' = opened
        PROVE  StackInv' /\ ListInv'
    <2>1. cur = 1
      BY <1>4, AddFacts DEF StackInv
    <2>2. StackInv'
      BY <1>4, <2>1, AddFacts DEF StackInv
    <2>3. /\ Listing(list') /\ ToSet(list') = ToSet(list) \cup {e} /\ node'[e].level = Depth[e]
          /\ \A p \in Path : p # e => node'[p] = node[p]
      BY <1>4, AddFacts
    <2>4. ToSet(list) \subseteq Path
      BY <1>0 DEF Walk
    <2>5. list' # << >>
      <3>1. ToSet(<< >>) = {}
        BY DEF ToSet
      <3> QED BY <2>3, <3>1
    <2>6. ListInv'
      BY <2>3, <2>4, <2>5 DEF ListInv
    <2> QED BY <2>2, <2>6
  <1>5. ASSUME NEW e \in Path, AddSearched(e) \/ AddThread(e) PROVE StackInv' /\ ListInv'
    <2>1. keyword_search(e) \in Int /\ NotSearched \in Int
      BY SearchType DEF NotSearched
    <2> QED BY <1>4, <1>5, <2>1 DEF AddSearched, AddThread
  <1>6. CASE SwapPath \/ SwapSearch \/ SwapBack \/ sub_level
    <2>1. /\ UNCHANGED <<walk, list>> /\ pc \notin {"opendir", "readdir"}
          /\ pc' \notin {"opendir", "readdir"}
      BY <1>6 DEF SwapPath, SwapSearch, SwapBack, SwapBackTo, sub_level, MainAt
    <2>2. \A p \in Path : node'[p].level = node[p].level
      BY <1>6, SwapPathFacts, SwapSearchFacts, SwapBackFacts, NumberFacts
    <2> QED BY <2>1, <2>2, WalkKept
  <1>7. ASSUME NEW p \in Path, ThreadStep(p) PROVE StackInv' /\ ListInv'
    <2>1. UNCHANGED <<walk, list>> /\ pc' = pc /\ cur' = cur
          /\ \A q \in Path : node'[q].level = node[q].level
      BY <1>7, ThreadFacts
    <2> QED BY <2>1, WalkKept
  <1>8. CASE JoinFaults \/ JoinThread \/ JoinEnds \/ KeepOrder \/ PassAgain \/ SortEnds
             \/ PrintNode \/ PrintFaults \/ Exit
    <2>1. UNCHANGED <<walk, list>> /\ node' = node
      BY <1>8 DEF JoinFaults, JoinThread, JoinEnds, JoinUpTo, KeepOrder, PassAgain, PassWith,
                  SortEnds, SortEndsIf, PrintNode, PrintFaults, Exit, MainMoves, MainAt
    <2>2. pc \notin {"opendir", "readdir"} /\ pc' \notin {"opendir", "readdir"}
      BY <1>8 DEF JoinFaults, JoinThread, JoinEnds, JoinUpTo, KeepOrder, PassAgain, PassWith,
                  SortEnds, SortEndsIf, PrintNode, PrintFaults, Exit, MainMoves, MainAt
    <2> QED BY <2>1, <2>2, WalkKept
  <1>9. CASE UNCHANGED vars
    <2>1. UNCHANGED <<walk, list>> /\ node' = node /\ pc' = pc /\ cur' = cur
      BY <1>9 DEF vars
    <2> QED BY <2>1, WalkKept
  <1> QED BY <1>1, <1>2, <1>3, <1>5, <1>6, <1>7, <1>8, <1>9 DEF Next, MainStep

LEMMA TypeNext ==
  TypeOK /\ StackInv /\ ListInv /\ ShownInv /\ ThreadInv /\ [Next]_vars => TypeOK'
  <1> SUFFICES ASSUME TypeOK, StackInv, ListInv, ShownInv, ThreadInv, [Next]_vars PROVE TypeOK'
    OBVIOUS
  <1>0. StackInv' /\ ListInv'
    BY WalkNext
  <1>1. /\ stack' \in Seq([dir : Path, x : Nat, unread : SUBSET Path]) /\ opened' \subseteq Path
        /\ list' \in Seq(Path)
    BY <1>0 DEF StackInv, ListInv, Walk, Listing, Frame
  <1>t. /\ tpc \in [Path -> {"none", "start", "search", "done", "failed"}]
        /\ arg \in [Path -> Path] /\ freed \in [Path -> BOOLEAN]
        /\ node \in [Path -> Node] /\ swap \in BOOLEAN /\ late \in BOOLEAN /\ saved \in Node
        /\ output \in Seq(Node) /\ TID_list \in Seq(Path)
        /\ (pc = "sort" => cur <= Len(list)) /\ ParMode \in Modes /\ list \in Seq(Path)
    BY DEF TypeOK
  <1>c. /\ cur \in 1 .. Len(list) + 1 /\ Len(list) \in Nat \ {0}
    BY DEF TypeOK, ListInv
  <1>2. ASSUME NEW e \in Path, AddSearched(e) \/ AddThread(e) PROVE TypeOK'
    <2>1. keyword_search(e) \in Int /\ NotSearched \in Int
      BY SearchType DEF NotSearched
    <2>2. PICK v \in Int : AddNode(e, v)
      BY <1>2, <2>1 DEF AddSearched, AddThread
    <2>3. /\ node' \in [Path -> Node] /\ Len(list') = Len(list) + 1 /\ pc' \in {"opendir", "readdir"}
      BY <2>2, AddFacts
    <2>4. /\ UNCHANGED <<ParMode, arg, freed, cur, sort, output, late>>
          /\ TID_list' = TID_list \/ TID_list' = <<e>> \o TID_list
          /\ tpc' = tpc \/ tpc' = [tpc EXCEPT ![e] = "start"] \/ tpc' = [tpc EXCEPT ![e] = "failed"]
      BY <1>2 DEF AddSearched, AddThread, thrd
    <2>5. tpc' \in [Path -> {"none", "start", "search", "done", "failed"}]
      BY <1>t, <2>4
    <2>6. TID_list' \in Seq(Path)
      <3>1. <<e>> \o TID_list \in Seq(Path)
        BY <1>t
      <3> QED BY <3>1, <1>t, <2>4
    <2>7. cur' \in 1 .. Len(list') + 1
      BY <1>c, <2>3, <2>4
    <2> QED BY <1>1, <1>t, <2>3, <2>4, <2>5, <2>6, <2>7 DEF TypeOK, MainPc, sort
  <1>3. ASSUME NEW p \in Path, ThreadStep(p) PROVE TypeOK'
    <2>1. /\ UNCHANGED <<ParMode, pc, walk, list, TID_list, freed, cur, sort, output, late>>
          /\ node' \in [Path -> Node] /\ arg' \in [Path -> Path]
          /\ tpc' \in [Path -> {"none", "start", "search", "done", "failed"}]
      BY <1>3, ThreadFacts
    <2> QED BY <2>1, <1>1 DEF TypeOK, sort
  <1>4. CASE OpenDir \/ OpenDirFails \/ CloseDir \/ \E e \in Path : SkipEntry(e)
    <2>1. /\ UNCHANGED <<ParMode, node, list, thrd, cur, sort, output>>
          /\ pc' \in {"readdir", "sort", "join"} /\ pc \in {"opendir", "readdir"}
          /\ late' = late \/ late' = (pc' = "sort" /\ \E p \in Path : InThread(p))
      BY <1>4 DEF OpenDir, OpenDirFails, CloseDir, Return, SkipEntry
    <2>2. cur = 1
      BY <2>1 DEF StackInv
    <2>3. cur' \in 1 .. Len(list') + 1 /\ cur' <= Len(list')
      BY <1>c, <2>1, <2>2
    <2>4. late' \in BOOLEAN
      BY <2>1, <1>t, Zenon
    <2> QED BY <1>1, <2>1, <2>3, <2>4 DEF TypeOK, MainPc, thrd, sort
  <1>5. CASE JoinFaults \/ JoinThread \/ PrintFaults \/ Exit \/ KeepOrder \/ SortEnds
    <2>1. /\ UNCHANGED <<ParMode, node, list, thrd, sort, output, late>> /\ pc' \in MainPc
      BY <1>5 DEF JoinFaults, JoinThread, PrintFaults, Exit, KeepOrder, SortEnds, SortEndsIf,
                  MainMoves, MainAt, MainPc
    <2>2. /\ cur' = cur \/ (cur' = cur + 1 /\ cur < Len(list)) \/ cur' = 1
          /\ pc' = "sort" => cur < Len(list) /\ cur' = cur + 1
      <3>1. Len(TID_list) \in Nat /\ Len(TID_list) < Len(list)
        BY <1>t DEF ThreadInv
      <3>2. CASE JoinThread
        <4>1. cur < Len(TID_list) /\ cur' = cur + 1 /\ pc' = "join"
          BY <3>2 DEF JoinThread, MainMoves, MainAt
        <4> QED BY <4>1, <3>1, <1>c
      <3>3. CASE ~JoinThread
        BY <1>5, <3>3 DEF JoinFaults, PrintFaults, Exit, KeepOrder, SortEnds, SortEndsIf,
                  MainMoves, MainAt
      <3> QED BY <3>2, <3>3
    <2>3. cur' \in 1 .. Len(list') + 1 /\ (pc' = "sort" => cur' <= Len(list'))
      BY <1>c, <2>1, <2>2
    <2> QED BY <1>1, <2>1, <2>3 DEF TypeOK, thrd, sort
  <1>6. CASE JoinEnds
    <2>1. /\ pc' = "sort" /\ cur' = 1 /\ late' = InThread(Last(TID_list))
          /\ UNCHANGED <<ParMode, node, list, thrd, sort, output>>
      BY <1>6 DEF JoinEnds, JoinUpTo, MainAt
    <2>2. cur' \in 1 .. Len(list') + 1 /\ cur' <= Len(list')
      BY <1>c, <2>1
    <2>3. late' \in BOOLEAN
      <3>1. \A p : InThread(p) \in BOOLEAN
        BY DEF InThread
      <3> QED BY <2>1, <3>1, Zenon
    <2> QED BY <1>1, <2>1, <2>2, <2>3 DEF TypeOK, MainPc, thrd, sort
  <1>7. CASE SwapPath
    <2>1. /\ pc' = "swap_search" /\ cur' = cur /\ swap' = TRUE
          /\ freed' = [freed EXCEPT ![This] = freed[This] \/ tpc[This] = "search"]
          /\ UNCHANGED <<ParMode, list, TID_list, tpc, arg, output, late>>
      BY <1>7 DEF SwapPath, MainAt
    <2>2. This \in Path /\ node' \in [Path -> Node] /\ saved' \in Node
      BY <1>7, SwapPathFacts
    <2>3. freed' \in [Path -> BOOLEAN]
      <3>1. (freed[This] \/ tpc[This] = "search") \in BOOLEAN
        BY Zenon
      <3> HIDE DEF This
      <3> QED BY <1>t, <2>1, <2>2, <3>1
    <2> QED BY <1>1, <1>t, <1>c, <2>1, <2>2, <2>3 DEF TypeOK, MainPc
  <1>8. CASE SwapSearch
    <2>1. /\ pc' = "swap_back" /\ cur' = cur
          /\ freed' = [freed EXCEPT ![That] = freed[That] \/ tpc[That] = "search"]
          /\ UNCHANGED <<ParMode, list, TID_list, tpc, arg, sort, output, late>>
      BY <1>8 DEF SwapSearch, MainAt
    <2>2. That \in Path /\ node' \in [Path -> Node]
      BY <1>8, SwapSearchFacts
    <2>3. freed' \in [Path -> BOOLEAN]
      <3>1. (freed[That] \/ tpc[That] = "search") \in BOOLEAN
        BY Zenon
      <3> HIDE DEF That
      <3> QED BY <1>t, <2>1, <2>2, <3>1
    <2> QED BY <1>1, <1>t, <1>c, <2>1, <2>2, <2>3 DEF TypeOK, MainPc, sort
  <1>9. CASE SwapBack
    <2>1. /\ pc' = "sort" /\ cur' = cur + 1
          /\ UNCHANGED <<ParMode, list, thrd, sort, output, late>>
      BY <1>9 DEF SwapBack, SwapBackTo, MainAt
    <2>2. cur \in 1 .. Len(list) - 1 /\ node' \in [Path -> Node]
      BY <1>9, SwapBackFacts
    <2>3. cur' \in 1 .. Len(list') + 1 /\ cur' <= Len(list')
      BY <1>c, <2>1, <2>2
    <2> QED BY <1>1, <2>1, <2>2, <2>3 DEF TypeOK, MainPc, thrd, sort
  <1>10. CASE sub_level
    <2>1. /\ pc' = "print" /\ cur' = cur /\ UNCHANGED <<ParMode, list, thrd, sort, output, late>>
      BY <1>10 DEF sub_level, MainAt
    <2>2. node' \in [Path -> Node]
      BY <1>10, NumberFacts
    <2> QED BY <1>1, <2>1, <2>2 DEF TypeOK, MainPc, thrd, sort
  <1>11. CASE PassAgain
    <2>1. /\ pc' = "sort" /\ cur' = 1 /\ swap' = FALSE
          /\ UNCHANGED <<ParMode, list, node, thrd, saved, output, late>>
      BY <1>11 DEF PassAgain, PassWith, MainAt
    <2>2. cur' \in 1 .. Len(list') + 1 /\ cur' <= Len(list')
      BY <1>c, <2>1
    <2> QED BY <1>1, <2>1, <2>2 DEF TypeOK, MainPc, thrd
  <1>12. CASE PrintNode
    <2>1. /\ pc' = "print" /\ cur' = cur + 1 /\ cur <= Len(list)
          /\ output' = Append(output, node[This])
          /\ UNCHANGED <<ParMode, thrd, list, sort, node, late>>
      BY <1>12 DEF PrintNode
    <2>2. node[This] \in Node
      BY <1>t, <1>c, <2>1 DEF This
    <2>3. output' \in Seq(Node)
      BY <1>t, <2>1, <2>2
    <2>4. cur' \in 1 .. Len(list') + 1
      BY <1>c, <2>1
    <2> QED BY <1>1, <2>1, <2>3, <2>4 DEF TypeOK, MainPc, thrd, sort
  <1>13. CASE UNCHANGED vars
    BY <1>13 DEF vars, walk, thrd, sort, TypeOK
  <1> QED BY <1>2, <1>3, <1>4, <1>5, <1>6, <1>7, <1>8, <1>9, <1>10, <1>11, <1>12, <1>13 DEF Next, MainStep

(* The paths of the nodes, when no exchange is half done.                   *)
LEMMA ShownAt ==
  ASSUME TypeOK
  PROVE  /\ DOMAIN Shown = 1 .. Len(list) /\ DOMAIN list = 1 .. Len(list) /\ Len(list) \in Nat
         /\ \A k \in 1 .. Len(list) : list[k] \in Path
         /\ \A k \in 1 .. Len(list) :
              Shown[k] = IF pc = "swap_search" /\ k = cur + 1 THEN saved.path
                                                              ELSE node[list[k]].path
         /\ Shown \in Seq(Path) /\ Len(Shown) = Len(list)
  <1>1. /\ DOMAIN list = 1 .. Len(list) /\ Len(list) \in Nat
        /\ \A k \in 1 .. Len(list) : list[k] \in Path
    BY DEF TypeOK
  <1>2. /\ DOMAIN Shown = 1 .. Len(list)
        /\ \A k \in 1 .. Len(list) :
             Shown[k] = IF pc = "swap_search" /\ k = cur + 1 THEN saved.path
                                                             ELSE node[list[k]].path
    BY <1>1 DEF Shown
  <1>3. saved.path \in Path /\ \A p \in Path : node[p].path \in Path
    <2>1. saved \in Node /\ \A p \in Path : node[p] \in Node
      BY DEF TypeOK
    <2> QED BY <2>1 DEF Node
  <1>4. \A k \in 1 .. Len(list) : Shown[k] \in Path
    BY <1>1, <1>2, <1>3
  <1>5. Shown = [k \in 1 .. Len(list) |-> Shown[k]]
    BY <1>1, <1>2 DEF Shown
  <1>6. Shown \in Seq(Path) /\ Len(Shown) = Len(list)
    <2> DEFINE f == Shown
    <2>1. f \in [1 .. Len(list) -> Path]
      BY <1>4, <1>5
    <2> HIDE DEF f
    <2>2. f \in Seq(Path) /\ Len(f) = Len(list)
      BY <1>1, <2>1
    <2> QED BY <2>2 DEF f
  <1> QED BY <1>1, <1>2, <1>6

(* A step that changes no path and is not part of an exchange.              *)
LEMMA ShownSame ==
  ASSUME TypeOK, list' = list, \A p \in Path : node'[p].path = node[p].path,
         \/ pc # "swap_search" /\ pc' # "swap_search"
         \/ pc' = pc /\ cur' = cur /\ saved' = saved
  PROVE  Shown' = Shown
  <1>1. \A k \in DOMAIN list : node'[list[k]].path = node[list[k]].path
    BY ShownAt
  <1> QED BY <1>1 DEF Shown

LEMMA ExchangeShown ==
  ASSUME TypeOK, ListInv, SwapPath
  PROVE  /\ Shown' = [Shown EXCEPT ![cur] = Shown[cur + 1], ![cur + 1] = Shown[cur]]
         /\ cur \in 1 .. Len(list) - 1 /\ Depth[list[cur]] = Depth[list[cur + 1]]
         /\ list' = list /\ cur' = cur /\ pc = "sort" /\ pc' = "swap_search" /\ swap'
  <1> DEFINE t == [Shown EXCEPT ![cur] = Shown[cur + 1], ![cur + 1] = Shown[cur]]
  <1>1. list' = list /\ cur' = cur /\ pc = "sort" /\ pc' = "swap_search" /\ swap'
    BY DEF SwapPath, MainAt
  <1>2. /\ This \in Path /\ That \in Path /\ This # That /\ cur \in 1 .. Len(list) - 1
        /\ saved' = node[This] /\ node'[This].path = node[That].path
        /\ \A p \in Path : p # This => node'[p] = node[p]
        /\ Depth[This] = Depth[That]
    BY SwapPathFacts
  <1>3. This = list[cur] /\ That = list[cur + 1]
    BY DEF This, That
  <1>4. /\ DOMAIN Shown = 1 .. Len(list) /\ DOMAIN list = 1 .. Len(list) /\ Len(list) \in Nat
        /\ \A k \in 1 .. Len(list) : list[k] \in Path /\ Shown[k] = node[list[k]].path
    BY <1>1, ShownAt
  <1>5. cur \in 1 .. Len(list) /\ cur + 1 \in 1 .. Len(list) /\ cur # cur + 1
    BY <1>2, <1>4
  <1>6. ASSUME NEW k \in 1 .. Len(list)
        PROVE  Shown'[k] = IF k = cur THEN Shown[cur + 1] ELSE IF k = cur + 1 THEN Shown[cur] ELSE Shown[k]
    <2>1. Shown'[k] = IF k = cur + 1 THEN saved'.path ELSE node'[list[k]].path
      BY <1>1, <1>4 DEF Shown
    <2>2. k # cur => list[k] # This
      BY <1>2, <1>3, <1>4, <1>5 DEF ListInv, Listing
    <2>3. CASE k = cur
      BY <2>1, <2>3, <1>2, <1>3, <1>4, <1>5
    <2>4. CASE k = cur + 1
      BY <2>1, <2>4, <1>2, <1>3, <1>4, <1>5
    <2>5. CASE k # cur /\ k # cur + 1
      BY <2>1, <2>2, <2>5, <1>2, <1>4
    <2> QED BY <2>3, <2>4, <2>5
  <1>7. \A k \in 1 .. Len(list) : t[k] = IF k = cur THEN Shown[cur + 1]
                                         ELSE IF k = cur + 1 THEN Shown[cur] ELSE Shown[k]
    BY <1>4, <1>5
  <1>8. DOMAIN Shown' = 1 .. Len(list) /\ DOMAIN t = 1 .. Len(list)
    BY <1>1, <1>4 DEF Shown
  <1>9. Shown' = t
    <2>1. Shown' = [k \in 1 .. Len(list) |-> Shown'[k]]
      BY <1>1, <1>4 DEF Shown
    <2>2. t = [k \in 1 .. Len(list) |-> t[k]]
      BY <1>4
    <2> HIDE DEF t
    <2> QED BY <2>1, <2>2, <1>6, <1>7
  <1> QED BY <1>1, <1>2, <1>3, <1>9

(* The other two steps of an exchange show the same paths.                  *)
LEMMA ExchangeEnds ==
  ASSUME TypeOK, ListInv, ShownInv, SwapSearch \/ SwapBack
  PROVE  Shown' = Shown
  <1>1. CASE SwapSearch
    <2>1. list' = list /\ cur' = cur /\ pc = "swap_search" /\ pc' = "swap_back" /\ saved' = saved
      BY <1>1 DEF SwapSearch, MainAt, sort
    <2>2. /\ This \in Path /\ That \in Path /\ This # That /\ cur \in 1 .. Len(list) - 1
          /\ node'[This].path = node[This].path /\ node'[That].path = saved.path
          /\ \A p \in Path : p \notin {This, That} => node'[p] = node[p]
      BY <1>1, SwapSearchFacts
    <2>3. \A k \in 1 .. Len(list) : list[k] \in Path /\ (k # cur + 1 => list[k] # That)
      BY <2>2, ShownAt DEF That, ListInv, Listing
    <2>4. \A k \in 1 .. Len(list) : k # cur + 1 => node'[list[k]].path = node[list[k]].path
      BY <2>2, <2>3
    <2>5. DOMAIN list = 1 .. Len(list)
      BY ShownAt
    <2> QED BY <2>1, <2>2, <2>4, <2>5 DEF Shown, That
  <1>2. CASE SwapBack
    <2>1. list' = list /\ pc = "swap_back" /\ pc' = "sort"
      BY <1>2 DEF SwapBack, SwapBackTo, MainAt
    <2>2. \A p \in Path : node'[p].path = node[p].path
      BY <1>2, SwapBackFacts
    <2> QED BY <2>1, <2>2, ShownSame
  <1> QED BY <1>1, <1>2

(* The steps that change no path.                                           *)
LEMMA QuietSteps ==
  ASSUME TypeOK, ListInv,
         \/ OpenDir \/ OpenDirFails \/ CloseDir \/ (\E e \in Path : SkipEntry(e))
         \/ JoinFaults \/ JoinThread \/ JoinEnds \/ KeepOrder \/ PassAgain \/ SortEnds
         \/ sub_level \/ PrintNode \/ PrintFaults \/ Exit
         \/ (\E p \in Path : ThreadStep(p)) \/ UNCHANGED vars
  PROVE  /\ list' = list /\ Shown' = Shown /\ \A p \in Path : node'[p].path = node[p].path
  <1>1. CASE \E p \in Path : ThreadStep(p)
    <2>1. UNCHANGED <<list, pc, cur, sort>> /\ \A p \in Path : node'[p].path = node[p].path
      BY <1>1, ThreadFacts
    <2> QED BY <2>1, ShownSame DEF sort
  <1>2. CASE sub_level
    <2>1. list' = list /\ pc = "number" /\ pc' = "print"
      BY <1>2 DEF sub_level, MainAt
    <2>2. \A p \in Path : node'[p].path = node[p].path
      BY <1>2, NumberFacts
    <2> QED BY <2>1, <2>2, ShownSame
  <1>3. CASE \/ OpenDir \/ OpenDirFails \/ CloseDir \/ (\E e \in Path : SkipEntry(e))
             \/ JoinFaults \/ JoinThread \/ JoinEnds \/ KeepOrder \/ PassAgain \/ SortEnds
             \/ PrintNode \/ PrintFaults \/ Exit
    <2>1. list' = list /\ node' = node /\ pc # "swap_search" /\ pc' # "swap_search"
      BY <1>3 DEF OpenDir, OpenDirFails, CloseDir, Return, SkipEntry, JoinFaults, JoinThread,
           JoinEnds, JoinUpTo, KeepOrder, PassAgain, PassWith, SortEnds, SortEndsIf, PrintNode,
           PrintFaults, Exit, MainMoves, MainAt
    <2> QED BY <2>1, ShownSame
  <1>4. CASE UNCHANGED vars
    BY <1>4 DEF vars, Shown, sort
  <1> QED BY <1>1, <1>2, <1>3, <1>4

LEMMA ShownNext ==
  TypeOK /\ StackInv /\ ListInv /\ ShownInv /\ TypeOK' /\ ListInv' /\ [Next]_vars => ShownInv'
  <1> SUFFICES ASSUME TypeOK, StackInv, ListInv, ShownInv, TypeOK', ListInv', [Next]_vars
               PROVE  ShownInv'
    OBVIOUS
  <1>1. ASSUME NEW e \in Path, AddSearched(e) \/ AddThread(e) PROVE ShownInv'
    <2>1. keyword_search(e) \in Int /\ NotSearched \in Int
      BY SearchType DEF NotSearched
    <2>2. PICK v \in Int : AddNode(e, v)
      BY <1>1, <2>1 DEF AddSearched, AddThread
    <2>3. /\ node'[e].path = e /\ pc = "readdir" /\ pc' \in {"opendir", "readdir"}
          /\ \A p \in Path : p # e => node'[p] = node[p]
      BY <2>2, AddFacts
    <2>4. \A p \in Path : node'[p].path = p
      BY <2>3 DEF ShownInv, Walking
    <2>5. Shown' = list'
      <3>1. (Plain => Shown = list)'
        BY ShownPlain, PTL
      <3> QED BY <3>1, <2>3, <2>4 DEF TypeOK, Plain
    <2> QED BY <2>3, <2>4, <2>5 DEF ShownInv, ListInv
  <1>2. CASE SwapPath
    <2>1. /\ Shown' = [Shown EXCEPT ![cur] = Shown[cur + 1], ![cur + 1] = Shown[cur]]
          /\ cur \in 1 .. Len(list) - 1 /\ Depth[list[cur]] = Depth[list[cur + 1]]
          /\ list' = list /\ cur' = cur /\ pc' = "swap_search" /\ swap'
      BY <1>2, ExchangeShown
    <2>2. Len(Shown) = Len(list) /\ Len(list) \in Nat
      BY ShownAt
    <2>3. Listing(Shown) /\ Depth[Shown[cur]] = Depth[Shown[cur + 1]]
      BY <2>1, <2>2 DEF ShownInv
    <2>4. /\ Listing(Shown') /\ ToSet(Shown') = ToSet(Shown)
          /\ \A k \in 1 .. Len(Shown) : k \notin {cur, cur + 1} => Shown'[k] = Shown[k]
          /\ Shown'[cur] = Shown[cur + 1] /\ Shown'[cur + 1] = Shown[cur]
      <3> DEFINE s == Shown
                 t == Shown'
      <3>1. /\ t = [s EXCEPT ![cur] = s[cur + 1], ![cur + 1] = s[cur]] /\ Listing(s)
            /\ cur \in 1 .. Len(s) - 1 /\ Depth[s[cur]] = Depth[s[cur + 1]]
        BY <2>1, <2>2, <2>3
      <3> HIDE DEF s, t
      <3>2. Listing(t) /\ ToSet(t) = ToSet(s)
        BY <3>1, ListingSwap
      <3>3. s \in Seq(Path)
        BY <3>1 DEF Listing
      <3>4. /\ \A k \in 1 .. Len(s) : k \notin {cur, cur + 1} => t[k] = s[k]
            /\ t[cur] = s[cur + 1] /\ t[cur + 1] = s[cur]
        BY <3>1, <3>3
      <3> QED BY <3>2, <3>4 DEF s, t
    <2>5. ASSUME NEW k \in 1 .. Len(list) PROVE Depth[Shown'[k]] = Depth[list[k]]
      <3>1. \A j \in 1 .. Len(list) : Depth[Shown[j]] = Depth[list[j]]
        BY DEF ShownInv
      <3>2. cur \in 1 .. Len(list) /\ cur + 1 \in 1 .. Len(list)
        BY <2>1, <2>2
      <3> QED BY <3>1, <3>2, <2>1, <2>2, <2>3, <2>4
    <2> QED BY <2>1, <2>2, <2>4, <2>5 DEF ShownInv, Walking
  <1>3. CASE SwapSearch \/ SwapBack
    <2>1. Shown' = Shown
      BY <1>3, ExchangeEnds
    <2>2. /\ list' = list /\ ~(Walking') /\ pc \in {"swap_search", "swap_back"}
          /\ pc' \in {"swap_search", "swap_back"} => cur' = cur /\ swap' = swap
      BY <1>3 DEF SwapSearch, SwapBack, SwapBackTo, MainAt, sort, Walking
    <2> QED BY <2>1, <2>2 DEF ShownInv
  <1>4. CASE \/ OpenDir \/ OpenDirFails \/ CloseDir \/ (\E e \in Path : SkipEntry(e))
             \/ JoinFaults \/ JoinThread \/ JoinEnds \/ KeepOrder \/ PassAgain \/ SortEnds
             \/ sub_level \/ PrintNode \/ PrintFaults \/ Exit
             \/ (\E p \in Path : ThreadStep(p)) \/ UNCHANGED vars
    <2>1. list' = list /\ Shown' = Shown /\ \A p \in Path : node'[p].path = node[p].path
      BY <1>4, QuietSteps
    <2>2. \/ pc' \notin {"swap_search", "swap_back"}
          \/ pc' = pc /\ cur' = cur /\ swap' = swap
      BY <1>4, ThreadFacts DEF OpenDir, OpenDirFails, CloseDir, Return, SkipEntry, JoinFaults,
           JoinThread, JoinEnds, JoinUpTo, KeepOrder, PassAgain, PassWith, SortEnds, SortEndsIf,
           sub_level, PrintNode, PrintFaults, Exit, MainMoves, MainAt, vars, sort
    <2>3. Walking' => Walking
      BY <1>4, ThreadFacts DEF OpenDir, OpenDirFails, CloseDir, Return, SkipEntry, JoinFaults,
           JoinThread, JoinEnds, JoinUpTo, KeepOrder, PassAgain, PassWith, SortEnds, SortEndsIf,
           sub_level, PrintNode, PrintFaults, Exit, MainMoves, MainAt, vars, Walking
    <2> QED BY <2>1, <2>2, <2>3 DEF ShownInv
  <1> QED BY <1>1, <1>2, <1>3, <1>4 DEF Next, MainStep

LEMMA OrderNext ==
  TypeOK /\ StackInv /\ ListInv /\ ShownInv /\ OrderInv /\ [Next]_vars => OrderInv'
  <1> SUFFICES ASSUME TypeOK, StackInv, ListInv, ShownInv, OrderInv, [Next]_vars PROVE OrderInv'
    OBVIOUS
  <1>t. cur \in 1 .. Len(list) + 1 /\ Len(list) \in Nat /\ Len(Shown) = Len(list)
    BY ShownAt DEF TypeOK
  <1>1. ASSUME NEW e \in Path, AddSearched(e) \/ AddThread(e) PROVE OrderInv'
    BY <1>1 DEF AddSearched, AddThread, AddNode, OrderInv
  <1>2. CASE SwapPath \/ SwapSearch
    BY <1>2 DEF SwapPath, SwapSearch, MainAt, OrderInv
  <1>3. CASE SwapBack
    <2>1. pc' = "sort" /\ pc = "swap_back" /\ swap' = swap
      BY <1>3 DEF SwapBack, SwapBackTo, MainAt, sort
    <2> QED BY <2>1 DEF ShownInv, OrderInv
  <1>4. CASE KeepOrder
    <2>1. /\ pc = "sort" /\ pc' = "sort" /\ cur' = cur + 1 /\ cur < Len(list) /\ ~Unordered
          /\ swap' = swap
      BY <1>4 DEF KeepOrder, MainMoves, MainAt, sort
    <2>2. Shown' = Shown
      BY <1>4, QuietSteps
    <2>3. Depth[Shown[cur]] = Depth[Shown[cur + 1]] => ~(Rank[Shown[cur]] > Rank[Shown[cur + 1]])
      <3>1. cur \in 1 .. Len(list) /\ cur + 1 \in 1 .. Len(list)
        BY <1>t, <2>1
      <3>2. /\ Shown[cur] = node[This].path /\ Shown[cur + 1] = node[That].path
        BY <3>1, <2>1, ShownAt DEF This, That
      <3>3. Depth[Shown[cur]] = node[This].level /\ Depth[Shown[cur + 1]] = node[That].level
        <4>1. This \in ToSet(list) /\ That \in ToSet(list)
          BY <3>1, ShownAt DEF This, That, ToSet
        <4> QED BY <4>1, <3>1 DEF ListInv, ShownInv, This, That
      <3> QED BY <3>2, <3>3, <2>1 DEF Unordered
    <2>4. \A k \in 1 .. cur' - 1 : k \in 1 .. cur - 1 \/ k = cur
      BY <1>t, <2>1
    <2> QED BY <2>1, <2>2, <2>3, <2>4 DEF OrderInv
  <1>5. CASE SortEnds
    <2>1. pc = "sort" /\ pc' = "number" /\ cur = Len(list) /\ ~swap
      BY <1>5 DEF SortEnds, SortEndsIf, MainMoves, MainAt
    <2>2. Shown' = Shown
      BY <1>5, QuietSteps
    <2> QED BY <1>t, <2>1, <2>2 DEF OrderInv, NeighboursInOrder
  <1>6. CASE OpenDir \/ OpenDirFails \/ CloseDir \/ JoinEnds \/ PassAgain
    <2>1. pc' \notin {"number", "print"} /\ (pc' = "sort" => cur' = 1)
      BY <1>6 DEF OpenDir, OpenDirFails, CloseDir, Return, JoinEnds, JoinUpTo, PassAgain, PassWith,
                  MainAt, StackInv
    <2> QED BY <2>1 DEF OrderInv
  <1>7. CASE \/ (\E e \in Path : SkipEntry(e)) \/ JoinFaults \/ JoinThread \/ sub_level
             \/ PrintNode \/ PrintFaults \/ Exit
             \/ (\E p \in Path : ThreadStep(p)) \/ UNCHANGED vars
    <2>1. Shown' = Shown
      BY <1>7, QuietSteps
    <2>2. /\ pc' = "sort" => pc = "sort" /\ cur' = cur /\ swap' = swap
          /\ pc' \in {"number", "print"} => pc \in {"number", "print"}
      BY <1>7, ThreadFacts DEF SkipEntry, JoinFaults, JoinThread, sub_level, PrintNode, PrintFaults,
           Exit, MainMoves, MainAt, vars, sort
    <2> QED BY <2>1, <2>2 DEF OrderInv
  <1> QED BY <1>1, <1>2, <1>3, <1>4, <1>5, <1>6, <1>7 DEF Next, MainStep

LEMMA PrintNext ==
  TypeOK /\ ListInv /\ ShownInv /\ PrintInv /\ [Next]_vars => PrintInv'
  <1> SUFFICES ASSUME TypeOK, ListInv, ShownInv, PrintInv, [Next]_vars PROVE PrintInv'
    OBVIOUS
  <1>t. /\ cur \in 1 .. Len(list) + 1 /\ Len(list) \in Nat
        /\ output \in Seq(Node) /\ node \in [Path -> Node]
        /\ \A k \in 1 .. Len(list) : list[k] \in Path /\ list[k] \in ToSet(list)
    BY ShownAt DEF TypeOK, ToSet
  <1>1. CASE sub_level
    <2>1. pc = "number" /\ pc' = "print" /\ UNCHANGED <<list, output, cur>>
      BY <1>1 DEF sub_level, MainAt
    <2>2. \A k \in 1 .. Len(list) : node'[list[k]].i = NumberAt(DepthsOf(list), k)
      BY <1>1, NumberFacts
    <2>3. DepthsOf(Shown) = DepthsOf(list) /\ Shown' = Shown
      <3>1. Shown' = Shown
        BY <1>1, QuietSteps
      <3> QED BY <3>1, ShownAt DEF DepthsOf, ShownInv
    <2>4. output = << >> /\ cur = 1
      BY <2>1 DEF PrintInv
    <2>5. Len(output) = 0
      BY <2>4
    <2> QED BY <2>1, <2>2, <2>3, <2>4, <2>5 DEF PrintInv
  <1>2. CASE PrintNode
    <2>1. /\ pc = "print" /\ pc' = "print" /\ cur <= Len(list) /\ cur' = cur + 1 /\ list' = list
          /\ output' = Append(output, node[This]) /\ node' = node
      BY <1>2 DEF PrintNode
    <2> DEFINE r == node[This]
    <2>2. /\ cur \in 1 .. Len(list) /\ r \in Node /\ r.path = Shown[cur]
          /\ r.level = Depth[Shown[cur]] /\ r.i = NumberAt(DepthsOf(Shown), cur)
      <3>1. cur \in 1 .. Len(list) /\ r \in Node
        BY <1>t, <2>1 DEF This
      <3>2. r.path = Shown[cur]
        BY <3>1, <2>1, ShownAt DEF This
      <3>3. r.level = Depth[Shown[cur]]
        BY <3>1, <1>t DEF This, ListInv, ShownInv
      <3>4. r.i = NumberAt(DepthsOf(Shown), cur)
        BY <3>1, <2>1 DEF This, PrintInv
      <3> QED BY <3>1, <3>2, <3>3, <3>4
    <2>3. Shown' = Shown
      BY <1>2, QuietSteps
    <2> HIDE DEF r
    <2>4. Len(output) = cur - 1 /\ cur - 1 \in Nat
      BY <2>1, <1>t DEF PrintInv
    <2>5. /\ Len(output') = cur /\ output'[cur] = r
          /\ \A k \in 1 .. cur - 1 : output'[k] = output[k]
      <3>1. Len(output') = Len(output) + 1 /\ output'[Len(output) + 1] = r
            /\ \A k \in 1 .. Len(output) : output'[k] = output[k]
        BY <1>t, <2>1, <2>2 DEF r
      <3> QED BY <3>1, <2>4, <1>t
    <2>6. \A k \in 1 .. cur : k \in 1 .. cur - 1 \/ k = cur
      BY <1>t
    <2>7. \A k \in 1 .. cur - 1 :
            /\ output[k].path = Shown[k] /\ output[k].level = Depth[Shown[k]]
            /\ output[k].i = NumberAt(DepthsOf(Shown), k)
      BY <2>1, <2>4 DEF PrintInv
    <2>8. \A k \in 1 .. Len(output') :
            /\ output'[k].path = Shown[k] /\ output'[k].level = Depth[Shown[k]]
            /\ output'[k].i = NumberAt(DepthsOf(Shown), k)
      BY <2>2, <2>5, <2>6, <2>7
    <2>9. Len(output') = cur' - 1
      BY <2>1, <2>5, <1>t
    <2>10. \A k \in 1 .. Len(list) : node[list[k]].i = NumberAt(DepthsOf(Shown), k)
      BY <2>1 DEF PrintInv
    <2> QED BY <2>1, <2>3, <2>8, <2>9, <2>10 DEF PrintInv
  <1>3. ASSUME NEW p \in Path, ThreadStep(p) PROVE PrintInv'
    <2>1. UNCHANGED <<pc, list, cur, output>> /\ \A q \in Path : node'[q].i = node[q].i
      BY <1>3, ThreadFacts
    <2>2. Shown' = Shown
      BY <1>3, QuietSteps
    <2> QED BY <2>1, <2>2, <1>t DEF PrintInv
  <1>4. ASSUME NEW e \in Path, AddSearched(e) \/ AddThread(e) \/ SkipEntry(e) PROVE PrintInv'
    BY <1>4 DEF AddSearched, AddThread, SkipEntry, AddNode, PrintInv
  <1>5. CASE \/ OpenDir \/ OpenDirFails \/ CloseDir \/ JoinFaults \/ JoinThread \/ JoinEnds
             \/ KeepOrder \/ SwapPath \/ SwapSearch \/ SwapBack \/ PassAgain \/ SortEnds
             \/ PrintFaults \/ Exit
    <2>1. /\ output' = output /\ pc' # "print" /\ (pc' = "number" => cur' = 1)
          /\ pc \notin {"print", "exited", "crashed"} \/ pc' \in {"exited", "crashed"}
      BY <1>5 DEF OpenDir, OpenDirFails, CloseDir, Return, JoinFaults, JoinThread, JoinEnds,
           JoinUpTo, KeepOrder, SwapPath, SwapSearch, SwapBack, SwapBackTo, PassAgain, PassWith,
           SortEnds, SortEndsIf, PrintFaults, Exit, MainMoves, MainAt
    <2> QED BY <2>1 DEF PrintInv
  <1>6. CASE UNCHANGED vars
    <2>1. Shown' = Shown
      BY <1>6, QuietSteps
    <2> QED BY <1>6, <2>1 DEF vars, PrintInv
  <1> QED BY <1>1, <1>2, <1>3, <1>4, <1>5, <1>6 DEF Next, MainStep

LEMMA HeadAdded ==
  ASSUME NEW s \in Seq(Path), NEW e \in Path
  PROVE  /\ Len(<<e>> \o s) = Len(s) + 1 /\ e \in ToSet(<<e>> \o s)
         /\ ToSet(s) \subseteq ToSet(<<e>> \o s)
  <1> DEFINE t == <<e>> \o s
  <1>1. /\ t \in Seq(Path) /\ Len(t) = Len(s) + 1 /\ Len(s) \in Nat /\ t[1] = e
        /\ \A k \in 1 .. Len(s) : t[k + 1] = s[k]
    OBVIOUS
  <1> HIDE DEF t
  <1>2. /\ DOMAIN t = 1 .. Len(s) + 1 /\ DOMAIN s = 1 .. Len(s) /\ 1 \in 1 .. Len(s) + 1
        /\ \A k \in 1 .. Len(s) : k + 1 \in 1 .. Len(s) + 1
    BY <1>1
  <1>3. e \in ToSet(t) /\ ToSet(s) \subseteq ToSet(t)
    BY <1>1, <1>2 DEF ToSet
  <1> QED BY <1>1, <1>3 DEF t

LEMMA ThreadNext ==
  TypeOK /\ StackInv /\ ListInv /\ ShownInv /\ ThreadInv /\ [Next]_vars => ThreadInv'
  <1> SUFFICES ASSUME TypeOK, StackInv, ListInv, ShownInv, ThreadInv, [Next]_vars PROVE ThreadInv'
    OBVIOUS
  <1>t. /\ tpc \in [Path -> {"none", "start", "search", "done", "failed"}]
        /\ node \in [Path -> Node] /\ ToSet(list) \subseteq Path /\ TID_list \in Seq(Path)
        /\ Len(TID_list) \in Nat /\ Len(list) \in Nat /\ Len(TID_list) < Len(list)
        /\ arg \in [Path -> Path]
    BY DEF TypeOK, StackInv, Walk, ThreadInv
  <1>1. ASSUME NEW e \in Path, AddSearched(e) PROVE ThreadInv'
    <2>1. keyword_search(e) \in Int
      BY SearchType
    <2>2. AddNode(e, keyword_search(e))
      BY <1>1 DEF AddSearched
    <2>3. /\ ToSet(list') = ToSet(list) \cup {e} /\ node'[e].search = keyword_search(e)
          /\ e \notin ToSet(list) /\ pc = "readdir" /\ pc' \in {"opendir", "readdir"}
          /\ Len(list') = Len(list) + 1
          /\ \A p \in Path : p # e => node'[p] = node[p]
      BY <2>1, <2>2, AddFacts
    <2>4. UNCHANGED <<TID_list, tpc, arg, freed, late>>
      BY <1>1 DEF AddSearched, thrd
    <2>5. tpc[e] = "none"
      BY <2>3 DEF ThreadInv
    <2>6. Len(TID_list) < Len(list) + 1
      BY <1>t
    <2>7. \A p \in ToSet(list') : ~InThread(p) => node'[p].search = Right(p)
      <3>1. \A p \in ToSet(list) : ~InThread(p) => node[p].search = Right(p)
        BY <2>3 DEF ThreadInv, Walking
      <3>2. Right(e) = keyword_search(e)
        BY <2>5 DEF Right
      <3> QED BY <3>1, <3>2, <2>3, <1>t
    <2>8. \A p : InThread(p)' = InThread(p) /\ Right(p)' = Right(p)
      BY <2>4 DEF InThread, Right, keyword_search
    <2> QED BY <2>3, <2>4, <2>6, <2>7, <2>8 DEF ThreadInv, Walking
  <1>2. ASSUME NEW e \in Path, AddThread(e) PROVE ThreadInv'
    <2>1. NotSearched \in Int /\ AddNode(e, NotSearched)
      BY <1>2 DEF AddThread, NotSearched
    <2>2. /\ ToSet(list') = ToSet(list) \cup {e} /\ node'[e].search = NotSearched
          /\ e \notin ToSet(list) /\ pc = "readdir" /\ pc' \in {"opendir", "readdir"}
          /\ Len(list') = Len(list) + 1
          /\ \A p \in Path : p # e => node'[p] = node[p]
      BY <2>1, AddFacts
    <2>3. /\ UNCHANGED <<arg, freed, late>> /\ TID_list' = <<e>> \o TID_list
          /\ tpc' = [tpc EXCEPT ![e] = "start"] \/ tpc' = [tpc EXCEPT ![e] = "failed"]
      BY <1>2 DEF AddThread
    <2>4. tpc'[e] \in {"start", "failed"} /\ \A p \in Path : p # e => tpc'[p] = tpc[p]
      BY <1>t, <2>3
    <2>5. /\ Len(TID_list') = Len(TID_list) + 1 /\ e \in ToSet(TID_list')
          /\ ToSet(TID_list) \subseteq ToSet(TID_list')
      BY <1>t, <2>3, HeadAdded
    <2>6. Len(TID_list') < Len(list')
      BY <1>t, <2>2, <2>5
    <2>7. \A p \in Path : p # e => InThread(p)' = InThread(p) /\ Right(p)' = Right(p)
      BY <2>4 DEF InThread, Right, keyword_search
    <2>8. \A p \in Path : InThread(p)' => p \in ToSet(TID_list')
      BY <2>5, <2>7 DEF ThreadInv
    <2>9. \A p \in Path \ ToSet(list') : tpc'[p] = "none"
      BY <2>2, <2>4 DEF ThreadInv
    <2>10. ASSUME NEW p \in ToSet(list'), ~InThread(p)' PROVE node'[p].search = Right(p)'
      <3>1. CASE p = e
        <4>1. tpc'[e] = "failed"
          BY <3>1, <2>4, <2>10 DEF InThread
        <4> QED BY <4>1, <3>1, <2>2 DEF Right
      <3>2. CASE p # e
        <4>1. p \in ToSet(list) /\ p \in Path /\ ~InThread(p) /\ node'[p] = node[p]
              /\ Right(p)' = Right(p)
          BY <3>2, <2>2, <2>7, <2>10, <1>t
        <4> QED BY <4>1, <2>2 DEF ThreadInv, Walking
      <3> QED BY <3>1, <3>2
    <2> QED BY <2>2, <2>3, <2>6, <2>8, <2>9, <2>10 DEF ThreadInv, Walking
  <1>3. ASSUME NEW p \in Path, ThreadStep(p) PROVE ThreadInv'
    <2>1. /\ UNCHANGED <<pc, list, TID_list, freed, cur, late>> /\ InThread(p)
          /\ tpc'[p] \in {"search", "done"}
          /\ \A q \in Path : q # p => node'[q] = node[q] /\ tpc'[q] = tpc[q]
      BY <1>3, ThreadFacts
    <2>2. \A q \in Path : q # p => InThread(q)' = InThread(q) /\ Right(q)' = Right(q)
      BY <2>1 DEF InThread, Right, keyword_search
    <2>3. \A q \in Path : InThread(q)' => InThread(q)
      BY <2>1, <2>2
    <2>4. ASSUME Walking
          PROVE  /\ \A q \in Path : arg'[q] = q
                 /\ \A q \in ToSet(list) : ~InThread(q)' => node'[q].search = Right(q)'
      <3>0. /\ node[p].path = p /\ arg[p] = p /\ ~freed[p] /\ \A q \in Path : arg[q] = q
            /\ \A q \in ToSet(list) : ~InThread(q) => node[q].search = Right(q)
        BY <2>4 DEF ShownInv, ThreadInv
      <3>1. CASE ReadPath(p)
        <4>1. /\ arg' = [arg EXCEPT ![p] = node[p].path] /\ tpc' = [tpc EXCEPT ![p] = "search"]
              /\ node' = node
          BY <3>1 DEF ReadPath
        <4>2. \A q \in Path : arg'[q] = q
          BY <4>1, <3>0, <1>t
        <4>3. InThread(p)'
          BY <4>1, <1>t DEF InThread
        <4> QED BY <4>1, <4>2, <4>3, <3>0, <2>2, <1>t
      <3>2. CASE StoreSearch(p)
        <4>1. arg' = arg /\ tpc' = [tpc EXCEPT ![p] = "done"]
              /\ node' = WithSearch(node, p, keyword_search(p))
          BY <3>0, <3>2 DEF StoreSearch, WithSearch
        <4>2. keyword_search(p) \in Int
          BY SearchType
        <4>3. node'[p].search = keyword_search(p)
          BY <4>1, <4>2, <1>t, SearchSet, NodeIsRow
        <4>4. Right(p)' = keyword_search(p)
          BY <4>1, <1>t DEF Right, keyword_search
        <4> QED BY <4>1, <4>3, <4>4, <3>0, <2>1, <2>2, <1>t
      <3> QED BY <1>3, <3>1, <3>2 DEF ThreadStep
    <2>5. \A q \in Path \ ToSet(list) : tpc'[q] = "none"
      BY <2>1 DEF ThreadInv, InThread
    <2>6. Walking' = Walking
      BY <2>1 DEF Walking
    <2>7. pc' = "join" => \A k \in 1 .. cur - 1 : ~InThread(TID_list[k])'
      <3> SUFFICES ASSUME pc = "join", NEW k \in 1 .. cur - 1 PROVE ~InThread(TID_list[k])'
        BY <2>1
      <3>1. ~InThread(TID_list[k]) /\ (cur <= Len(TID_list) \/ cur = 1)
        BY DEF ThreadInv
      <3>2. TID_list[k] \in Path
        <4>1. k \in 1 .. Len(TID_list)
          BY <3>1, <1>t DEF TypeOK
        <4> QED BY <4>1, <1>t
      <3> QED BY <3>1, <3>2, <2>1, <2>3
    <2> QED BY <2>1, <2>3, <2>4, <2>5, <2>6, <2>7 DEF ThreadInv
  <1>4. CASE JoinThread
    <2>1. /\ pc = "join" /\ pc' = "join" /\ cur < Len(TID_list) /\ cur' = cur + 1
          /\ tpc[TID_list[cur]] \in {"done", "failed"}
          /\ UNCHANGED <<node, list, TID_list, tpc, arg, freed, late>>
      BY <1>4 DEF JoinThread, MainMoves, MainAt, thrd
    <2>2. cur \in Nat \ {0}
      BY DEF TypeOK
    <2>3. \A k \in 1 .. cur' - 1 : k \in 1 .. cur - 1 \/ k = cur
      BY <2>1, <2>2
    <2>4. ~InThread(TID_list[cur])
      BY <2>1 DEF InThread
    <2>5. \A p : InThread(p)' = InThread(p) /\ Right(p)' = Right(p)
      BY <2>1 DEF InThread, Right, keyword_search
    <2>6. cur' <= Len(TID_list)
      BY <2>1, <2>2, <1>t
    <2>7. \A k \in 1 .. cur' - 1 : ~InThread(TID_list[k])
      BY <2>1, <2>3, <2>4 DEF ThreadInv
    <2> QED BY <2>1, <2>5, <2>6, <2>7 DEF ThreadInv, Walking
  <1>5. CASE OpenDir \/ OpenDirFails \/ CloseDir \/ \E e \in Path : SkipEntry(e)
    <2>1. /\ UNCHANGED <<node, list, TID_list, tpc, arg, freed, cur>>
          /\ pc \in {"opendir", "readdir"} /\ pc' \in {"readdir", "join", "sort"}
          /\ pc' = "sort" \/ late' = late \/ late' = FALSE
      <3>1. CASE OpenDir \/ \E e \in Path : SkipEntry(e)
        BY <3>1 DEF OpenDir, SkipEntry, thrd
      <3>2. CASE OpenDirFails \/ CloseDir
        BY <3>2 DEF OpenDirFails, CloseDir, Return, thrd
      <3> QED BY <1>5, <3>1, <3>2
    <2>2. cur' = 1 /\ ~late /\ Walking
      BY <2>1 DEF StackInv, ThreadInv, Walking
    <2>3. \A p : InThread(p)' = InThread(p) /\ Right(p)' = Right(p)
      BY <2>1 DEF InThread, Right, keyword_search
    <2>4. Walking' => ~late'
      BY <2>1, <2>2 DEF Walking
    <2> QED BY <2>1, <2>2, <2>3, <2>4 DEF ThreadInv
  <1>6. CASE \/ JoinFaults \/ JoinEnds \/ KeepOrder \/ SwapPath \/ SwapSearch \/ SwapBack
             \/ PassAgain \/ SortEnds \/ sub_level \/ PrintNode \/ PrintFaults \/ Exit
    <2>1. UNCHANGED <<list, TID_list, tpc>> /\ ~(Walking')
      BY <1>6 DEF JoinFaults, JoinEnds, JoinUpTo, KeepOrder, SwapPath, SwapSearch, SwapBack,
           SwapBackTo, PassAgain, PassWith, SortEnds, SortEndsIf, sub_level, PrintNode,
           PrintFaults, Exit, MainMoves, MainAt, thrd, Walking
    <2>2. \A p : InThread(p)' = InThread(p)
      BY <2>1 DEF InThread
    <2> QED BY <2>1, <2>2 DEF ThreadInv, Walking
  <1>7. CASE UNCHANGED vars
    <2>1. UNCHANGED <<pc, node, list, TID_list, tpc, arg, freed, cur, late>>
      BY <1>7 DEF vars, thrd
    <2>2. \A p : InThread(p)' = InThread(p) /\ Right(p)' = Right(p)
      BY <2>1 DEF InThread, Right, keyword_search
    <2> QED BY <2>1, <2>2 DEF ThreadInv, Walking
  <1> QED BY <1>1, <1>2, <1>3, <1>4, <1>5, <1>6, <1>7 DEF Next, MainStep

Settled == ~late /\ ~Walking /\ pc # "crashed"

(* The sort starts with every count in its place.                           *)
LEMMA CountStarts ==
  ASSUME TypeOK, ListInv, ShownInv, PrintInv, ThreadInv, Walking,
         list' = list, node' = node, tpc' = tpc, output' = output, Shown' = Shown,
         pc' = "sort", \A p \in Path : ~InThread(p)
  PROVE  CountInv'
  <1>1. Shown = list
    <2>1. Plain
      BY DEF Plain, ShownInv, TypeOK, Walking
    <2> QED BY <2>1, ShownPlain
  <1>2. \A k \in 1 .. Len(list) : list[k] \in Path /\ list[k] \in ToSet(list)
    BY ShownAt DEF ToSet
  <1>3. \A k \in 1 .. Len(list) : node[list[k]].search = Right(list[k])
    BY <1>2 DEF ThreadInv
  <1>4. \A k : CountAt(k)' = node[list[k]].search
    BY DEF CountAt
  <1>5. \A p : Right(p)' = Right(p) /\ InThread(p)' = InThread(p)
    BY DEF Right, InThread, keyword_search
  <1>6. output' = << >>
    BY DEF PrintInv, Walking
  <1>7. Exact'
    BY <1>6 DEF Exact
  <1> QED BY <1>1, <1>3, <1>4, <1>5, <1>7 DEF CountInv

(* A step that moves no count.                                              *)
LEMMA CountKept ==
  ASSUME TypeOK, CountInv, Settled' => Settled, list' = list, Shown' = Shown, tpc' = tpc,
         \A k \in 1 .. Len(list) : CountAt(k)' = CountAt(k),
         Settled' => Exact'
  PROVE  CountInv'
  <1>1. \A p : Right(p)' = Right(p) /\ InThread(p)' = InThread(p)
    BY DEF Right, InThread, keyword_search
  <1> QED BY <1>1 DEF CountInv, Settled

LEMMA CountNext ==
  /\ TypeOK /\ StackInv /\ ListInv /\ ShownInv /\ PrintInv /\ ThreadInv /\ CountInv /\ [Next]_vars
  => CountInv'
  <1> SUFFICES ASSUME TypeOK, StackInv, ListInv, ShownInv, PrintInv, ThreadInv, CountInv, [Next]_vars
               PROVE  CountInv'
    OBVIOUS
  <1>t. /\ Len(list) \in Nat /\ DOMAIN list = 1 .. Len(list)
        /\ \A k \in 1 .. Len(list) : list[k] \in Path
        /\ tpc \in [Path -> {"none", "start", "search", "done", "failed"}]
        /\ TID_list \in Seq(Path) /\ output \in Seq(Node) /\ node \in [Path -> Node]
        /\ cur \in 1 .. Len(list) + 1
    BY ShownAt DEF TypeOK
  <1>1. CASE OpenDirFails \/ CloseDir
    <2>1. /\ list' = list /\ node' = node /\ tpc' = tpc /\ output' = output /\ Walking
          /\ late' = (pc' = "sort" /\ \E p \in Path : InThread(p))
          /\ pc' \in {"readdir", "join", "sort"}
      BY <1>1 DEF OpenDirFails, CloseDir, Return, thrd, Walking
    <2>2. Shown' = Shown
      BY <1>1, QuietSteps
    <2>3. CASE pc' = "sort" /\ \A p \in Path : ~InThread(p)
      BY <2>1, <2>2, <2>3, CountStarts
    <2>4. CASE pc' = "sort" /\ ~(\A p \in Path : ~InThread(p))
      BY <2>1, <2>4 DEF CountInv
    <2>5. CASE pc' # "sort"
      BY <2>1, <2>5 DEF CountInv, Walking
    <2> QED BY <2>3, <2>4, <2>5
  <1>2. CASE JoinEnds
    <2>1. /\ list' = list /\ node' = node /\ tpc' = tpc /\ output' = output /\ Walking
          /\ late' = InThread(Last(TID_list)) /\ pc' = "sort" /\ pc = "join"
          /\ TID_list # << >> /\ cur >= Len(TID_list)
      BY <1>2 DEF JoinEnds, JoinUpTo, MainAt, thrd, Walking
    <2>2. Shown' = Shown
      BY <1>2, QuietSteps
    <2>3. CASE late'
      BY <2>3 DEF CountInv
    <2>4. CASE ~late'
      <3>1. ~InThread(Last(TID_list))
        BY <2>1, <2>4
      <3>2. ASSUME NEW p \in Path PROVE ~InThread(p)
        <4> SUFFICES ASSUME p \in ToSet(TID_list) PROVE ~InThread(p)
          BY DEF ThreadInv
        <4>1. PICK k \in 1 .. Len(TID_list) : TID_list[k] = p
          BY <1>t DEF ToSet
        <4>2. Len(TID_list) \in Nat
          BY <1>t
        <4>3. CASE k = Len(TID_list)
          BY <3>1, <4>1, <4>3 DEF Last
        <4>4. CASE k # Len(TID_list)
          <5>1. k \in 1 .. cur - 1
            BY <4>2, <4>4, <2>1, <1>t
          <5> QED BY <5>1, <4>1, <2>1 DEF ThreadInv
        <4> QED BY <4>3, <4>4
      <3> QED BY <2>1, <2>2, <3>2, CountStarts
    <2> QED BY <2>3, <2>4
  <1>3. ASSUME NEW p \in Path, ThreadStep(p) PROVE CountInv'
    <2>1. UNCHANGED <<pc, late>> /\ InThread(p) /\ Running
      BY <1>3, ThreadFacts
    <2>2. ~Settled
      BY <2>1 DEF CountInv, Settled
    <2> QED BY <2>1, <2>2 DEF Settled, CountInv, Walking
  <1>4. ASSUME NEW e \in Path, AddSearched(e) \/ AddThread(e) \/ SkipEntry(e) PROVE CountInv'
    <2>1. Walking'
      BY <1>4 DEF AddSearched, AddThread, AddNode, SkipEntry, Walking
    <2> QED BY <2>1 DEF CountInv
  <1>5. CASE OpenDir \/ JoinFaults \/ JoinThread
    <2>1. Walking' \/ pc' = "crashed"
      BY <1>5 DEF OpenDir, JoinFaults, JoinThread, MainMoves, MainAt, Walking
    <2> QED BY <2>1 DEF CountInv
  <1>6. CASE SwapPath
    <2>1. /\ Shown' = [Shown EXCEPT ![cur] = Shown[cur + 1], ![cur + 1] = Shown[cur]]
          /\ cur \in 1 .. Len(list) - 1
          /\ list' = list /\ cur' = cur /\ pc = "sort" /\ pc' = "swap_search"
      BY <1>6, ExchangeShown
    <2>2. UNCHANGED <<tpc, late, output>>
      BY <1>6 DEF SwapPath, MainAt
    <2>3. /\ This \in Path /\ That \in Path /\ saved' = node[This]
          /\ \A p \in Path : node'[p].search = node[p].search
      BY <1>6, SwapPathFacts
    <2>4. \A p : Right(p)' = Right(p) /\ InThread(p)' = InThread(p)
      BY <2>2 DEF Right, InThread, keyword_search
    <2>5. cur \in 1 .. Len(list) /\ cur + 1 \in 1 .. Len(list) /\ cur # cur + 1
      BY <1>t, <2>1
    <2>6. \A k \in 1 .. Len(list) : CountAt(k) = node[list[k]].search
      BY <2>1 DEF CountAt
    <2>7. \A k \in 1 .. Len(list) :
            CountAt(k)' = IF k = cur THEN CountAt(cur + 1)
                          ELSE IF k = cur + 1 THEN CountAt(cur) ELSE CountAt(k)
      <3>1. \A k \in 1 .. Len(list) :
              CountAt(k)' = IF k = cur THEN node'[list[cur + 1]].search
                            ELSE IF k = cur + 1 THEN saved'.search ELSE node'[list[k]].search
        BY <2>1 DEF CountAt, That
      <3>2. saved'.search = CountAt(cur)
        BY <2>3, <2>5, <2>6 DEF This
      <3>3. \A k \in 1 .. Len(list) : node'[list[k]].search = CountAt(k)
        BY <2>3, <2>6, <1>t
      <3> QED BY <3>1, <3>2, <3>3, <2>5
    <2>8. \A k \in 1 .. Len(list) :
            Shown'[k] = IF k = cur THEN Shown[cur + 1]
                        ELSE IF k = cur + 1 THEN Shown[cur] ELSE Shown[k]
      BY <2>1, <2>5, ShownAt
    <2>9. ASSUME Settled' PROVE \A k \in 1 .. Len(list) : CountAt(k)' = Right(Shown'[k])
      <3>1. \A k \in 1 .. Len(list) : CountAt(k) = Right(Shown[k])
        BY <2>1, <2>2, <2>9 DEF CountInv, Settled, Walking
      <3> QED BY <3>1, <2>5, <2>7, <2>8
    <2>10. Settled' => Exact /\ \A p \in Path : ~InThread(p)
      BY <2>1, <2>2 DEF CountInv, Settled, Walking
    <2>11. Exact' = Exact
      BY <2>2 DEF Exact, keyword_search
    <2>12. ASSUME Settled'
           PROVE  \A k \in 1 .. Len(list') : CountAt(k)' = Right(Shown[k])'
      <3>1. \A q : Right(q)' = IF tpc'[q] = "failed" THEN NotSearched ELSE keyword_search(q)
        BY DEF Right, keyword_search
      <3>2. \A k : Right(Shown[k])' = IF tpc'[Shown'[k]] = "failed" THEN NotSearched
                                                                    ELSE keyword_search(Shown'[k])
        BY DEF Right, keyword_search
      <3>3. \A k : Right(Shown[k])' = Right(Shown'[k])
        BY <3>2, <2>2 DEF Right
      <3> QED BY <3>3, <2>1, <2>9, <2>12
    <2> QED BY <2>4, <2>10, <2>11, <2>12 DEF CountInv, Settled
  <1>7. CASE SwapSearch
    <2>1. /\ list' = list /\ pc = "swap_search" /\ pc' = "swap_back" /\ cur' = cur
          /\ UNCHANGED <<tpc, late, output, saved>>
      BY <1>7 DEF SwapSearch, MainAt, sort
    <2>2. Shown' = Shown
      BY <1>7, ExchangeEnds
    <2>3. /\ This \in Path /\ That \in Path /\ This # That /\ cur \in 1 .. Len(list) - 1
          /\ node'[This].search = node[That].search
          /\ \A p \in Path : p \notin {This, That} => node'[p] = node[p]
      BY <1>7, SwapSearchFacts
    <2>4. ASSUME NEW k \in 1 .. Len(list) PROVE CountAt(k)' = CountAt(k)
      <3>1. CASE k = cur
        <4>1. cur # cur + 1
          BY <1>t
        <4> QED BY <4>1, <3>1, <2>1, <2>3 DEF CountAt, This, That
      <3>2. CASE k = cur + 1
        <4>1. cur # cur + 1
          BY <1>t
        <4> QED BY <4>1, <3>2, <2>1 DEF CountAt
      <3>3. CASE k # cur /\ k # cur + 1
        <4>1. list[k] \notin {This, That}
          BY <3>3, <2>3, <1>t DEF This, That, ListInv, Listing
        <4> QED BY <4>1, <3>3, <2>1, <2>3, <1>t DEF CountAt
      <3> QED BY <3>1, <3>2, <3>3
    <2>5. (Settled' => Settled) /\ (Settled => Exact)
      BY <2>1 DEF Settled, Walking, CountInv
    <2>6. Exact' = Exact
      BY <2>1 DEF Exact, keyword_search
    <2> QED BY <2>1, <2>2, <2>4, <2>5, <2>6, CountKept
  <1>8. CASE SwapBack
    <2>1. /\ list' = list /\ pc = "swap_back" /\ pc' = "sort"
          /\ UNCHANGED <<tpc, late, output>>
      BY <1>8 DEF SwapBack, SwapBackTo, MainAt, thrd
    <2>2. Shown' = Shown
      BY <1>8, ExchangeEnds
    <2>3. /\ That \in Path /\ cur \in 1 .. Len(list) - 1 /\ node'[That].search = saved.search
          /\ \A p \in Path : p # That => node'[p] = node[p]
      BY <1>8, SwapBackFacts
    <2>4. ASSUME NEW k \in 1 .. Len(list) PROVE CountAt(k)' = CountAt(k)
      <3>1. CASE k = cur + 1
        BY <3>1, <2>1, <2>3 DEF CountAt, That
      <3>2. CASE k # cur + 1
        <4>1. list[k] # That
          BY <3>2, <2>3, <1>t DEF That, ListInv, Listing
        <4> QED BY <4>1, <3>2, <2>1, <2>3, <1>t DEF CountAt
      <3> QED BY <3>1, <3>2
    <2>5. (Settled' => Settled) /\ (Settled => Exact)
      BY <2>1 DEF Settled, Walking, CountInv
    <2>6. Exact' = Exact
      BY <2>1 DEF Exact, keyword_search
    <2> QED BY <2>1, <2>2, <2>4, <2>5, <2>6, CountKept
  <1>9. CASE KeepOrder \/ PassAgain \/ SortEnds \/ sub_level \/ PrintFaults \/ Exit
    <2>1. /\ UNCHANGED <<list, tpc, late, output>>
          /\ pc \in {"sort", "number", "print"} /\ pc' \in {"sort", "number", "print", "crashed", "exited"}
      BY <1>9 DEF KeepOrder, PassAgain, PassWith, SortEnds, SortEndsIf, sub_level, PrintFaults, Exit,
           MainMoves, MainAt, thrd
    <2>2. Shown' = Shown
      BY <1>9, QuietSteps
    <2>3. \A p \in Path : node'[p].search = node[p].search
      <3>1. CASE sub_level
        BY <3>1, NumberFacts
      <3>2. CASE ~sub_level
        BY <1>9, <3>2 DEF KeepOrder, PassAgain, PassWith, SortEnds, SortEndsIf, PrintFaults, Exit,
           MainMoves, MainAt
      <3> QED BY <3>1, <3>2
    <2>4. \A k \in 1 .. Len(list) : CountAt(k)' = CountAt(k)
      BY <2>1, <2>3, <1>t DEF CountAt
    <2>5. (Settled' => Settled) /\ (Settled => Exact)
      BY <2>1 DEF Settled, Walking, CountInv
    <2>6. Exact' = Exact
      BY <2>1 DEF Exact, keyword_search
    <2> QED BY <2>1, <2>2, <2>4, <2>5, <2>6, CountKept
  <1>10. CASE PrintNode
    <2>1. /\ UNCHANGED <<list, tpc, late, node>> /\ pc = "print" /\ pc' = "print"
          /\ cur <= Len(list) /\ output' = Append(output, node[This])
      BY <1>10 DEF PrintNode, thrd
    <2>2. Shown' = Shown
      BY <1>10, QuietSteps
    <2>3. \A k \in 1 .. Len(list) : CountAt(k)' = CountAt(k)
      BY <2>1 DEF CountAt
    <2>4. Settled' => Settled
      BY <2>1 DEF Settled, Walking
    <2>5. ASSUME Settled' PROVE Exact'
      <3> DEFINE r == node[This]
      <3>1. cur \in 1 .. Len(list) /\ r \in Node
        BY <1>t, <2>1 DEF This
      <3>2. r.path = Shown[cur] /\ r.search = CountAt(cur)
        BY <3>1, <2>1, ShownAt DEF This, CountAt
      <3>3. Exact /\ r.search = Right(r.path)
        BY <3>1, <3>2, <2>4, <2>5 DEF CountInv, Settled
      <3> HIDE DEF r
      <3>4. /\ DOMAIN output = 1 .. Len(output) /\ DOMAIN output' = 1 .. Len(output) + 1
            /\ Len(output) \in Nat /\ output'[Len(output) + 1] = r
            /\ \A k \in 1 .. Len(output) : output'[k] = output[k]
        <4>1. output' = Append(output, r)
          BY <2>1 DEF r
        <4> QED BY <4>1, <3>1, <1>t
      <3>5. \A k \in 1 .. Len(output) + 1 : k \in 1 .. Len(output) \/ k = Len(output) + 1
        BY <3>4
      <3>6. \A k \in DOMAIN output' : output'[k].search = Right(output'[k].path)
        BY <3>3, <3>4, <3>5 DEF Exact, Right
      <3> QED BY <3>6, <2>1 DEF Exact, Right, keyword_search
    <2> QED BY <2>1, <2>2, <2>3, <2>4, <2>5, CountKept
  <1>11. CASE UNCHANGED vars
    <2>1. UNCHANGED <<list, tpc, late, output, pc, node, cur, saved>>
      BY <1>11 DEF vars, thrd, sort
    <2>2. Shown' = Shown
      BY <1>11, QuietSteps
    <2>3. \A k \in 1 .. Len(list) : CountAt(k)' = CountAt(k)
      BY <2>1 DEF CountAt, That
    <2>4. Exact' = Exact /\ (Settled' => Settled) /\ (Settled => Exact)
      BY <2>1 DEF Exact, Settled, Walking, CountInv, keyword_search
    <2> QED BY <2>1, <2>2, <2>3, <2>4, CountKept
  <1> QED BY <1>1, <1>2, <1>3, <1>4, <1>5, <1>6, <1>7, <1>8, <1>9, <1>10, <1>11 DEF Next, MainStep

-----------------------------------------------------------------------------
LEMMA NodesInvNext == TypeOK /\ NodesInv /\ [Next]_vars => TypeOK' /\ NodesInv'
  BY WalkNext, TypeNext, ShownNext, OrderNext, PrintNext, ThreadNext, CountNext DEF NodesInv

LEMMA NodesInvCorrect == Spec => [](TypeOK /\ NodesInv)
  BY NodesInvInit, NodesInvNext, PTL DEF Spec

(* The type invariant.  insert_sorted stays inside the list because the     *)
(* nodes are sorted by depth, joinThreads because there are fewer threads   *)
(* than nodes, and node_swap because it stops at the last node.             *)
THEOREM TypeCorrect == Spec => []TypeOK
  BY NodesInvCorrect, PTL

(* The counts printed are those of keyword_search unless a thread was still *)
(* running when node_swap was called: joinThreads leaves out one thread     *)
(* only, and an exchange that no thread meets keeps path and count          *)
(* together, though it is done field by field.                              *)
THEOREM CountsCorrect == Spec => []CountsIfJoined
  <1>1. NodesInv => CountsIfJoined
    BY DEF NodesInv, CountInv, CountsIfJoined, Walking
  <1> QED BY <1>1, NodesInvCorrect, PTL

-----------------------------------------------------------------------------
(* The refinement of Lister.                                                *)
LEMMA SameTree ==
  /\ L!Depth = Depth /\ \A o : L!Reached(o) = Reached(o)
  /\ \A p, q : L!Precedes(p, q) <=> ComesBefore(p, q)
  BY DEF L!Depth, Depth, L!Reached, Reached, L!Precedes, ComesBefore

LEMMA SameCardinality == \A S : L!Cardinality(S) = Cardinality(S)
  BY DEF L!Cardinality, Cardinality

LEMMA SameLines == \A s : Lines(s) = RowLines(s)
  BY DEF Lines, RowLines

LEMMA RefinesInit == Init => L!Init
  <1> SUFFICES ASSUME Init PROVE L!Init
    OBVIOUS
  <1> QED BY LinesEmpty, SameLines DEF Init, L!Init, Running

LEMMA PrintedIsLinesOf ==
  ASSUME TypeOK, StackInv, ShownInv, PrintInv, pc = "print"
  PROVE  /\ LinesOf(Lines(output), Shown) /\ Len(Lines(output)) = cur - 1
         /\ Reached(opened) = ToSet(Shown)
  <1>1. /\ output \in Seq(Node) /\ cur \in 1 .. Len(list) + 1 /\ Len(list) \in Nat
        /\ Len(Shown) = Len(list)
    BY ShownAt DEF TypeOK
  <1>2. Len(output) = cur - 1
    BY DEF PrintInv
  <1>3. Len(output) <= Len(Shown)
    BY <1>1, <1>2
  <1>4. LinesOf(Lines(output), Shown)
    BY <1>1, <1>3, LinesType, SameLines, NodeIsRow DEF PrintInv, LinesOf
  <1>5. Reached(opened) = ToSet(Shown)
    BY WalkDone DEF StackInv, ShownInv
  <1> QED BY <1>1, <1>2, <1>4, <1>5, LinesType, SameLines, NodeIsRow

LEMMA RefinesNext == TypeOK /\ NodesInv /\ [Next]_vars => [L!Next]_(L!vars)
  <1> SUFFICES ASSUME TypeOK, NodesInv, [Next]_vars PROVE [L!Next]_(L!vars)
    OBVIOUS
  <1>0. StackInv /\ ListInv /\ ShownInv /\ OrderInv /\ PrintInv
    BY DEF NodesInv
  <1>1. CASE OpenDir
    <2>1. /\ pc = "opendir" /\ pc' = "readdir" /\ opened' = opened \cup {Last(stack).dir}
          /\ Kind[Last(stack).dir] \in {"dir", "dirlink"} /\ output' = output
      BY <1>1 DEF OpenDir, Top
    <2> DEFINE d == Last(stack).dir
    <2>2. d \in Reached(opened) /\ d \notin opened
      <3>1. Walk(stack, opened, ToSet(list)) /\ stack # << >> /\ d \notin opened
        BY <1>0, <2>1 DEF StackInv
      <3> QED BY <3>1, WalkOpen
    <2>3. Lines(output) = << >>
      <3>1. output = << >>
        BY <1>0, <2>1 DEF PrintInv
      <3> QED BY <3>1, LinesEmpty, SameLines
    <2>4. L!Open(d)
      BY <2>1, <2>3 DEF L!Open, Running
    <2> QED BY <2>2, <2>4, SameTree DEF L!Next
  <1>2. CASE PrintNode
    <2>1. /\ pc = "print" /\ pc' = "print" /\ cur <= Len(list) /\ opened' = opened
          /\ output' = Append(output, node[This])
      BY <1>2 DEF PrintNode, walk
    <2> DEFINE lines == Lines(output)
               p == Shown[cur]
               r == node[This]
    <2>2. LinesOf(lines, Shown) /\ Len(lines) = cur - 1 /\ Reached(opened) = ToSet(Shown)
      BY <1>0, <2>1, PrintedIsLinesOf
    <2>3. Listing(Shown) /\ NeighboursInOrder(Shown) /\ cur = Len(lines) + 1 /\ cur <= Len(Shown)
      <3>1. cur \in Nat /\ Len(Shown) = Len(list)
        BY ShownAt DEF TypeOK
      <3> QED BY <1>0, <2>1, <2>2, <3>1 DEF ShownInv, OrderInv
    <2>4. /\ p \in ToSet(Shown) \ PathsOf(lines)
          /\ \A q \in (ToSet(Shown) \ PathsOf(lines)) \ {p} : ComesBefore(p, q)
          /\ NumberAt(DepthsOf(Shown), cur) = 1 + Cardinality(SameDepth(lines, Depth[p]))
      <3> DEFINE s == Shown
      <3> HIDE DEF lines, s
      <3>1. Listing(s) /\ NeighboursInOrder(s) /\ cur = Len(lines) + 1 /\ LinesOf(lines, s) /\ cur <= Len(s)
        BY <2>2, <2>3 DEF s
      <3>2. /\ s[cur] \in ToSet(s) \ PathsOf(lines)
            /\ \A q \in (ToSet(s) \ PathsOf(lines)) \ {s[cur]} : ComesBefore(s[cur], q)
            /\ NumberAt(DepthsOf(s), cur) = 1 + Cardinality(SameDepth(lines, Depth[s[cur]]))
        BY <3>1, NextLine
      <3> QED BY <3>2 DEF s
    <2>5. /\ r \in Node /\ r.path = p /\ r.level = Depth[p]
          /\ r.i = NumberAt(DepthsOf(Shown), cur)
      <3>1. cur \in 1 .. Len(list) /\ This \in Path /\ r \in Node /\ This \in ToSet(list)
        BY <2>1, ShownAt DEF TypeOK, This, ToSet
      <3>2. r.path = p
        BY <3>1, <2>1, ShownAt DEF This
      <3>3. r.level = Depth[p]
        BY <3>1, <1>0 DEF This, ListInv, ShownInv
      <3>4. r.i = NumberAt(DepthsOf(Shown), cur)
        BY <3>1, <2>1, <1>0 DEF This, PrintInv
      <3> QED BY <3>1, <3>2, <3>3, <3>4
    <2>6. output \in Seq(Node)
      BY DEF TypeOK
    <2>7. Lines(output') = Append(lines, [path |-> r.path, level |-> r.level, i |-> r.i])
      <3> HIDE DEF r
      <3>1. output' = Append(output, r)
        BY <2>1 DEF r
      <3> QED BY <3>1, <2>5, <2>6, LinesAppend, SameLines, NodeIsRow
    <2>8. Lines(output') = Append(lines, [path |-> p, level |-> Depth[p],
                                          i |-> 1 + Cardinality(SameDepth(lines, Depth[p]))])
      <3>1. r.i = 1 + Cardinality(SameDepth(lines, Depth[p]))
        BY <2>4, <2>5, Zenon
      <3> HIDE DEF r, p, lines
      <3> QED BY <2>5, <2>7, <3>1, Zenon
    <2>9. L!Waiting = ToSet(Shown) \ PathsOf(lines)
      BY <2>2, SameTree DEF L!Waiting, L!Printed, PathsOf
    <2>10. SameDepth(lines, Depth[p]) = {k \in DOMAIN lines : lines[k].level = L!Depth[p]}
      BY SameTree DEF SameDepth
    <2>11. L!List(p)
      <3> HIDE DEF p, r
      <3>1. \A q \in L!Waiting \ {p} : L!Precedes(p, q)
        BY <2>4, <2>9, SameTree
      <3>2. Running /\ Running'
        BY <2>1 DEF Running
      <3>3. Lines(output') = Append(Lines(output), [path |-> p, level |-> L!Depth[p],
              i |-> 1 + L!Cardinality({k \in DOMAIN Lines(output) : Lines(output)[k].level = L!Depth[p]})])
        BY <2>8, <2>10, SameTree, SameCardinality, Zenon
      <3>4. /\ (IF Running THEN "running" ELSE IF pc = "exited" THEN "exited" ELSE "failed") = "running"
            /\ (IF Running' THEN "running" ELSE IF pc' = "exited" THEN "exited" ELSE "failed") = "running"
        BY <3>2
      <3>5. opened' = opened
        BY <2>1
      <3> HIDE DEF lines
      <3> QED BY <3>1, <3>3, <3>4, <3>5, Zenon DEF L!List
    <2> QED BY <2>4, <2>9, <2>11 DEF L!Next
  <1>3. CASE Exit
    <2>1. pc = "print" /\ pc' = "exited" /\ cur > Len(list) /\ UNCHANGED <<opened, output>>
      BY <1>3 DEF Exit, MainMoves, MainAt, walk
    <2> DEFINE lines == Lines(output)
               s == Shown
    <2>2. LinesOf(lines, s) /\ Len(lines) = cur - 1 /\ Reached(opened) = ToSet(s)
      BY <1>0, <2>1, PrintedIsLinesOf
    <2>3. Listing(s) /\ Len(lines) >= Len(s)
      <3>1. cur \in Nat /\ Len(s) = Len(list) /\ Len(list) \in Nat
        BY ShownAt DEF TypeOK
      <3> QED BY <1>0, <2>1, <2>2, <3>1 DEF ShownInv
    <2>4. ToSet(s) \ PathsOf(lines) = {}
      <3> HIDE DEF lines, s
      <3> QED BY <2>2, <2>3, LastLine
    <2>5. L!Waiting = {}
      BY <2>2, <2>4, SameTree DEF L!Waiting, L!Printed, PathsOf
    <2> QED BY <2>1, <2>5 DEF L!Next, L!Finish, Running
  <1>4. CASE JoinFaults \/ PrintFaults
    <2>1. pc \in {"join", "print"} /\ pc' = "crashed" /\ UNCHANGED <<opened, output>>
      BY <1>4 DEF JoinFaults, PrintFaults, MainMoves, MainAt, walk
    <2> QED BY <2>1 DEF L!Next, L!Fail, Running
  <1>5. CASE \/ OpenDirFails \/ CloseDir
             \/ (\E e \in Path : SkipEntry(e) \/ AddSearched(e) \/ AddThread(e))
             \/ JoinThread \/ JoinEnds \/ KeepOrder \/ SwapPath \/ SwapSearch \/ SwapBack
             \/ PassAgain \/ SortEnds \/ sub_level
    <2>1. Running /\ Running' /\ UNCHANGED <<opened, output>>
      BY <1>5 DEF OpenDirFails, CloseDir, Return, SkipEntry, AddSearched, AddThread, AddNode,
           JoinThread, JoinEnds, JoinUpTo, KeepOrder, SwapPath, SwapSearch, SwapBack, SwapBackTo,
           PassAgain, PassWith, SortEnds, SortEndsIf, sub_level, MainMoves, MainAt, walk, Running
    <2> QED BY <2>1 DEF L!vars
  <1>6. ASSUME NEW p \in Path, ThreadStep(p) PROVE [L!Next]_(L!vars)
    <2>1. UNCHANGED <<pc, walk, output>>
      BY <1>6, ThreadFacts
    <2> QED BY <2>1 DEF L!vars, walk, Running
  <1>7. CASE UNCHANGED vars
    BY <1>7 DEF vars, walk, L!vars, Running
  <1> QED BY <1>1, <1>2, <1>3, <1>4, <1>5, <1>6, <1>7 DEF Next, MainStep

(* Every mode prints the listing of Lister, line by line, whatever a thread *)
(* does: an exchange changes no depth, the paths shown (with the one that   *)
(* node_swap has saved) stay those of the nodes, and a pass that exchanges  *)
(* nothing leaves all of them in order.                                     *)
THEOREM ListerRefined == Spec => IsLister
  BY RefinesInit, RefinesNext, NodesInvCorrect, PTL DEF Spec, IsLister, L!Spec
=============================================================================
