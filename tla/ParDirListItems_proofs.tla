----------------------- MODULE ParDirListItems_proofs -----------------------
(***************************************************************************)
(* Theorems about ParDirListItems, for any tree of files, any number of     *)
(* threads that cannot be created and any interleaving of the threads.      *)
(***************************************************************************)
EXTENDS ParDirListItems, DirTree_proofs

(* The walk: the stack is what Walk says, its top is opened before it is    *)
(* read, and it is empty from SortHelper on.                                *)
StackInv ==
  /\ Walk(stack, opened, ToSet(list))
  /\ pc \in {"opendir", "readdir"} => stack # << >> /\ cur = 1
  /\ pc = "opendir" => Top.dir \notin opened
  /\ pc = "readdir" => AllOpened(stack, opened)
  /\ pc \in {"sort", "number", "write", "exited", "crashed"} => stack = << >>

(* AddPath and SwapItems keep the list in the order of the depths.          *)
ListInv == Listing(list) /\ \A p \in ToSet(list) : item[p].level = Depth[p]

(* SortHelper: what a pass without an exchange has seen is in order.        *)
OrderInv ==
  /\ pc = "sort" /\ ~Swap =>
       \A k \in 1 .. cur - 1 :
         Depth[list[k]] = Depth[list[k + 1]] => ~(Rank[list[k]] > Rank[list[k + 1]])
  /\ pc \in {"number", "write"} => NeighboursInOrder(list)

(* fileWriter has written the lines of the items up to cur.                 *)
WriteInv ==
  /\ pc \in {"opendir", "readdir", "sort", "number"} => output = << >>
  /\ pc = "number" => cur = 1
  /\ pc = "write" =>
       /\ Len(output) = cur - 1
       /\ \A k \in 1 .. Len(list) : item[list[k]].i = NumberAt(DepthsOf(list), k)
       /\ \A k \in 1 .. Len(output) :
            /\ output[k].path = list[k] /\ output[k].level = Depth[list[k]]
            /\ output[k].i = NumberAt(DepthsOf(list), k)

(* The root is the first directory opened.                                  *)
OpenedInv ==
  /\ \A d \in opened : Kind[d] \in {"dir", "dirlink"}
  /\ opened # {} => Root \in opened
  /\ pc \notin {"opendir", "failed"} => opened # {}

(* The threads: one for each item but the root's, in parallel mode.         *)
ThreadInv ==
  /\ runMode # PARALLEL =>
       \A p \in Path : tpc[p] = "none" /\ (p \in ToSet(list) => item[p].search = keyword_search(p))
  /\ runMode = PARALLEL =>
       /\ \A p \in Path : tpc[p] = "none" <=> p \notin ToSet(list) \ {Root}
       /\ item[Root].search = 0
       /\ \A p \in ToSet(list) \ {Root} :
            item[p].search = IF tpc[p] = "done" THEN keyword_search(p) ELSE NoCount
  /\ \A p \in Path : tpc[p] \in {"search", "add"} => left[p] <= Counted(p)
  /\ \A p \in Path : tpc[p] = "add" => left[p] > 0

(* The items that are written have been joined.                             *)
JoinedInv ==
  /\ pc = "write" =>
       /\ \A k \in 1 .. cur - 1 : tpc[list[k]] \in {"none", "failed", "done"}
  /\ \A k \in 1 .. Len(output) :
       output[k].search = IF output[k].path \in Failed THEN NoCount
                                                       ELSE keyword_search(output[k].path)

(* The matches counted so far.                                              *)
Tally(p) ==
  IF runMode # PARALLEL \/ tpc[p] = "done" THEN Counted(p)
  ELSE IF tpc[p] \in {"search", "add"} THEN Counted(p) - left[p] ELSE 0

Done == UNION {{p} \X (1 .. Tally(p)) : p \in ToSet(list)}

TotalInv ==
  /\ totalMatches <= Cardinality(Done)
  /\ \A p \in Path : tpc[p] = "add" => reg[p] <= Cardinality(Done)

ItemsInv == StackInv /\ ListInv /\ OrderInv /\ WriteInv /\ OpenedInv /\ ThreadInv /\ JoinedInv /\ TotalInv

LEMMA CountedType == ASSUME NEW p \in Path PROVE Counted(p) \in Nat
  BY MatchesFinite DEF Counted

LEMMA ItemIsRow == Item = Row
  BY DEF Item, Row

LEMMA LevelsAreDepths ==
  ListInv => Levels = DepthsOf(list)
  <1> SUFFICES ASSUME ListInv PROVE Levels = DepthsOf(list)
    OBVIOUS
  <1>1. \A k \in DOMAIN list : item[list[k]].level = Depth[list[k]]
    BY DEF ListInv, ToSet
  <1> QED BY <1>1 DEF Levels, DepthsOf

LEMMA ItemsInvInit == Init => TypeOK /\ ItemsInv
  <1> SUFFICES ASSUME Init PROVE TypeOK /\ ItemsInv
    OBVIOUS
  <1> USE DEF Init
  <1>1. /\ list = <<Root>> /\ ToSet(list) = {Root} /\ Len(list) = 1 /\ DOMAIN list = {1}
        /\ list[1] = Root /\ list \in Seq(Path) /\ Root \in Path
    <2>1. list = <<Root>> /\ Root \in Path
      BY TreeAssumption
    <2>2. Len(list) = 1 /\ DOMAIN list = {1} /\ list[1] = Root /\ list \in Seq(Path)
      BY <2>1
    <2> QED BY <2>1, <2>2 DEF ToSet
  <1>2. Counted(Root) \in Nat /\ keyword_search(Root) \in Int /\ NoCount \in Int
    BY <1>1, CountedType, SearchType DEF NoCount
  <1>3. /\ stack = <<[dir |-> Root, x |-> 1, unread |-> {}]>> /\ opened = {}
        /\ Walk(stack, opened, ToSet(list))
    BY <1>1, WalkInit
  <1>4. stack # << >> /\ stack \in Seq(Frame) /\ Top.dir = Root /\ Len(stack) = 1
    <2>1. stack \in Seq(Frame)
      BY <1>3 DEF Walk
    <2> QED BY <1>3, <2>1 DEF Top, Last
  <1>5. item \in [Path -> Item] /\ \A p \in Path : item[p].path = p /\ item[p].level = 1
    BY <1>2 DEF Item
  <1>6. TypeOK
    <2>1. stack \in Seq([dir : Path, x : Nat, unread : SUBSET Path]) /\ opened \subseteq Path
      BY <1>3, <1>4 DEF Frame
    <2>2. tpc \in [Path -> {"none", "failed", "open", "search", "add", "done"}]
      OBVIOUS
    <2>3. left \in [Path -> Nat] /\ reg \in [Path -> Nat] /\ totalMatches \in Nat
      BY <1>2
    <2>4. cur \in 1 .. Len(list) + 1
      BY <1>1
    <2>5. Swap \in BOOLEAN /\ output = << >>
      BY Zenon
    <2>6. output \in Seq(Item)
      BY <2>5
    <2> QED BY <1>1, <1>5, <2>1, <2>2, <2>3, <2>4, <2>5, <2>6 DEF TypeOK
  <1>7. StackInv
    BY <1>3, <1>4 DEF StackInv
  <1>8. ListInv
    BY <1>1, <1>5, DepthType DEF ListInv, Listing
  <1>9. OrderInv /\ WriteInv /\ OpenedInv
    BY DEF OrderInv, WriteInv, OpenedInv
  <1>10. ThreadInv /\ JoinedInv
    <2>1. item[Root].search = IF runMode = PARALLEL THEN 0 ELSE keyword_search(Root)
      BY <1>1
    <2> QED BY <1>1, <2>1 DEF ThreadInv, JoinedInv, Failed
  <1>11. TotalInv
    <2> DEFINE t == IF runMode # PARALLEL THEN Counted(Root) ELSE 0
    <2>1. Tally(Root) = t /\ t \in Nat /\ totalMatches = t
      BY <1>1, <1>2 DEF Tally
    <2>2. Done = {Root} \X (1 .. t)
      BY <1>1, <2>1 DEF Done
    <2> HIDE DEF t
    <2>3. IsFiniteSet(1 .. t) /\ Cardinality(1 .. t) = t
      BY <2>1, FS_Interval
    <2>4. IsFiniteSet({Root}) /\ Cardinality({Root}) = 1
      BY FS_Singleton
    <2>5. Cardinality({Root} \X (1 .. t)) = 1 * t
      BY <2>3, <2>4, FS_Product
    <2> QED BY <1>1, <2>1, <2>2, <2>5 DEF TotalInv
  <1> QED BY <1>6, <1>7, <1>8, <1>9, <1>10, <1>11 DEF ItemsInv

(* What a step does that gives an entry its item, in either mode.           *)
LEMMA AddFacts ==
  ASSUME TypeOK, StackInv, ListInv, NEW e \in Path, NEW v \in Int, AddItem(e, v)
  PROVE  /\ e \notin ToSet(list) /\ e # Root /\ pc = "readdir" /\ Kind[e] # "hidden"
         /\ Listing(list') /\ ToSet(list') = ToSet(list) \cup {e} /\ Len(list') = Len(list) + 1
         /\ item' \in [Path -> Item] /\ item'[e].search = v /\ item'[e].level = Depth[e]
         /\ \A p \in Path : p # e => item'[p] = item[p]
         /\ \A p \in Path : item'[p].path = p
         /\ Walk(stack', opened, ToSet(list')) /\ stack' # << >>
         /\ pc' \in {"opendir", "readdir"}
         /\ pc' = "opendir" => Last(stack').dir \notin opened
         /\ pc' = "readdir" => AllOpened(stack', opened)
  <1> DEFINE g == ToSet(list)
             rest == ReadEntry(stack, e)
  <1>1. /\ pc = "readdir" /\ e \in Last(stack).unread /\ Kind[e] # "hidden"
        /\ item' = [item EXCEPT ![e].level = Top.x, ![e].search = v]
        /\ list' = AddPath(e, Top.x)
        /\ IF Kind[e] = "dir"
             THEN stack' = Append(rest, [dir |-> e, x |-> Top.x, unread |-> {}]) /\ pc' = "opendir"
             ELSE stack' = rest /\ pc' = "readdir"
    BY DEF AddItem, Top, ReadEntry
  <1>2. Walk(stack, opened, g) /\ stack # << >> /\ AllOpened(stack, opened)
    BY <1>1 DEF StackInv
  <1>3. /\ e # Root /\ e \notin g /\ e \notin opened /\ Top.x = Depth[e]
        /\ rest \in Seq(Frame) /\ rest # << >> /\ Len(rest) = Len(stack)
        /\ AllOpened(rest, opened)
        /\ Walk(rest, opened, g \cup {e})
    <2> HIDE DEF g
    <2>1. Top = Last(stack)
      BY DEF Top
    <2> QED BY <1>1, <1>2, <2>1, WalkRead
  <1>4. Depth[e] \in Nat /\ item \in [Path -> Item] /\ \A p \in Path : item[p].path = p
    BY DepthType DEF TypeOK
  <1>5. /\ item' \in [Path -> Item] /\ item'[e].search = v /\ item'[e].level = Depth[e]
        /\ \A p \in Path : p # e => item'[p] = item[p]
        /\ \A p \in Path : item'[p].path = p
    <2>1. item' = WithSearch(WithLevel(item, e, Depth[e]), e, v)
      BY <1>1, <1>3 DEF WithSearch, WithLevel
    <2>2. /\ item' \in [Path -> Item] /\ item'[e].search = v /\ item'[e].level = Depth[e]
          /\ item'[e].path = item[e].path
      BY <2>1, <1>4, RowSet, ItemIsRow
    <2>3. \A p \in Path : p # e => item'[p] = item[p]
      BY <2>1, <1>4, RowSet, ItemIsRow
    <2>4. \A p \in Path : item'[p].path = p
      BY <2>2, <2>3, <1>4
    <2> QED BY <2>2, <2>3, <2>4
  <1>6. Listing(list') /\ ToSet(list') = g \cup {e} /\ Len(list') = Len(list) + 1
    <2>1. list' = InsertAt(list, PlaceOf(DepthsOf(list), Depth[e]), e)
      BY <1>1, <1>3, LevelsAreDepths DEF AddPath
    <2>2. Listing(list)
      BY DEF ListInv
    <2> QED BY <2>1, <2>2, <1>3, ListingInsert
  <1> HIDE DEF rest, g
  <1>7. CASE Kind[e] = "dir"
    <2>1. stack' = Append(rest, [dir |-> e, x |-> Top.x, unread |-> {}]) /\ pc' = "opendir"
      BY <1>1, <1>7
    <2>2. AllOpened(rest, opened)
      BY <1>3
    <2>3. e \in g \cup {e} /\ Top.x = Depth[e] /\ e \notin opened /\ Walk(rest, opened, g \cup {e})
      BY <1>3
    <2>4. Walk(stack', opened, g \cup {e}) /\ stack' # << >> /\ Last(stack').dir = e
      BY <2>1, <2>2, <2>3, WalkCall
    <2> QED BY <2>1, <2>3, <2>4, <1>1, <1>3, <1>5, <1>6 DEF g
  <1>8. CASE Kind[e] # "dir"
    <2>1. stack' = rest /\ pc' = "readdir"
      BY <1>1, <1>8
    <2>2. AllOpened(rest, opened)
      BY <1>3
    <2> QED BY <2>1, <2>2, <1>1, <1>3, <1>5, <1>6 DEF g
  <1> QED BY <1>7, <1>8

(* What a step of a thread leaves alone.                                    *)
LEMMA ThreadFacts ==
  ASSUME TypeOK, NEW p \in Path, ThreadStep(p)
  PROVE  /\ Running /\ UNCHANGED <<runMode, pc, walk, list, cur, Swap, output>>
         /\ item' \in [Path -> Item]
         /\ \A q \in Path : /\ item'[q].path = item[q].path /\ item'[q].level = item[q].level
                            /\ item'[q].i = item[q].i /\ (q # p => item'[q] = item[q])
  <1>1. Running /\ UNCHANGED <<runMode, pc, walk, list, cur, Swap, output>>
    BY DEF ThreadStep, OpenFile, LoadTotal, AddTotal, AddToTotal, StoreCount, Thread
  <1>2. item' = item \/ item' = WithSearch(item, p, keyword_search(p))
    BY DEF ThreadStep, OpenFile, LoadTotal, AddTotal, AddToTotal, StoreCount, Thread, WithSearch
  <1>3. keyword_search(p) \in Int /\ item \in [Path -> Item]
    BY SearchType DEF TypeOK
  <1> QED BY <1>1, <1>2, <1>3, SearchSet, ItemIsRow

(* A step of main that leaves the walk, the list and the items alone, and   *)
(* is beyond the walk.                                                      *)
LEMMA WalkKept ==
  ASSUME StackInv, ListInv, UNCHANGED <<walk, list>>,
         \A p \in Path : item'[p].level = item[p].level,
         \/ pc' \in {"failed"}
         \/ pc' = pc /\ (cur' = cur \/ pc \notin {"opendir", "readdir"})
         \/ pc \in {"sort", "number", "write"} /\ pc' \in {"sort", "number", "write", "exited", "crashed"}
  PROVE  StackInv' /\ ListInv'
  <1>1. ToSet(list) \subseteq Path
    BY DEF StackInv, Walk
  <1>2. stack' = stack /\ opened' = opened /\ list' = list
    BY DEF walk
  <1>3. Top' = Top
    BY <1>2 DEF Top
  <1>4. StackInv'
    BY <1>2, <1>3 DEF StackInv
  <1>5. ListInv'
    BY <1>1, <1>2 DEF ListInv
  <1> QED BY <1>4, <1>5

(* What NumberChildren does to the items.                                   *)
LEMMA NumberFacts ==
  ASSUME TypeOK, ListInv, NumberChildren
  PROVE  /\ item' \in [Path -> Item]
         /\ \A p \in Path : /\ item'[p].path = item[p].path /\ item'[p].level = item[p].level
                            /\ item'[p].search = item[p].search
         /\ \A k \in 1 .. Len(list) : item'[list[k]].i = NumberAt(DepthsOf(list), k)
  <1> DEFINE At(p) == CHOOSE k \in DOMAIN list : list[k] = p
             N(p) == NumberAt(DepthsOf(list), At(p))
  <1>1. item' = [p \in Path |-> IF p \in ToSet(list) THEN WithNumber(item[p], N(p)) ELSE item[p]]
    BY LevelsAreDepths DEF NumberChildren, WithNumber
  <1>2. /\ item \in [Path -> Item] /\ list \in Seq(Path) /\ DOMAIN list = 1 .. Len(list)
        /\ Listing(list)
    BY DEF TypeOK, ListInv
  <1>3. ASSUME NEW p \in ToSet(list) PROVE At(p) \in 1 .. Len(list) /\ list[At(p)] = p
    BY <1>2 DEF ToSet
  <1>4. ASSUME NEW k \in 1 .. Len(list) PROVE list[k] \in ToSet(list) /\ At(list[k]) = k
    <2>1. list[k] \in ToSet(list)
      BY <1>2 DEF ToSet
    <2>2. At(list[k]) \in 1 .. Len(list) /\ list[At(list[k])] = list[k]
      BY <2>1, <1>3
    <2> HIDE DEF At
    <2> QED BY <2>1, <2>2, <1>2 DEF Listing
  <1> HIDE DEF At
  <1>5. \A p \in ToSet(list) : N(p) \in Nat
    BY <1>2, <1>3, NumberSorted
  <1> HIDE DEF N
  <1>6. ASSUME NEW p \in Path
        PROVE  /\ item'[p] \in Item /\ item'[p].path = item[p].path /\ item'[p].level = item[p].level
               /\ item'[p].search = item[p].search
               /\ p \in ToSet(list) => item'[p].i = N(p)
    <2>1. CASE p \in ToSet(list)
      <3>1. item'[p] = WithNumber(item[p], N(p)) /\ item[p] \in Item /\ N(p) \in Nat
        BY <2>1, <1>1, <1>2, <1>5
      <3> QED BY <3>1, NumberSet, ItemIsRow
    <2>2. CASE p \notin ToSet(list)
      BY <2>2, <1>1, <1>2
    <2> QED BY <2>1, <2>2
  <1>7. item' \in [Path -> Item]
    BY <1>1, <1>6
  <1>8. \A k \in 1 .. Len(list) : item'[list[k]].i = NumberAt(DepthsOf(list), k)
    <2>1. \A k \in 1 .. Len(list) : list[k] \in Path
      BY <1>2
    <2> QED BY <2>1, <1>4, <1>6 DEF N
  <1> QED BY <1>6, <1>7, <1>8

LEMMA WalkNext ==
  TypeOK /\ StackInv /\ ListInv /\ [Next]_vars => StackInv' /\ ListInv'
  <1> SUFFICES ASSUME TypeOK, StackInv, ListInv, [Next]_vars PROVE StackInv' /\ ListInv'
    OBVIOUS
  <1>0. Walk(stack, opened, ToSet(list)) /\ Listing(list)
    BY DEF StackInv, ListInv
  <1>1. CASE OpenDir
    <2>1. /\ pc = "opendir" /\ pc' = "readdir" /\ opened' = opened \cup {Last(stack).dir}
          /\ stack' = OpenTop(stack) /\ list' = list /\ item' = item /\ cur' = cur
      BY <1>1 DEF OpenDir, Top, OpenTop
    <2>2. stack # << >> /\ Last(stack).dir \notin opened /\ cur = 1
      BY <2>1 DEF StackInv, Top
    <2>3. Walk(stack', opened', ToSet(list')) /\ stack' # << >> /\ AllOpened(stack', opened')
      BY <2>1, <2>2, <1>0, WalkOpen
    <2>8. StackInv'
      BY <2>1, <2>2, <2>3 DEF StackInv
    <2>9. ListInv'
      BY <2>1 DEF ListInv
    <2> QED BY <2>8, <2>9
  <1>2. CASE CloseDir
    <2>1. /\ pc = "readdir" /\ Last(stack).unread = {} /\ stack' = Front(stack)
          /\ pc' = (IF Len(stack) > 1 THEN "readdir" ELSE "sort")
          /\ list' = list /\ item' = item /\ cur' = cur /\ opened' = opened
      BY <1>2 DEF CloseDir, Top
    <2>2. stack # << >> /\ cur = 1
      BY <2>1 DEF StackInv
    <2>3. /\ Walk(stack', opened', ToSet(list')) /\ Len(stack') = Len(stack) - 1
          /\ AllOpened(stack', opened')
      BY <2>1, <2>2, <1>0, WalkClose
    <2>4. Len(stack) \in Nat \ {0} /\ stack' \in Seq(Frame)
      BY <2>2, <2>3, <1>0, TopType DEF Walk
    <2>5. pc' = "readdir" => stack' # << >>
      <3>1. \A m \in Nat : m > 1 => m - 1 # 0
        OBVIOUS
      <3>2. Len(stack) > 1 => Len(stack') # 0
        BY <3>1, <2>3, <2>4, Zenon
      <3> QED BY <3>2, <2>1
    <2>6. pc' = "sort" => stack' = << >>
      <3> SUFFICES ASSUME pc' = "sort" PROVE stack' = << >>
        OBVIOUS
      <3>1. Len(stack') = 0
        BY <2>1, <2>3, <2>4
      <3> QED BY <3>1, <2>4
    <2>7. StackInv'
      BY <2>1, <2>2, <2>3, <2>5, <2>6 DEF StackInv
    <2>8. ListInv'
      BY <2>1 DEF ListInv
    <2> QED BY <2>7, <2>8
  <1>3. ASSUME NEW e \in Path, SkipEntry(e) PROVE StackInv' /\ ListInv'
    <2>1. /\ pc = "readdir" /\ e \in Last(stack).unread /\ Kind[e] = "hidden" /\ pc' = pc
          /\ stack' = ReadEntry(stack, e)
          /\ list' = list /\ item' = item /\ cur' = cur /\ opened' = opened
      BY <1>3 DEF SkipEntry, Top, ReadEntry
    <2>2. stack # << >> /\ cur = 1 /\ AllOpened(stack, opened)
      BY <2>1 DEF StackInv
    <2>3. /\ Walk(stack', opened', ToSet(list')) /\ stack' # << >> /\ AllOpened(stack', opened')
      BY <2>1, <2>2, <1>0, WalkRead
    <2>4. StackInv'
      BY <2>1, <2>2, <2>3 DEF StackInv
    <2>5. ListInv'
      BY <2>1 DEF ListInv
    <2> QED BY <2>4, <2>5
  <1>4. ASSUME NEW e \in Path, NEW v \in Int, AddItem(e, v), cur' = cur, opened' = opened
        PROVE  StackInv' /\ ListInv'
    <2>1. cur = 1
      BY <1>4, AddFacts DEF StackInv
    <2>2. StackInv'
      BY <1>4, <2>1, AddFacts DEF StackInv, Top
    <2>3. /\ Listing(list') /\ ToSet(list') = ToSet(list) \cup {e} /\ item'[e].level = Depth[e]
          /\ \A p \in Path : p # e => item'[p] = item[p]
      BY <1>4, AddFacts
    <2>4. ToSet(list) \subseteq Path
      BY <1>0 DEF Walk
    <2>5. ListInv'
      BY <2>3, <2>4 DEF ListInv
    <2> QED BY <2>2, <2>5
  <1>5. ASSUME NEW e \in Path, AddSearched(e) \/ AddThread(e) PROVE StackInv' /\ ListInv'
    <2>1. keyword_search(e) \in Int /\ NoCount \in Int
      BY SearchType DEF NoCount
    <2> QED BY <1>4, <1>5, <2>1 DEF AddSearched, AddThread
  <1>6. CASE SwapItems
    <2>1. /\ pc = "sort" /\ pc' = "sort" /\ cur < Len(list) /\ Unordered
          /\ list' = [list EXCEPT ![cur] = list[cur + 1], ![cur + 1] = list[cur]]
          /\ item' = item /\ stack' = stack /\ opened' = opened
      BY <1>6 DEF SwapItems, SwapThenTo, MainAt, walk
    <2>2. cur \in 1 .. Len(list) - 1 /\ list \in Seq(Path)
      BY <2>1 DEF TypeOK
    <2>3. Depth[list[cur]] = Depth[list[cur + 1]]
      <3>1. list[cur] \in ToSet(list) /\ list[cur + 1] \in ToSet(list)
        BY <2>2 DEF ToSet
      <3> QED BY <3>1, <2>1 DEF Unordered, ListInv
    <2>4. Listing(list') /\ ToSet(list') = ToSet(list)
      BY <2>1, <2>2, <2>3, <1>0, ListingSwap
    <2>5. Top' = Top
      BY <2>1 DEF Top
    <2> QED BY <2>1, <2>4, <2>5 DEF StackInv, ListInv
  <1>7. CASE NumberChildren
    <2>1. /\ pc = "number" /\ pc' = "write" /\ UNCHANGED <<walk, list>>
      BY <1>7 DEF NumberChildren, MainAt
    <2>2. \A p \in Path : item'[p].level = item[p].level
      BY <1>7, NumberFacts
    <2> QED BY <2>1, <2>2, WalkKept
  <1>8. ASSUME NEW p \in Path, ThreadStep(p) PROVE StackInv' /\ ListInv'
    <2>1. UNCHANGED <<walk, list>> /\ pc' = pc /\ cur' = cur
          /\ \A q \in Path : item'[q].level = item[q].level
      BY <1>8, ThreadFacts
    <2> QED BY <2>1, WalkKept
  <1>9. CASE OpenDirFails \/ KeepOrder \/ PassAgain \/ SortEnds \/ JoinFaults
             \/ WriteFails \/ JoinAndWrite \/ Exit
    <2>1. UNCHANGED <<walk, list>> /\ item' = item
      BY <1>9 DEF OpenDirFails, KeepOrder, PassAgain, PassWith, SortEnds, JoinFaults, WriteFails,
                  JoinAndWrite, WriteWhen, Exit, MainMoves, MainAt
    <2>2. \/ pc' = "failed"
          \/ pc \in {"sort", "write"} /\ pc' \in {"sort", "number", "write", "exited", "crashed"}
      BY <1>9 DEF OpenDirFails, KeepOrder, PassAgain, PassWith, SortEnds, JoinFaults, WriteFails,
                  JoinAndWrite, WriteWhen, Exit, MainMoves, MainAt
    <2> QED BY <2>1, <2>2, WalkKept
  <1>10. CASE UNCHANGED vars
    <2>1. UNCHANGED <<walk, list>> /\ item' = item /\ pc' = pc /\ cur' = cur
      BY <1>10 DEF vars
    <2> QED BY <2>1, WalkKept
  <1> QED BY <1>1, <1>2, <1>3, <1>5, <1>6, <1>7, <1>8, <1>9, <1>10 DEF Next, MainStep

(* The type of what the threads work with.                                  *)
LEMMA ThreadTypes ==
  ASSUME TypeOK, ThreadInv, NEW p \in Path, ThreadStep(p)
  PROVE  /\ tpc' \in [Path -> {"none", "failed", "open", "search", "add", "done"}]
         /\ left' \in [Path -> Nat] /\ reg' \in [Path -> Nat] /\ totalMatches' \in Nat
  <1>0. /\ tpc \in [Path -> {"none", "failed", "open", "search", "add", "done"}]
        /\ left \in [Path -> Nat] /\ reg \in [Path -> Nat] /\ totalMatches \in Nat
    BY DEF TypeOK
  <1>1. Counted(p) \in Nat
    BY CountedType
  <1>2. tpc[p] = "add" => left[p] > 0
    BY DEF ThreadInv
  <1>3. CASE OpenFile(p)
    BY <1>0, <1>1, <1>3 DEF OpenFile, Thread
  <1>4. CASE LoadTotal(p)
    BY <1>0, <1>4 DEF LoadTotal, Thread
  <1>5. CASE AddTotal(p)
    <2>1. left[p] - 1 \in Nat /\ reg[p] + 1 \in Nat
      BY <1>0, <1>2, <1>5 DEF AddTotal, AddToTotal, Thread
    <2> QED BY <1>0, <1>5, <2>1 DEF AddTotal, AddToTotal, Thread
  <1>6. CASE StoreCount(p)
    BY <1>0, <1>6 DEF StoreCount, Thread
  <1> QED BY <1>3, <1>4, <1>5, <1>6 DEF ThreadStep

LEMMA TypeNext ==
  TypeOK /\ StackInv /\ ListInv /\ ThreadInv /\ WriteInv /\ [Next]_vars => TypeOK'
  <1> SUFFICES ASSUME TypeOK, StackInv, ListInv, ThreadInv, WriteInv, [Next]_vars PROVE TypeOK'
    OBVIOUS
  <1>0. StackInv' /\ ListInv'
    BY WalkNext
  <1>1. /\ stack' \in Seq([dir : Path, x : Nat, unread : SUBSET Path]) /\ opened' \subseteq Path
        /\ list' \in Seq(Path)
    BY <1>0 DEF StackInv, ListInv, Walk, Listing, Frame
  <1>t. /\ tpc \in [Path -> {"none", "failed", "open", "search", "add", "done"}]
        /\ left \in [Path -> Nat] /\ reg \in [Path -> Nat] /\ totalMatches \in Nat
        /\ item \in [Path -> Item] /\ (\A p \in Path : item[p].path = p) /\ Swap \in BOOLEAN
        /\ output \in Seq(Item) /\ cur \in 1 .. Len(list) + 1 /\ Len(list) \in Nat
        /\ (pc = "sort" => cur <= Len(list)) /\ runMode \in {0, PARALLEL} /\ list \in Seq(Path)
    BY DEF TypeOK
  <1>2. ASSUME NEW e \in Path, AddSearched(e) \/ AddThread(e) PROVE TypeOK'
    <2>1. keyword_search(e) \in Int /\ NoCount \in Int /\ Counted(e) \in Nat
      BY SearchType, CountedType DEF NoCount
    <2>2. PICK v \in Int : AddItem(e, v)
      BY <1>2, <2>1 DEF AddSearched, AddThread
    <2>3. /\ item' \in [Path -> Item] /\ (\A p \in Path : item'[p].path = p)
          /\ Len(list') = Len(list) + 1 /\ pc' \in {"opendir", "readdir"}
      BY <2>2, AddFacts
    <2>4. /\ UNCHANGED <<runMode, left, reg, cur, Swap, output>>
          /\ totalMatches' = totalMatches \/ totalMatches' = totalMatches + Counted(e)
          /\ tpc' = tpc \/ tpc' = [tpc EXCEPT ![e] = "open"] \/ tpc' = [tpc EXCEPT ![e] = "failed"]
      BY <1>2 DEF AddSearched, AddThread, thrd
    <2>5. tpc' \in [Path -> {"none", "failed", "open", "search", "add", "done"}]
      BY <1>t, <2>4
    <2>6. totalMatches' \in Nat
      BY <1>t, <2>1, <2>4
    <2>7. cur' \in 1 .. Len(list') + 1
      BY <1>t, <2>3, <2>4
    <2> QED BY <1>1, <1>t, <2>3, <2>4, <2>5, <2>6, <2>7 DEF TypeOK
  <1>3. ASSUME NEW p \in Path, ThreadStep(p) PROVE TypeOK'
    <2>1. /\ UNCHANGED <<runMode, pc, walk, list, cur, Swap, output>> /\ item' \in [Path -> Item]
          /\ \A q \in Path : item'[q].path = item[q].path
      BY <1>3, ThreadFacts
    <2>2. /\ tpc' \in [Path -> {"none", "failed", "open", "search", "add", "done"}]
          /\ left' \in [Path -> Nat] /\ reg' \in [Path -> Nat] /\ totalMatches' \in Nat
      BY <1>3, ThreadTypes
    <2> QED BY <2>1, <2>2, <1>1 DEF TypeOK
  <1>4. CASE OpenDir \/ CloseDir \/ \E e \in Path : SkipEntry(e)
    <2>1. /\ UNCHANGED <<runMode, item, list, thrd, totalMatches, cur, Swap, output>>
          /\ pc' \in {"readdir", "sort"} /\ pc \in {"opendir", "readdir"}
      BY <1>4 DEF OpenDir, CloseDir, SkipEntry
    <2>2. cur = 1 /\ list # << >>
      <3>1. stack # << >>
        BY <2>1 DEF StackInv
      <3>2. Len(stack) \in Nat \ {0} /\ stack \in Seq(Frame)
        BY <3>1, TopType DEF StackInv, Walk
      <3>3. stack[1].dir \in ToSet(list)
        BY <3>2 DEF StackInv, Walk, FrameOK
      <3>4. ToSet(<< >>) = {}
        BY DEF ToSet
      <3> QED BY <2>1, <3>3, <3>4 DEF StackInv
    <2>3. cur' \in 1 .. Len(list') + 1 /\ cur' <= Len(list')
      <3>1. Len(list) >= 1
        BY <2>2, <1>t
      <3> QED BY <3>1, <2>1, <2>2, <1>t
    <2> QED BY <1>1, <2>1, <2>3 DEF TypeOK, thrd
  <1>5. CASE SwapItems
    <2>1. /\ pc' = "sort" /\ pc = "sort" /\ cur < Len(list) /\ cur' = cur + 1 /\ Swap' = TRUE
          /\ list' = [list EXCEPT ![cur] = list[cur + 1], ![cur + 1] = list[cur]]
          /\ UNCHANGED <<runMode, thrd, totalMatches, item, output>>
      BY <1>5 DEF SwapItems, SwapThenTo, MainAt
    <2>2. Len(list') = Len(list)
      BY <1>t, <2>1
    <2>3. cur' \in 1 .. Len(list') + 1 /\ cur' <= Len(list')
      BY <1>t, <2>1, <2>2
    <2> QED BY <1>1, <2>1, <2>3 DEF TypeOK, thrd
  <1>6. CASE NumberChildren
    <2>1. pc' = "write" /\ UNCHANGED <<runMode, thrd, totalMatches, list, cur, Swap, output>>
      BY <1>6 DEF NumberChildren, MainAt
    <2>2. item' \in [Path -> Item] /\ \A p \in Path : item'[p].path = item[p].path
      BY <1>6, NumberFacts
    <2> QED BY <1>1, <2>1, <2>2 DEF TypeOK, thrd
  <1>7. CASE JoinAndWrite
    <2>1. /\ pc' = "write" /\ cur' = cur + 1 /\ cur <= Len(list)
          /\ output' = Append(output, item[list[cur]])
          /\ UNCHANGED <<runMode, thrd, totalMatches, list, Swap, item>>
      BY <1>7 DEF JoinAndWrite, WriteWhen, MainAt
    <2>2. item[list[cur]] \in Item
      BY <1>t, <2>1
    <2>3. output' \in Seq(Item)
      BY <1>t, <2>1, <2>2
    <2>4. cur' \in 1 .. Len(list') + 1
      BY <1>t, <2>1
    <2> QED BY <1>1, <2>1, <2>3, <2>4 DEF TypeOK, thrd
  <1>8. CASE PassAgain
    <2>1. /\ pc' = "sort" /\ pc = "sort" /\ cur' = 1 /\ Swap' = FALSE /\ cur = Len(list)
          /\ UNCHANGED <<runMode, thrd, totalMatches, list, item, output>>
      BY <1>8 DEF PassAgain, PassWith, MainAt
    <2>2. cur' \in 1 .. Len(list') + 1 /\ cur' <= Len(list')
      BY <1>t, <2>1
    <2> QED BY <1>1, <2>1, <2>2 DEF TypeOK, thrd
  <1>9. CASE OpenDirFails \/ KeepOrder \/ SortEnds \/ JoinFaults \/ WriteFails \/ Exit
    <2>1. /\ UNCHANGED <<runMode, thrd, totalMatches, list, item, output, Swap>>
          /\ pc' \in {"failed", "number", "crashed", "exited"} \/ (pc' = "sort" /\ cur < Len(list))
          /\ cur' = cur \/ (cur' = cur + 1 /\ cur < Len(list)) \/ cur' = 1
      BY <1>9 DEF OpenDirFails, KeepOrder, SortEnds, JoinFaults, WriteFails, Exit, MainMoves, MainAt
    <2>2. cur' \in 1 .. Len(list') + 1 /\ (pc' = "sort" => cur' <= Len(list'))
      BY <1>t, <2>1
    <2> QED BY <1>1, <2>1, <2>2 DEF TypeOK, thrd
  <1>10. CASE UNCHANGED vars
    BY <1>10 DEF vars, walk, thrd, TypeOK
  <1> QED BY <1>2, <1>3, <1>4, <1>5, <1>6, <1>7, <1>8, <1>9, <1>10 DEF Next, MainStep

LEMMA OrderNext ==
  TypeOK /\ StackInv /\ ListInv /\ OrderInv /\ [Next]_vars => OrderInv'
  <1> SUFFICES ASSUME TypeOK, StackInv, ListInv, OrderInv, [Next]_vars PROVE OrderInv'
    OBVIOUS
  <1>t. cur \in 1 .. Len(list) + 1 /\ Len(list) \in Nat /\ list \in Seq(Path)
    BY DEF TypeOK
  <1>2. ASSUME NEW e \in Path, AddSearched(e) \/ AddThread(e) \/ SkipEntry(e) PROVE OrderInv'
    BY <1>2 DEF AddSearched, AddThread, SkipEntry, AddItem, OrderInv
  <1>3. ASSUME NEW p \in Path, ThreadStep(p) PROVE OrderInv'
    <2>1. UNCHANGED <<pc, list, cur, Swap>>
      BY <1>3, ThreadFacts
    <2> QED BY <2>1 DEF OrderInv
  <1>4. CASE OpenDir \/ CloseDir
    <2>1. cur' = 1 /\ pc' \in {"readdir", "sort"}
      BY <1>4 DEF OpenDir, CloseDir, StackInv
    <2> QED BY <2>1 DEF OrderInv
  <1>5. CASE SwapItems
    BY <1>5 DEF SwapItems, SwapThenTo, MainAt, OrderInv
  <1>6. CASE NumberChildren \/ JoinAndWrite
    BY <1>6 DEF NumberChildren, MainAt, JoinAndWrite, WriteWhen, OrderInv
  <1>7. CASE PassAgain
    BY <1>7 DEF PassAgain, PassWith, MainAt, OrderInv
  <1>8. CASE KeepOrder
    <2>1. /\ pc = "sort" /\ pc' = "sort" /\ cur' = cur + 1 /\ cur < Len(list) /\ ~Unordered
          /\ list' = list /\ Swap' = Swap
      BY <1>8 DEF KeepOrder, MainMoves, MainAt
    <2>2. Depth[list[cur]] = Depth[list[cur + 1]] => ~(Rank[list[cur]] > Rank[list[cur + 1]])
      <3>1. list[cur] \in ToSet(list) /\ list[cur + 1] \in ToSet(list)
        BY <1>t, <2>1 DEF ToSet
      <3> QED BY <3>1, <2>1 DEF Unordered, ListInv
    <2>3. \A k \in 1 .. cur' - 1 : k \in 1 .. cur - 1 \/ k = cur
      BY <1>t, <2>1
    <2> QED BY <2>1, <2>2, <2>3 DEF OrderInv
  <1>9. CASE SortEnds
    <2>1. /\ pc = "sort" /\ pc' = "number" /\ cur = Len(list) /\ ~Swap /\ list' = list
      BY <1>9 DEF SortEnds, MainMoves, MainAt
    <2> QED BY <2>1 DEF OrderInv, NeighboursInOrder
  <1>10. CASE OpenDirFails \/ JoinFaults \/ WriteFails \/ Exit
    BY <1>10 DEF OpenDirFails, JoinFaults, WriteFails, Exit, MainMoves, MainAt, OrderInv
  <1>11. CASE UNCHANGED vars
    BY <1>11 DEF vars, OrderInv
  <1> QED BY <1>2, <1>3, <1>4, <1>5, <1>6, <1>7, <1>8, <1>9, <1>10, <1>11 DEF Next, MainStep

LEMMA WriteNext ==
  TypeOK /\ StackInv /\ ListInv /\ WriteInv /\ [Next]_vars => WriteInv'
  <1> SUFFICES ASSUME TypeOK, StackInv, ListInv, WriteInv, [Next]_vars PROVE WriteInv'
    OBVIOUS
  <1>t. /\ cur \in 1 .. Len(list) + 1 /\ Len(list) \in Nat /\ list \in Seq(Path)
        /\ output \in Seq(Item) /\ item \in [Path -> Item] /\ \A p \in Path : item[p].path = p
        /\ \A k \in 1 .. Len(list) : list[k] \in Path /\ list[k] \in ToSet(list)
    BY DEF TypeOK, ToSet
  <1>2. ASSUME NEW e \in Path, AddSearched(e) \/ AddThread(e) \/ SkipEntry(e) PROVE WriteInv'
    BY <1>2 DEF AddSearched, AddThread, SkipEntry, AddItem, WriteInv
  <1>3. ASSUME NEW p \in Path, ThreadStep(p) PROVE WriteInv'
    <2>1. UNCHANGED <<pc, list, cur, output>> /\ \A q \in Path : item'[q].i = item[q].i
      BY <1>3, ThreadFacts
    <2> QED BY <2>1, <1>t DEF WriteInv
  <1>4. CASE OpenDir \/ CloseDir \/ SwapItems \/ PassAgain \/ KeepOrder \/ SortEnds
    BY <1>4 DEF OpenDir, CloseDir, SwapItems, SwapThenTo, PassAgain, PassWith, KeepOrder, SortEnds,
                MainMoves, MainAt, WriteInv
  <1>5. CASE NumberChildren
    <2>1. pc = "number" /\ pc' = "write" /\ UNCHANGED <<list, output, cur>>
      BY <1>5 DEF NumberChildren, MainAt
    <2>2. \A k \in 1 .. Len(list) : item'[list[k]].i = NumberAt(DepthsOf(list), k)
      BY <1>5, NumberFacts
    <2>3. output = << >> /\ cur = 1
      BY <2>1 DEF WriteInv
    <2>4. Len(output) = 0
      BY <2>3
    <2> QED BY <2>1, <2>2, <2>3, <2>4 DEF WriteInv
  <1>6. CASE JoinAndWrite
    <2>1. /\ pc = "write" /\ pc' = "write" /\ cur <= Len(list) /\ cur' = cur + 1 /\ list' = list
          /\ output' = Append(output, item[list[cur]]) /\ item' = item
      BY <1>6 DEF JoinAndWrite, WriteWhen, MainAt
    <2> DEFINE r == item[list[cur]]
    <2>2. /\ cur \in 1 .. Len(list) /\ r \in Item /\ r.path = list[cur] /\ r.level = Depth[list[cur]]
          /\ r.i = NumberAt(DepthsOf(list), cur)
      BY <1>t, <2>1 DEF WriteInv, ListInv
    <2> HIDE DEF r
    <2>3. Len(output) = cur - 1 /\ cur - 1 \in Nat
      BY <2>1, <1>t DEF WriteInv
    <2>4. /\ Len(output') = cur /\ output'[cur] = r
          /\ \A k \in 1 .. cur - 1 : output'[k] = output[k]
      <3>1. Len(output') = Len(output) + 1 /\ output'[Len(output) + 1] = r
            /\ \A k \in 1 .. Len(output) : output'[k] = output[k]
        BY <1>t, <2>1, <2>2 DEF r
      <3> QED BY <3>1, <2>3, <1>t
    <2>5. \A k \in 1 .. cur : k \in 1 .. cur - 1 \/ k = cur
      BY <1>t
    <2>6. \A k \in 1 .. cur - 1 :
            /\ output[k].path = list[k] /\ output[k].level = Depth[list[k]]
            /\ output[k].i = NumberAt(DepthsOf(list), k)
      BY <2>1, <2>3 DEF WriteInv
    <2>7. \A k \in 1 .. Len(output') :
            /\ output'[k].path = list[k] /\ output'[k].level = Depth[list[k]]
            /\ output'[k].i = NumberAt(DepthsOf(list), k)
      BY <2>2, <2>4, <2>5, <2>6
    <2>8. Len(output') = cur' - 1
      BY <2>1, <2>4, <1>t
    <2>9. \A k \in 1 .. Len(list) : item[list[k]].i = NumberAt(DepthsOf(list), k)
      BY <2>1 DEF WriteInv
    <2> QED BY <2>1, <2>7, <2>8, <2>9 DEF WriteInv
  <1>7. CASE OpenDirFails \/ JoinFaults \/ WriteFails \/ Exit
    BY <1>7 DEF OpenDirFails, JoinFaults, WriteFails, Exit, MainMoves, MainAt, WriteInv
  <1>8. CASE UNCHANGED vars
    BY <1>8 DEF vars, WriteInv
  <1> QED BY <1>2, <1>3, <1>4, <1>5, <1>6, <1>7, <1>8 DEF Next, MainStep

LEMMA OpenedNext ==
  StackInv /\ OpenedInv /\ [Next]_vars => OpenedInv'
  <1> SUFFICES ASSUME StackInv, OpenedInv, [Next]_vars PROVE OpenedInv'
    OBVIOUS
  <1>1. CASE OpenDir
    <2>1. /\ pc = "opendir" /\ opened' = opened \cup {Last(stack).dir}
          /\ Kind[Last(stack).dir] \in {"dir", "dirlink"}
      BY <1>1 DEF OpenDir, Top
    <2>2. Last(stack).dir \in Reached(opened)
      <3>1. Walk(stack, opened, ToSet(list)) /\ stack # << >> /\ Last(stack).dir \notin opened
        BY <2>1 DEF StackInv, Top
      <3> QED BY <3>1, WalkOpen
    <2>3. opened = {} => Last(stack).dir = Root
      BY <2>2 DEF Reached
    <2> QED BY <2>1, <2>3 DEF OpenedInv
  <1>2. ASSUME NEW e \in Path, AddSearched(e) \/ AddThread(e) \/ SkipEntry(e) PROVE OpenedInv'
    BY <1>2 DEF AddSearched, AddThread, SkipEntry, AddItem, OpenedInv
  <1>3. ASSUME NEW p \in Path, ThreadStep(p) PROVE OpenedInv'
    BY <1>3 DEF ThreadStep, OpenFile, LoadTotal, AddTotal, AddToTotal, StoreCount, Thread, walk,
                OpenedInv
  <1>4. CASE OpenDirFails \/ CloseDir \/ KeepOrder \/ SwapItems \/ PassAgain \/ SortEnds
             \/ NumberChildren \/ JoinFaults \/ WriteFails \/ JoinAndWrite \/ Exit
    <2>1. opened' = opened /\ (pc' # "failed" => pc \notin {"opendir", "failed"})
      BY <1>4 DEF OpenDirFails, CloseDir, KeepOrder, SwapItems, SwapThenTo, PassAgain, PassWith,
           SortEnds, NumberChildren, JoinFaults, WriteFails, JoinAndWrite, WriteWhen, Exit,
           MainMoves, MainAt, walk
    <2> QED BY <2>1 DEF OpenedInv
  <1>5. CASE UNCHANGED vars
    BY <1>5 DEF vars, walk, OpenedInv
  <1> QED BY <1>1, <1>2, <1>3, <1>4, <1>5 DEF Next, MainStep

LEMMA ThreadNext ==
  TypeOK /\ StackInv /\ ListInv /\ ThreadInv /\ [Next]_vars => ThreadInv'
  <1> SUFFICES ASSUME TypeOK, StackInv, ListInv, ThreadInv, [Next]_vars PROVE ThreadInv'
    OBVIOUS
  <1>t. /\ tpc \in [Path -> {"none", "failed", "open", "search", "add", "done"}]
        /\ left \in [Path -> Nat] /\ item \in [Path -> Item] /\ ToSet(list) \subseteq Path
        /\ Root \in Path
    BY TreeAssumption DEF TypeOK, StackInv, Walk
  <1>1. ASSUME NEW e \in Path, AddSearched(e) PROVE ThreadInv'
    <2>1. keyword_search(e) \in Int
      BY SearchType
    <2>2. AddItem(e, keyword_search(e)) /\ runMode # PARALLEL
      BY <1>1 DEF AddSearched
    <2>3. /\ ToSet(list') = ToSet(list) \cup {e} /\ item'[e].search = keyword_search(e)
          /\ \A p \in Path : p # e => item'[p] = item[p]
      BY <2>1, <2>2, AddFacts
    <2>4. UNCHANGED <<runMode, tpc, left>>
      BY <1>1 DEF AddSearched, thrd
    <2> QED BY <1>t, <2>2, <2>3, <2>4 DEF ThreadInv
  <1>2. ASSUME NEW e \in Path, AddThread(e) PROVE ThreadInv'
    <2>1. NoCount \in Int /\ AddItem(e, NoCount) /\ runMode = PARALLEL
      BY <1>2 DEF AddThread, NoCount
    <2>2. /\ ToSet(list') = ToSet(list) \cup {e} /\ item'[e].search = NoCount /\ e # Root
          /\ e \notin ToSet(list) /\ \A p \in Path : p # e => item'[p] = item[p]
      BY <2>1, AddFacts
    <2>3. /\ UNCHANGED <<runMode, left>>
          /\ tpc' = [tpc EXCEPT ![e] = "open"] \/ tpc' = [tpc EXCEPT ![e] = "failed"]
      BY <1>2 DEF AddThread
    <2>4. tpc'[e] \in {"open", "failed"} /\ \A p \in Path : p # e => tpc'[p] = tpc[p]
      BY <1>t, <2>3
    <2>5. \A p \in Path : tpc'[p] = "none" <=> p \notin ToSet(list') \ {Root}
      BY <2>1, <2>2, <2>4 DEF ThreadInv
    <2>6. item'[Root].search = 0
      BY <1>t, <2>1, <2>2 DEF ThreadInv
    <2>7. \A p \in ToSet(list') \ {Root} :
            item'[p].search = IF tpc'[p] = "done" THEN keyword_search(p) ELSE NoCount
      BY <1>t, <2>1, <2>2, <2>4 DEF ThreadInv
    <2>8. /\ \A p \in Path : tpc'[p] \in {"search", "add"} => left[p] <= Counted(p)
          /\ \A p \in Path : tpc'[p] = "add" => left[p] > 0
      BY <2>4 DEF ThreadInv
    <2>9. \A p \in Path : Counted(p)' = Counted(p) /\ keyword_search(p)' = keyword_search(p)
      BY DEF Counted
    <2> QED BY <2>1, <2>3, <2>5, <2>6, <2>7, <2>8, <2>9 DEF ThreadInv
  <1>3. ASSUME NEW p \in Path, ThreadStep(p) PROVE ThreadInv'
    <2>1. UNCHANGED <<runMode, list>> /\ \A q \in Path : q # p => item'[q] = item[q]
      BY <1>3, ThreadFacts
    <2>2. tpc[p] # "none" /\ tpc[p] # "done" /\ tpc[p] # "failed"
      BY <1>3 DEF ThreadStep, OpenFile, LoadTotal, AddTotal, AddToTotal, StoreCount, Thread
    <2>3. runMode = PARALLEL /\ p \in ToSet(list) /\ p # Root /\ item[p].search = NoCount
      BY <2>2 DEF ThreadInv
    <2>4. /\ tpc'[p] \in {"search", "add", "done"} /\ \A q \in Path : q # p => tpc'[q] = tpc[q]
          /\ \A q \in Path : q # p => left'[q] = left[q]
      BY <1>3, <1>t DEF ThreadStep, OpenFile, LoadTotal, AddTotal, AddToTotal, StoreCount, Thread
    <2>5. Counted(p) \in Nat
      BY CountedType
    <2>6. /\ tpc'[p] \in {"search", "add"} => left'[p] <= Counted(p) /\ item'[p] = item[p]
          /\ tpc'[p] = "add" => left'[p] > 0
      <3>1. CASE OpenFile(p)
        BY <3>1, <1>t, <2>5 DEF OpenFile, Thread
      <3>2. CASE LoadTotal(p)
        BY <3>2, <1>t DEF LoadTotal, Thread, ThreadInv
      <3>3. CASE AddTotal(p)
        <4>1. left'[p] = left[p] - 1 /\ left[p] <= Counted(p) /\ tpc'[p] = "search" /\ item' = item
          BY <3>3, <1>t DEF AddTotal, AddToTotal, Thread, ThreadInv
        <4> QED BY <4>1, <2>5, <1>t
      <3>4. CASE StoreCount(p)
        BY <3>4, <1>t DEF StoreCount, Thread
      <3> QED BY <1>3, <3>1, <3>2, <3>3, <3>4 DEF ThreadStep
    <2>7. tpc'[p] = "done" => item'[p].search = keyword_search(p)
      <3>1. CASE StoreCount(p)
        <4>1. item' = WithSearch(item, p, keyword_search(p)) /\ keyword_search(p) \in Int
          BY <3>1, SearchType DEF StoreCount, WithSearch
        <4> QED BY <4>1, <1>t, SearchSet, ItemIsRow
      <3>2. CASE ~StoreCount(p)
        BY <3>2, <1>3, <1>t DEF ThreadStep, OpenFile, LoadTotal, AddTotal, AddToTotal, Thread
      <3> QED BY <3>1, <3>2
    <2>8. \A q \in Path : tpc'[q] = "none" <=> q \notin ToSet(list) \ {Root}
      BY <2>2, <2>3, <2>4 DEF ThreadInv
    <2>9. item'[Root].search = 0
      BY <1>t, <2>1, <2>3 DEF ThreadInv
    <2>10. \A q \in ToSet(list) \ {Root} :
             item'[q].search = IF tpc'[q] = "done" THEN keyword_search(q) ELSE NoCount
      <3> SUFFICES ASSUME NEW q \in ToSet(list) \ {Root}
                   PROVE  item'[q].search = IF tpc'[q] = "done" THEN keyword_search(q) ELSE NoCount
        OBVIOUS
      <3>1. CASE q = p
        BY <3>1, <2>3, <2>4, <2>6, <2>7
      <3>2. CASE q # p
        BY <3>2, <1>t, <2>1, <2>3, <2>4 DEF ThreadInv
      <3> QED BY <3>1, <3>2
    <2>11. /\ \A q \in Path : tpc'[q] \in {"search", "add"} => left'[q] <= Counted(q)
           /\ \A q \in Path : tpc'[q] = "add" => left'[q] > 0
      BY <2>4, <2>6 DEF ThreadInv
    <2> QED BY <2>1, <2>3, <2>8, <2>9, <2>10, <2>11 DEF ThreadInv
  <1>4. CASE SwapItems
    <2>1. ToSet(list') = ToSet(list)
      <3>1. /\ pc = "sort" /\ cur < Len(list) /\ Unordered
            /\ list' = [list EXCEPT ![cur] = list[cur + 1], ![cur + 1] = list[cur]]
        BY <1>4 DEF SwapItems, SwapThenTo
      <3>2. cur \in 1 .. Len(list) - 1 /\ list \in Seq(Path)
        BY <3>1 DEF TypeOK
      <3>3. Depth[list[cur]] = Depth[list[cur + 1]]
        <4>1. list[cur] \in ToSet(list) /\ list[cur + 1] \in ToSet(list)
          BY <3>2 DEF ToSet
        <4> QED BY <4>1, <3>1 DEF Unordered, ListInv
      <3>4. Listing(list)
        BY DEF ListInv
      <3> QED BY <3>1, <3>2, <3>3, <3>4, ListingSwap
    <2>2. UNCHANGED <<runMode, item, tpc, left>>
      BY <1>4 DEF SwapItems, SwapThenTo, MainAt, thrd
    <2> QED BY <2>1, <2>2 DEF ThreadInv
  <1>5. CASE NumberChildren
    <2>1. UNCHANGED <<runMode, list, tpc, left>>
      BY <1>5 DEF NumberChildren, MainAt, thrd
    <2>2. \A p \in Path : item'[p].search = item[p].search
      BY <1>5, NumberFacts
    <2> QED BY <1>t, <2>1, <2>2 DEF ThreadInv
  <1>6. CASE OpenDir \/ OpenDirFails \/ CloseDir \/ (\E e \in Path : SkipEntry(e)) \/ KeepOrder
             \/ PassAgain \/ SortEnds \/ JoinFaults \/ WriteFails \/ JoinAndWrite \/ Exit
             \/ UNCHANGED vars
    <2>1. UNCHANGED <<runMode, item, list, tpc, left>>
      BY <1>6 DEF OpenDir, OpenDirFails, CloseDir, SkipEntry, KeepOrder, PassAgain, PassWith,
           SortEnds, JoinFaults, WriteFails, JoinAndWrite, WriteWhen, Exit, MainMoves, MainAt,
           thrd, vars
    <2> QED BY <2>1 DEF ThreadInv
  <1> QED BY <1>1, <1>2, <1>3, <1>4, <1>5, <1>6 DEF Next, MainStep

LEMMA JoinedNext ==
  TypeOK /\ StackInv /\ ListInv /\ WriteInv /\ OpenedInv /\ ThreadInv /\ JoinedInv /\ [Next]_vars
    => JoinedInv'
  <1> SUFFICES ASSUME TypeOK, StackInv, ListInv, WriteInv, OpenedInv, ThreadInv, JoinedInv,
                      [Next]_vars
               PROVE  JoinedInv'
    OBVIOUS
  <1>t. /\ tpc \in [Path -> {"none", "failed", "open", "search", "add", "done"}]
        /\ cur \in 1 .. Len(list) + 1 /\ Len(list) \in Nat /\ list \in Seq(Path)
        /\ output \in Seq(Item) /\ item \in [Path -> Item] /\ (\A p \in Path : item[p].path = p)
        /\ \A k \in 1 .. Len(list) : list[k] \in Path /\ list[k] \in ToSet(list)
    BY DEF TypeOK, ToSet
  <1>1. ASSUME NEW e \in Path, AddSearched(e) \/ AddThread(e) \/ SkipEntry(e) PROVE JoinedInv'
    <2>1. output = << >> /\ output' = output /\ pc' \in {"opendir", "readdir"}
      BY <1>1 DEF AddSearched, AddThread, SkipEntry, AddItem, WriteInv
    <2>2. Len(output') = 0
      BY <2>1
    <2> QED BY <2>1, <2>2 DEF JoinedInv
  <1>2. ASSUME NEW p \in Path, ThreadStep(p) PROVE JoinedInv'
    <2>1. UNCHANGED <<pc, list, cur, output>>
      BY <1>2, ThreadFacts
    <2>2. /\ tpc[p] \notin {"none", "failed", "done"} /\ tpc'[p] # "failed"
          /\ \A q \in Path : q # p => tpc'[q] = tpc[q]
      BY <1>2, <1>t DEF ThreadStep, OpenFile, LoadTotal, AddTotal, AddToTotal, StoreCount, Thread
    <2>3. Failed' = Failed
      BY <2>2 DEF Failed
    <2>4. ASSUME pc = "write", NEW k \in 1 .. cur - 1
          PROVE  tpc'[list[k]] \in {"none", "failed", "done"}
      <3>1. tpc[list[k]] \in {"none", "failed", "done"}
        BY <2>4 DEF JoinedInv
      <3>2. list[k] \in Path
        <4>1. k \in 1 .. Len(list)
          BY <1>t
        <4> QED BY <4>1, <1>t
      <3> QED BY <3>1, <3>2, <2>2
    <2> QED BY <2>1, <2>3, <2>4 DEF JoinedInv
  <1>3. CASE NumberChildren
    <2>1. pc = "number" /\ pc' = "write" /\ UNCHANGED <<output, cur, tpc>>
      BY <1>3 DEF NumberChildren, MainAt, thrd
    <2>2. cur = 1 /\ output = << >>
      BY <2>1 DEF WriteInv
    <2>3. Len(output) = 0 /\ 1 .. cur - 1 = {}
      BY <2>2
    <2> QED BY <2>1, <2>2, <2>3 DEF JoinedInv
  <1>4. CASE JoinAndWrite
    <2>1. /\ pc = "write" /\ pc' = "write" /\ cur <= Len(list) /\ cur' = cur + 1 /\ list' = list
          /\ output' = Append(output, item[list[cur]]) /\ tpc' = tpc
          /\ runMode = PARALLEL => tpc[list[cur]] \in {"none", "failed", "done"}
      BY <1>4 DEF JoinAndWrite, WriteWhen, MainAt, thrd
    <2> DEFINE p == list[cur]
               r == item[p]
    <2>2. p \in Path /\ p \in ToSet(list) /\ r \in Item /\ r.path = p
      BY <1>t, <2>1
    <2>3. tpc[p] \in {"none", "failed", "done"}
      BY <2>1, <2>2 DEF ThreadInv
    <2>4. keyword_search(Root) = 0
      <3>1. Root \in opened
        BY <2>1 DEF OpenedInv
      <3> QED BY <3>1 DEF OpenedInv, keyword_search
    <2>5. r.search = IF p \in Failed THEN NoCount ELSE keyword_search(p)
      BY <2>2, <2>3, <2>4 DEF ThreadInv, Failed
    <2> HIDE DEF r
    <2>6. Failed' = Failed
      BY <2>1 DEF Failed
    <2>7. /\ Len(output') = Len(output) + 1 /\ output'[Len(output) + 1] = r
          /\ \A k \in 1 .. Len(output) : output'[k] = output[k]
      BY <1>t, <2>1, <2>2 DEF r
    <2>8. \A k \in 1 .. Len(output) + 1 : k \in 1 .. Len(output) \/ k = Len(output) + 1
      BY <1>t
    <2>9. \A k \in 1 .. Len(output') :
            output'[k].search = IF output'[k].path \in Failed THEN NoCount
                                ELSE keyword_search(output'[k].path)
      BY <2>2, <2>5, <2>7, <2>8 DEF JoinedInv
    <2>10. \A k \in 1 .. cur' - 1 : tpc[list[k]] \in {"none", "failed", "done"}
      <3>1. \A k \in 1 .. cur' - 1 : k \in 1 .. cur - 1 \/ k = cur
        BY <1>t, <2>1
      <3> QED BY <3>1, <2>1, <2>3 DEF JoinedInv
    <2> QED BY <2>1, <2>6, <2>9, <2>10 DEF JoinedInv
  <1>5. CASE OpenDir \/ OpenDirFails \/ CloseDir \/ KeepOrder \/ SwapItems
             \/ PassAgain \/ SortEnds \/ JoinFaults \/ WriteFails \/ Exit
    <2>1. UNCHANGED <<output, tpc>> /\ pc' # "write"
      BY <1>5 DEF OpenDir, OpenDirFails, CloseDir, KeepOrder, SwapItems, SwapThenTo, PassAgain,
           PassWith, SortEnds, JoinFaults, WriteFails, Exit, MainMoves, MainAt, thrd
    <2>2. Failed' = Failed
      BY <2>1 DEF Failed
    <2> QED BY <2>1, <2>2 DEF JoinedInv
  <1>6. CASE UNCHANGED vars
    BY <1>6 DEF vars, thrd, JoinedInv, Failed
  <1> QED BY <1>1, <1>2, <1>3, <1>4, <1>5, <1>6 DEF Next, MainStep
LEMMA TallyType ==
  TypeOK /\ ThreadInv => \A p \in Path : Tally(p) \in 0 .. Counted(p)
  <1> SUFFICES ASSUME TypeOK, ThreadInv, NEW p \in Path PROVE Tally(p) \in 0 .. Counted(p)
    OBVIOUS
  <1>1. Counted(p) \in Nat /\ left[p] \in Nat
    BY CountedType DEF TypeOK
  <1> QED BY <1>1 DEF Tally, ThreadInv

LEMMA AllMatchesFinite ==
  ASSUME NEW S \in SUBSET Path
  PROVE  IsFiniteSet(UNION {{p} \X (1 .. Counted(p)) : p \in S})
  <1> DEFINE f == [p \in S |-> {p} \X (1 .. Counted(p))]
  <1>1. IsFiniteSet(S)
    BY TreeAssumption, FS_Subset
  <1>2. ASSUME NEW p \in S PROVE IsFiniteSet(f[p])
    <2>1. Counted(p) \in Nat
      BY CountedType
    <2> DEFINE n == Counted(p)
    <2> HIDE DEF n
    <2>2. IsFiniteSet({p}) /\ IsFiniteSet(1 .. n)
      <3>1. n \in Nat
        BY <2>1 DEF n
      <3>2. IsFiniteSet(1 .. n)
        BY <3>1, FS_Interval
      <3>3. IsFiniteSet({p})
        BY FS_Singleton
      <3> QED BY <3>2, <3>3
    <2>4. IsFiniteSet({p} \X (1 .. n))
      BY <2>2, FS_Product
    <2>3. f[p] = {p} \X (1 .. Counted(p))
      OBVIOUS
    <2> HIDE DEF f
    <2> QED BY <2>3, <2>4 DEF n
  <1>3. {f[p] : p \in S} = {{p} \X (1 .. Counted(p)) : p \in S} /\ DOMAIN f = S
    OBVIOUS
  <1> HIDE DEF f
  <1>4. IsFiniteSet({f[p] : p \in S})
    BY <1>1, <1>3, FiniteImage
  <1>5. IsFiniteSet(UNION {f[p] : p \in S})
    BY <1>2, <1>4, FS_UNION
  <1> QED BY <1>3, <1>5

(* The matches counted are among the matches of the items.                  *)
DoneOK ==
  /\ IsFiniteSet(Done) /\ Cardinality(Done) \in Nat
  /\ Cardinality(Done) <= Cardinality(AllMatches) /\ Cardinality(AllMatches) \in Nat

LEMMA DoneBounded == TypeOK /\ StackInv /\ ThreadInv => DoneOK
  <1> SUFFICES ASSUME TypeOK, StackInv, ThreadInv PROVE DoneOK
    OBVIOUS
  <1>1. ToSet(list) \subseteq Reached(opened) /\ Reached(opened) \subseteq Path
    BY ReachedType DEF StackInv, Walk
  <1>2. IsFiniteSet(AllMatches)
    BY <1>1, AllMatchesFinite DEF AllMatches
  <1>3. ASSUME NEW p \in ToSet(list) PROVE 1 .. Tally(p) \subseteq 1 .. Counted(p)
    <2>1. Counted(p) \in Nat /\ Tally(p) \in 0 .. Counted(p)
      BY <1>1, CountedType, TallyType
    <2> QED BY <2>1
  <1>4. Done \subseteq AllMatches
    BY <1>1, <1>3 DEF Done, AllMatches
  <1> QED BY <1>2, <1>4, FS_Subset, FS_CardinalityType DEF DoneOK

(* A step that counts no match leaves the count within its bound.           *)
LEMMA TotalKept ==
  ASSUME TypeOK, StackInv, ThreadInv, TypeOK', StackInv', ThreadInv', TotalInv,
         Done \subseteq Done', totalMatches' = totalMatches,
         \A p \in Path : tpc'[p] = "add" => \/ tpc[p] = "add" /\ reg'[p] = reg[p]
                                           \/ reg'[p] = totalMatches
  PROVE  TotalInv'
  <1>1. IsFiniteSet(Done') /\ Cardinality(Done') \in Nat
    <2>1. DoneOK'
      BY DoneBounded, PTL
    <2> QED BY <2>1 DEF DoneOK
  <1>2. Cardinality(Done) \in Nat
    BY DoneBounded DEF DoneOK
  <1>3. Cardinality(Done) <= Cardinality(Done')
    BY <1>1, FS_Subset
  <1>4. totalMatches \in Nat /\ reg \in [Path -> Nat]
    BY DEF TypeOK
  <1> QED BY <1>1, <1>2, <1>3, <1>4 DEF TotalInv

LEMMA TotalNext ==
  /\ TypeOK /\ StackInv /\ ListInv /\ ThreadInv /\ TypeOK' /\ StackInv' /\ ListInv' /\ ThreadInv'
  /\ TotalInv /\ [Next]_vars
  => TotalInv'
  <1> SUFFICES ASSUME TypeOK, StackInv, ListInv, ThreadInv, TypeOK', StackInv', ListInv', ThreadInv',
                      TotalInv, [Next]_vars
               PROVE  TotalInv'
    OBVIOUS
  <1>t. /\ tpc \in [Path -> {"none", "failed", "open", "search", "add", "done"}]
        /\ left \in [Path -> Nat] /\ reg \in [Path -> Nat] /\ totalMatches \in Nat
        /\ ToSet(list) \subseteq Path
    BY DEF TypeOK, StackInv, Walk
  <1>c. \A p \in Path : Counted(p) \in Nat
    BY CountedType
  <1>1. ASSUME NEW e \in Path, AddSearched(e) PROVE TotalInv'
    <2>1. runMode # PARALLEL /\ totalMatches' = totalMatches + Counted(e) /\ UNCHANGED <<runMode, thrd>>
      BY <1>1 DEF AddSearched
    <2>2. keyword_search(e) \in Int /\ AddItem(e, keyword_search(e))
      BY <1>1, SearchType DEF AddSearched
    <2>3. ToSet(list') = ToSet(list) \cup {e} /\ e \notin ToSet(list)
      BY <2>2, AddFacts
    <2> DEFINE M == {e} \X (1 .. Counted(e))
    <2>4. Done = UNION {{p} \X (1 .. Counted(p)) : p \in ToSet(list)}
      BY <2>1 DEF Done, Tally
    <2>5. Done' = UNION {{p} \X (1 .. Counted(p)) : p \in ToSet(list')}
      BY <2>1 DEF Done, Tally, Counted
    <2>6. Done' = Done \cup M
      BY <2>3, <2>4, <2>5
    <2>7. Done \cap M = {}
      BY <2>3, <2>4
    <2>8. IsFiniteSet(M) /\ Cardinality(M) = Counted(e)
      <3>1. IsFiniteSet({e}) /\ Cardinality({e}) = 1
        BY FS_Singleton
      <3>2. IsFiniteSet(1 .. Counted(e)) /\ Cardinality(1 .. Counted(e)) = Counted(e)
        BY <1>c, FS_Interval
      <3>3. IsFiniteSet(M) /\ Cardinality(M) = Cardinality({e}) * Cardinality(1 .. Counted(e))
        BY <3>1, <3>2, FS_Product, Zenon
      <3>4. Cardinality(M) = 1 * Counted(e)
        BY <3>1, <3>2, <3>3, Zenon
      <3>5. Counted(e) \in Nat
        BY <1>c
      <3> HIDE DEF M
      <3> QED BY <3>3, <3>4, <3>5
    <2> HIDE DEF M
    <2>9. IsFiniteSet(Done) /\ Cardinality(Done) \in Nat
      BY DoneBounded DEF DoneOK
    <2>10. Cardinality(Done') = Cardinality(Done) + Counted(e)
      <3>1. Cardinality(Done \cup M) = Cardinality(Done) + Cardinality(M) - Cardinality(Done \cap M)
        BY <2>8, <2>9, FS_Union, Zenon
      <3>2. Cardinality(Done') = Cardinality(Done) + Counted(e) - 0
        BY <3>1, <2>6, <2>7, <2>8, FS_EmptySet, Zenon
      <3>3. Counted(e) \in Nat
        BY <1>c
      <3> QED BY <3>2, <3>3, <2>9
    <2>11. \A p \in Path : tpc'[p] = "none"
      BY <2>1 DEF thrd, ThreadInv
    <2> QED BY <1>t, <1>c, <2>1, <2>9, <2>10, <2>11 DEF TotalInv
  <1>2. ASSUME NEW e \in Path, AddThread(e) PROVE TotalInv'
    <2>1. /\ runMode = PARALLEL /\ UNCHANGED <<runMode, left, reg, totalMatches>>
          /\ tpc' = [tpc EXCEPT ![e] = "open"] \/ tpc' = [tpc EXCEPT ![e] = "failed"]
      BY <1>2 DEF AddThread
    <2>2. NoCount \in Int /\ AddItem(e, NoCount)
      BY <1>2 DEF AddThread, NoCount
    <2>3. ToSet(list') = ToSet(list) \cup {e} /\ e \notin ToSet(list)
      BY <2>2, AddFacts
    <2>4. tpc'[e] \in {"open", "failed"} /\ \A p \in Path : p # e => tpc'[p] = tpc[p]
      BY <1>t, <2>1
    <2>5. \A p \in ToSet(list) : Tally(p)' = Tally(p)
      BY <1>t, <2>1, <2>3, <2>4 DEF Tally, Counted
    <2>6. Done \subseteq Done'
      BY <2>3, <2>5 DEF Done
    <2> QED BY <2>1, <2>4, <2>6, TotalKept
  <1>3. ASSUME NEW p \in Path, ThreadStep(p) PROVE TotalInv'
    <2>1. UNCHANGED <<runMode, list>>
      BY <1>3, ThreadFacts
    <2>2. tpc[p] \in {"open", "search", "add"}
      BY <1>3 DEF ThreadStep, OpenFile, LoadTotal, AddTotal, AddToTotal, StoreCount, Thread
    <2>3. runMode = PARALLEL /\ p \in ToSet(list)
      BY <2>2 DEF ThreadInv
    <2>4. /\ \A q \in Path : q # p => tpc'[q] = tpc[q] /\ left'[q] = left[q] /\ reg'[q] = reg[q]
      BY <1>3, <1>t DEF ThreadStep, OpenFile, LoadTotal, AddTotal, AddToTotal, StoreCount, Thread
    <2>5. \A q \in Path : q # p => Tally(q)' = Tally(q)
      BY <2>1, <2>4 DEF Tally, Counted
    <2>6. CASE OpenFile(p) \/ LoadTotal(p) \/ StoreCount(p)
      <3>1. totalMatches' = totalMatches /\ (tpc'[p] = "add" => reg'[p] = totalMatches)
        BY <2>6, <1>t DEF OpenFile, LoadTotal, StoreCount, Thread
      <3>2. Tally(p)' = Tally(p)
        <4>1. CASE OpenFile(p)
          BY <4>1, <1>t, <1>c, <2>1 DEF OpenFile, Thread, Tally, Counted
        <4>2. CASE LoadTotal(p)
          BY <4>2, <1>t, <1>c, <2>1 DEF LoadTotal, Thread, Tally, Counted
        <4>3. CASE StoreCount(p)
          <5>1. tpc[p] = "search" /\ tpc'[p] = "done" /\ left[p] = 0
            BY <4>3, <1>t DEF StoreCount, Thread
          <5>2. Tally(p)' = Counted(p)
            BY <5>1 DEF Tally, Counted
          <5>3. Tally(p) = Counted(p) - 0
            BY <5>1, <2>3 DEF Tally
          <5> QED BY <5>2, <5>3, <1>c
        <4> QED BY <2>6, <4>1, <4>2, <4>3
      <3>3. \A q \in ToSet(list) : Tally(q)' = Tally(q)
        BY <1>t, <2>5, <3>2
      <3>4. Done \subseteq Done'
        BY <2>1, <3>3 DEF Done
      <3>5. \A q \in Path : tpc'[q] = "add" => \/ tpc[q] = "add" /\ reg'[q] = reg[q]
                                              \/ reg'[q] = totalMatches
        BY <2>4, <3>1
      <3> QED BY <3>1, <3>4, <3>5, TotalKept
    <2>7. CASE AddTotal(p)
      <3>1. /\ tpc[p] = "add" /\ tpc'[p] = "search" /\ totalMatches' = reg[p] + 1
            /\ left'[p] = left[p] - 1 /\ left[p] > 0 /\ left[p] \in Nat /\ reg' = reg
        BY <2>7, <1>t DEF AddTotal, AddToTotal, Thread, ThreadInv
      <3> DEFINE m == Counted(p) - left[p] + 1
      <3>2. Tally(p) = Counted(p) - left[p] /\ Tally(p) \in Nat
        BY <3>1, <2>3, TallyType DEF Tally
      <3>3. Tally(p)' = m
        <4>1. Tally(p)' = Counted(p) - left'[p]
          BY <3>1, <2>1, <2>3 DEF Tally, Counted
        <4> QED BY <4>1, <3>1, <1>c
      <3>4. m \in Nat \ {0} /\ Tally(p) = m - 1
        BY <3>1, <3>2, <1>c
      <3> HIDE DEF m
      <3>5. 1 .. m = (1 .. m - 1) \cup {m}
        BY <3>4
      <3>6. Done' = Done \cup {<<p, m>>}
        <4>1. \A q \in ToSet(list) : q # p => (1 .. Tally(q))' = 1 .. Tally(q)
          BY <1>t, <2>5
        <4>2. (1 .. Tally(p))' = (1 .. Tally(p)) \cup {m}
          BY <3>3, <3>4, <3>5
        <4>3. {p} \X ((1 .. Tally(p)) \cup {m}) = ({p} \X (1 .. Tally(p))) \cup {<<p, m>>}
          OBVIOUS
        <4> DEFINE T(q) == 1 .. Tally(q)
        <4>4. Done = UNION {{q} \X T(q) : q \in ToSet(list)}
          BY DEF Done
        <4>5. Done' = UNION {{q} \X T(q)' : q \in ToSet(list)}
          BY <2>1 DEF Done
        <4>6. \A q \in ToSet(list) :
                {q} \X T(q)' = IF q = p THEN ({q} \X T(q)) \cup {<<p, m>>} ELSE {q} \X T(q)
          BY <4>1, <4>2, <4>3
        <4> HIDE DEF T
        <4>7. Done' \subseteq Done \cup {<<p, m>>}
          BY <4>4, <4>5, <4>6
        <4>8. Done \subseteq Done' /\ <<p, m>> \in Done'
          BY <2>3, <4>4, <4>5, <4>6
        <4> QED BY <4>7, <4>8
      <3>7. <<p, m>> \notin Done
        <4>1. m \notin 1 .. Tally(p)
          BY <3>4
        <4> QED BY <4>1 DEF Done
      <3>8. IsFiniteSet(Done) /\ Cardinality(Done) \in Nat
        BY DoneBounded DEF DoneOK
      <3>9. Cardinality(Done') = Cardinality(Done) + 1
        BY <3>6, <3>7, <3>8, FS_AddElement
      <3>10. reg[p] \in Nat /\ reg[p] <= Cardinality(Done)
        BY <3>1, <1>t DEF TotalInv
      <3>11. totalMatches' <= Cardinality(Done')
        BY <3>1, <3>8, <3>9, <3>10
      <3>12. ASSUME NEW q \in Path, tpc'[q] = "add" PROVE reg'[q] <= Cardinality(Done')
        <4>1. q # p /\ tpc[q] = "add" /\ reg'[q] = reg[q] /\ reg[q] \in Nat
          BY <3>12, <3>1, <2>4, <1>t
        <4>2. reg[q] <= Cardinality(Done)
          BY <4>1 DEF TotalInv
        <4> QED BY <4>1, <4>2, <3>8, <3>9
      <3> QED BY <3>11, <3>12 DEF TotalInv
    <2> QED BY <1>3, <2>6, <2>7 DEF ThreadStep
  <1>4. CASE SwapItems
    <2>1. ToSet(list') = ToSet(list)
      <3>1. /\ pc = "sort" /\ cur < Len(list) /\ Unordered
            /\ list' = [list EXCEPT ![cur] = list[cur + 1], ![cur + 1] = list[cur]]
        BY <1>4 DEF SwapItems, SwapThenTo
      <3>2. cur \in 1 .. Len(list) - 1 /\ list \in Seq(Path)
        BY <3>1 DEF TypeOK
      <3>3. Depth[list[cur]] = Depth[list[cur + 1]]
        <4>1. list[cur] \in ToSet(list) /\ list[cur + 1] \in ToSet(list)
          BY <3>2 DEF ToSet
        <4> QED BY <4>1, <3>1 DEF Unordered, ListInv
      <3>4. Listing(list)
        BY DEF ListInv
      <3> QED BY <3>1, <3>2, <3>3, <3>4, ListingSwap
    <2>2. UNCHANGED <<runMode, thrd, totalMatches>>
      BY <1>4 DEF SwapItems, SwapThenTo, MainAt
    <2>3. Done' = Done
      BY <2>1, <2>2 DEF Done, Tally, thrd, Counted
    <2> QED BY <2>2, <2>3 DEF TotalInv, thrd
  <1>5. CASE OpenDir \/ OpenDirFails \/ CloseDir \/ (\E e \in Path : SkipEntry(e)) \/ KeepOrder
             \/ PassAgain \/ SortEnds \/ NumberChildren \/ JoinFaults \/ WriteFails \/ JoinAndWrite
             \/ Exit \/ UNCHANGED vars
    <2>1. UNCHANGED <<runMode, thrd, totalMatches, list>>
      BY <1>5 DEF OpenDir, OpenDirFails, CloseDir, SkipEntry, KeepOrder, PassAgain, PassWith,
           SortEnds, NumberChildren, JoinFaults, WriteFails, JoinAndWrite, WriteWhen, Exit,
           MainMoves, MainAt, vars
    <2>2. Done' = Done
      BY <2>1 DEF Done, Tally, thrd, Counted
    <2> QED BY <2>1, <2>2 DEF TotalInv, thrd
  <1> QED BY <1>1, <1>2, <1>3, <1>4, <1>5 DEF Next, MainStep

-----------------------------------------------------------------------------
LEMMA ItemsInvNext == TypeOK /\ ItemsInv /\ [Next]_vars => TypeOK' /\ ItemsInv'
  BY WalkNext, TypeNext, OrderNext, WriteNext, OpenedNext, ThreadNext, JoinedNext, TotalNext
     DEF ItemsInv

LEMMA ItemsInvCorrect == Spec => [](TypeOK /\ ItemsInv)
  BY ItemsInvInit, ItemsInvNext, PTL DEF Spec

(* The type invariant.  PlaceOf stays inside the list because the nodes are *)
(* sorted by depth, SortHelper's cur because it is compared with the length *)
(* of the list, and a thread counts no more matches than it has found.      *)
THEOREM TypeCorrect == Spec => []TypeOK
  BY ItemsInvCorrect, PTL

(* What is printed has the count of its path: fileWriter has joined the     *)
(* thread of an item before it prints the item, in whatever order the       *)
(* threads ran and wherever SortHelper has moved the item.                  *)
THEOREM CountsCorrect == Spec => []CountsExact
  <1>1. TypeOK /\ ItemsInv => CountsExact
    <2> SUFFICES ASSUME TypeOK, ItemsInv PROVE CountsExact
      OBVIOUS
    <2>1. DOMAIN output = 1 .. Len(output)
      BY DEF TypeOK
    <2> QED BY <2>1 DEF ItemsInv, JoinedInv, CountsExact
  <1> QED BY <1>1, ItemsInvCorrect, PTL

(* No thread is left when the items are freed: every thread belongs to an   *)
(* item of the list, and all of them have been joined.                      *)
THEOREM QuietCorrect == Spec => []QuietAtExit
  <1>1. Init => QuietAtExit
    BY DEF Init, QuietAtExit
  <1>2. TypeOK /\ ItemsInv /\ QuietAtExit /\ [Next]_vars => QuietAtExit'
    <2> SUFFICES ASSUME TypeOK, ItemsInv, QuietAtExit, [Next]_vars PROVE QuietAtExit'
      OBVIOUS
    <2>1. CASE Exit
      <3>1. pc = "write" /\ cur > Len(list) /\ tpc' = tpc
        BY <2>1 DEF Exit, MainMoves, MainAt, thrd
      <3>2. ASSUME NEW p \in Path PROVE tpc[p] \in {"none", "failed", "done"}
        <4>1. CASE p \in ToSet(list)
          <5>1. PICK k \in DOMAIN list : list[k] = p
            BY <4>1 DEF ToSet
          <5>2. k \in 1 .. cur - 1
            BY <3>1 DEF TypeOK
          <5> QED BY <5>1, <5>2, <3>1 DEF ItemsInv, JoinedInv
        <4>2. CASE p \notin ToSet(list)
          BY <4>2 DEF ItemsInv, ThreadInv, TypeOK
        <4> QED BY <4>1, <4>2
      <3> QED BY <3>1, <3>2 DEF QuietAtExit
    <2>2. ASSUME NEW p \in Path, ThreadStep(p) PROVE QuietAtExit'
      <3>1. Running /\ pc' = pc
        BY <2>2, ThreadFacts
      <3> QED BY <3>1 DEF Running, QuietAtExit
    <2>3. CASE UNCHANGED vars
      BY <2>3 DEF vars, thrd, QuietAtExit
    <2>4. CASE MainStep /\ ~Exit
      <3>1. pc' # "exited"
        BY <2>4 DEF MainStep, OpenDir, OpenDirFails, CloseDir, SkipEntry, AddSearched, AddThread,
             AddItem, KeepOrder, SwapItems, SwapThenTo, PassAgain, PassWith, SortEnds,
             NumberChildren, JoinFaults, WriteFails, JoinAndWrite, WriteWhen, MainMoves, MainAt
      <3> QED BY <3>1 DEF QuietAtExit
    <2> QED BY <2>1, <2>2, <2>3, <2>4 DEF Next
  <1> QED BY <1>1, <1>2, ItemsInvCorrect, PTL DEF Spec

(* The threads add to totalMatches without a lock and may lose increments,  *)
(* but never count a match twice: what a thread has loaded is at most the   *)
(* number of matches counted so far, and adding it counts one more.         *)
THEOREM TotalCorrect == Spec => []TotalBounded
  <1>1. TypeOK /\ ItemsInv => TotalBounded
    <2> SUFFICES ASSUME TypeOK, ItemsInv PROVE TotalBounded
      OBVIOUS
    <2>1. DoneOK /\ totalMatches <= Cardinality(Done) /\ totalMatches \in Nat
      BY DoneBounded DEF ItemsInv, TotalInv, TypeOK
    <2> QED BY <2>1 DEF DoneOK, TotalBounded
  <1> QED BY <1>1, ItemsInvCorrect, PTL
-----------------------------------------------------------------------------
(* The refinement of Lister.                                                *)
LEMMA SameTree ==
  /\ L!Depth = Depth /\ \A o : L!Reached(o) = Reached(o)
  /\ \A p, q : L!Precedes(p, q) <=> ComesBefore(p, q)
  BY DEF L!Depth, Depth, L!Reached, Reached, L!Precedes, ComesBefore

LEMMA SameCardinality == \A S : L!Cardinality(S) = Cardinality(S)
  BY DEF L!Cardinality, Cardinality

LEMMA SameLines == \A s : Lines(s) = RowLines(s)
  BY DEF Lines, RowLines

LEMMA RefinesInit == Init => L!Init
  <1> SUFFICES ASSUME Init PROVE L!Init
    OBVIOUS
  <1> QED BY LinesEmpty, SameLines DEF Init, L!Init, Running

LEMMA WrittenIsLinesOf ==
  ASSUME TypeOK, StackInv, WriteInv, pc = "write"
  PROVE  /\ LinesOf(Lines(output), list) /\ Len(Lines(output)) = cur - 1
         /\ Reached(opened) = ToSet(list)
  <1>1. output \in Seq(Item) /\ cur \in 1 .. Len(list) + 1 /\ Len(list) \in Nat
    BY DEF TypeOK
  <1>2. Len(output) = cur - 1
    BY DEF WriteInv
  <1>3. Len(output) <= Len(list)
    BY <1>1, <1>2
  <1>4. LinesOf(Lines(output), list)
    BY <1>1, <1>3, LinesType, SameLines, ItemIsRow DEF WriteInv, LinesOf
  <1>5. Reached(opened) = ToSet(list)
    BY WalkDone DEF StackInv
  <1> QED BY <1>1, <1>2, <1>4, <1>5, LinesType, SameLines, ItemIsRow

LEMMA RefinesNext == TypeOK /\ ItemsInv /\ [Next]_vars => [L!Next]_(L!vars)
  <1> SUFFICES ASSUME TypeOK, ItemsInv, [Next]_vars PROVE [L!Next]_(L!vars)
    OBVIOUS
  <1>0. StackInv /\ ListInv /\ OrderInv /\ WriteInv
    BY DEF ItemsInv
  <1>1. CASE OpenDir
    <2>1. /\ pc = "opendir" /\ pc' = "readdir" /\ opened' = opened \cup {Last(stack).dir}
          /\ Kind[Last(stack).dir] \in {"dir", "dirlink"} /\ output' = output
      BY <1>1 DEF OpenDir, Top
    <2> DEFINE d == Last(stack).dir
    <2>2. d \in Reached(opened) /\ d \notin opened
      <3>1. Walk(stack, opened, ToSet(list)) /\ stack # << >> /\ d \notin opened
        BY <1>0, <2>1 DEF StackInv, Top
      <3> QED BY <3>1, WalkOpen
    <2>3. Lines(output) = << >>
      <3>1. output = << >>
        BY <1>0, <2>1 DEF WriteInv
      <3> QED BY <3>1, LinesEmpty, SameLines
    <2>4. L!Open(d)
      BY <2>1, <2>3 DEF L!Open, Running
    <2> QED BY <2>2, <2>4, SameTree DEF L!Next
  <1>2. CASE JoinAndWrite
    <2>1. /\ pc = "write" /\ pc' = "write" /\ cur <= Len(list) /\ opened' = opened
          /\ output' = Append(output, item[list[cur]])
      BY <1>2 DEF JoinAndWrite, WriteWhen, MainAt, walk
    <2> DEFINE lines == Lines(output)
               p == list[cur]
               r == item[p]
    <2>2. LinesOf(lines, list) /\ Len(lines) = cur - 1 /\ Reached(opened) = ToSet(list)
      BY <1>0, <2>1, WrittenIsLinesOf
    <2>3. Listing(list) /\ NeighboursInOrder(list) /\ cur = Len(lines) + 1
      BY <1>0, <2>1, <2>2 DEF ListInv, OrderInv, TypeOK
    <2>4. /\ p \in ToSet(list) \ PathsOf(lines)
          /\ \A q \in (ToSet(list) \ PathsOf(lines)) \ {p} : ComesBefore(p, q)
          /\ NumberAt(DepthsOf(list), cur) = 1 + Cardinality(SameDepth(lines, Depth[p]))
      <3> HIDE DEF lines
      <3> QED BY <2>1, <2>2, <2>3, NextLine
    <2>5. /\ p \in Path /\ r \in Item /\ r.path = p /\ r.level = Depth[p]
          /\ r.i = NumberAt(DepthsOf(list), cur)
      <3>1. cur \in 1 .. Len(list) /\ p \in Path /\ r \in Item /\ r.path = p
        BY <2>1 DEF TypeOK
      <3>2. p \in ToSet(list)
        BY <2>4
      <3> QED BY <3>1, <3>2, <2>1, <1>0 DEF ListInv, WriteInv
    <2>6. output \in Seq(Item)
      BY DEF TypeOK
    <2>7. Lines(output') = Append(lines, [path |-> r.path, level |-> r.level, i |-> r.i])
      <3> HIDE DEF r
      <3>1. output' = Append(output, r)
        BY <2>1 DEF r
      <3> QED BY <3>1, <2>5, <2>6, LinesAppend, SameLines, ItemIsRow
    <2>8. Lines(output') = Append(lines, [path |-> p, level |-> Depth[p],
                                          i |-> 1 + Cardinality(SameDepth(lines, Depth[p]))])
      <3>1. r.i = 1 + Cardinality(SameDepth(lines, Depth[p]))
        BY <2>4, <2>5, Zenon
      <3> HIDE DEF r, p, lines
      <3> QED BY <2>5, <2>7, <3>1, Zenon
    <2>9. L!Waiting = ToSet(list) \ PathsOf(lines)
      BY <2>2, SameTree DEF L!Waiting, L!Printed, PathsOf
    <2>10. SameDepth(lines, Depth[p]) = {k \in DOMAIN lines : lines[k].level = L!Depth[p]}
      BY SameTree DEF SameDepth
    <2>11. L!List(p)
      <3> HIDE DEF p, r
      <3>1. \A q \in L!Waiting \ {p} : L!Precedes(p, q)
        BY <2>4, <2>9, SameTree
      <3>2. Running /\ Running'
        BY <2>1 DEF Running
      <3>3. Lines(output') = Append(Lines(output), [path |-> p, level |-> L!Depth[p],
              i |-> 1 + L!Cardinality({k \in DOMAIN Lines(output) : Lines(output)[k].level = L!Depth[p]})])
        BY <2>8, <2>10, SameTree, SameCardinality, Zenon
      <3>4. /\ (IF Running THEN "running" ELSE IF pc = "exited" THEN "exited" ELSE "failed") = "running"
            /\ (IF Running' THEN "running" ELSE IF pc' = "exited" THEN "exited" ELSE "failed") = "running"
        BY <3>2
      <3>5. opened' = opened
        BY <2>1
      <3> HIDE DEF lines
      <3> QED BY <3>1, <3>3, <3>4, <3>5, Zenon DEF L!List
    <2> QED BY <2>4, <2>9, <2>11 DEF L!Next
  <1>3. CASE Exit
    <2>1. pc = "write" /\ pc' = "exited" /\ cur > Len(list) /\ UNCHANGED <<opened, output>>
      BY <1>3 DEF Exit, MainMoves, MainAt, walk
    <2> DEFINE lines == Lines(output)
    <2>2. LinesOf(lines, list) /\ Len(lines) = cur - 1 /\ Reached(opened) = ToSet(list)
      BY <1>0, <2>1, WrittenIsLinesOf
    <2>3. Listing(list) /\ Len(lines) >= Len(list)
      BY <1>0, <2>1, <2>2 DEF ListInv, TypeOK
    <2>4. ToSet(list) \ PathsOf(lines) = {}
      <3> HIDE DEF lines
      <3> QED BY <2>2, <2>3, LastLine
    <2>5. L!Waiting = {}
      BY <2>2, <2>4, SameTree DEF L!Waiting, L!Printed, PathsOf
    <2> QED BY <2>1, <2>5 DEF L!Next, L!Finish, Running
  <1>4. CASE OpenDirFails \/ JoinFaults \/ WriteFails
    <2>1. /\ pc \in {"opendir", "write"} /\ pc' \in {"failed", "crashed"}
          /\ UNCHANGED <<opened, output>>
      BY <1>4 DEF OpenDirFails, JoinFaults, WriteFails, MainMoves, MainAt, walk
    <2> QED BY <2>1 DEF L!Next, L!Fail, Running
  <1>5. CASE CloseDir \/ (\E e \in Path : SkipEntry(e) \/ AddSearched(e) \/ AddThread(e))
             \/ KeepOrder \/ SwapItems \/ PassAgain \/ SortEnds \/ NumberChildren
    <2>1. Running /\ Running' /\ UNCHANGED <<opened, output>>
      BY <1>5 DEF CloseDir, SkipEntry, AddSearched, AddThread, AddItem, KeepOrder, SwapItems,
           SwapThenTo, PassAgain, PassWith, SortEnds, NumberChildren, MainMoves, MainAt, walk, Running
    <2> QED BY <2>1 DEF L!vars
  <1>6. ASSUME NEW p \in Path, ThreadStep(p) PROVE [L!Next]_(L!vars)
    <2>1. UNCHANGED <<pc, walk, output>>
      BY <1>6, ThreadFacts
    <2> QED BY <2>1 DEF L!vars, walk, Running
  <1>7. CASE UNCHANGED vars
    BY <1>7 DEF vars, walk, L!vars, Running
  <1> QED BY <1>1, <1>2, <1>3, <1>4, <1>5, <1>6, <1>7 DEF Next, MainStep

(* Both modes print the listing of Lister, line by line: the walk gives     *)
(* every path reached its item, the list stays sorted by depth while items  *)
(* are added, and a pass of SortHelper that exchanges nothing leaves all    *)
(* neighbours, and so all items, in order.                                  *)
THEOREM ListerRefined == Spec => IsLister
  BY RefinesInit, RefinesNext, ItemsInvCorrect, PTL DEF Spec, IsLister, L!Spec
=============================================================================
