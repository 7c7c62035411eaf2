--------------------------- MODULE DirTree_proofs ---------------------------
(***************************************************************************)
(* What the proofs about the listers have in common: the depth of a path,   *)
(* the place where a node is inserted, the order and the numbers of a       *)
(* sorted list, and the walk that reads the directories.                    *)
(***************************************************************************)
EXTENDS DirTree, FiniteSetTheorems, SequenceTheorems, TLAPS

(* Whatever holds for the root and is handed on to the entries of a         *)
(* directory holds for every path.                                          *)
LEMMA TreeInduction ==
  ASSUME NEW S, S \subseteq Path, Root \in S, \A d \in S : Entries[d] \subseteq S
  PROVE  S = Path
  <1> SUFFICES ASSUME Path \ S # {} PROVE FALSE
    OBVIOUS
  <1>1. PICK d \in Path \ (Path \ S) : Entries[d] \cap (Path \ S) # {}
    BY TreeAssumption
  <1> QED BY <1>1

Parent(p) == CHOOSE d \in Path : p \in Entries[d]

LEMMA ParentOfEntry ==
  ASSUME NEW d \in Path, NEW e \in Entries[d]
  PROVE  e \in Path /\ e # Root /\ Parent(e) = d
  BY TreeAssumption DEF Parent

LEMMA ParentType ==
  ASSUME NEW p \in Path, p # Root
  PROVE  Parent(p) \in Path /\ p \in Entries[Parent(p)]
  <1>1. \E d \in Path \ {p} : Entries[d] \cap {p} # {}
    BY TreeAssumption
  <1> QED BY <1>1 DEF Parent

(* The depths of some paths and of all directories above them.              *)
Partial(f) ==
  /\ DOMAIN f \subseteq Path /\ Root \in DOMAIN f /\ f \in [DOMAIN f -> Nat] 
  /\ f[Root] = 1
  /\ \A p \in DOMAIN f : p # Root => Parent(p) \in DOMAIN f /\ f[p] = 1 + f[Parent(p)]

LEMMA PartialUnique ==
  ASSUME NEW f, NEW g, Partial(f), Partial(g)
  PROVE  \A p \in DOMAIN f \cap DOMAIN g : f[p] = g[p]
  <1> DEFINE S == {p \in Path : p \in DOMAIN f \cap DOMAIN g => f[p] = g[p]}
  <1>1. Root \in S
    BY TreeAssumption DEF Partial
  <1>2. ASSUME NEW d \in S, NEW e \in Entries[d] PROVE e \in S
    BY <1>2, ParentOfEntry DEF Partial
  <1>3. S \subseteq Path
    OBVIOUS
  <1>4. \A d \in S : Entries[d] \subseteq S
    BY <1>2
  <1> HIDE DEF S
  <1>5. S = Path
    BY <1>1, <1>3, <1>4, TreeInduction
  <1> QED BY <1>5 DEF S, Partial

LEMMA PartialExists == \A p \in Path : \E f : Partial(f) /\ p \in DOMAIN f
  <1> DEFINE S == {p \in Path : \E f : Partial(f) /\ p \in DOMAIN f}
  <1>1. Root \in S
    <2> DEFINE f == [p \in {Root} |-> 1]
    <2>1. Partial(f) /\ Root \in DOMAIN f
      BY TreeAssumption DEF Partial
    <2> HIDE DEF f
    <2> QED BY <2>1, TreeAssumption
  <1>2. ASSUME NEW d \in S, NEW e \in Entries[d] PROVE e \in S
    <2>1. PICK f : Partial(f) /\ d \in DOMAIN f
      OBVIOUS
    <2>2. e \in Path /\ e # Root /\ Parent(e) = d
      BY ParentOfEntry
    <2>3. CASE e \in DOMAIN f
      BY <2>1, <2>2, <2>3
    <2>4. CASE e \notin DOMAIN f
      <3> DEFINE g == [p \in DOMAIN f \cup {e} |-> IF p = e THEN 1 + f[d] ELSE f[p]]
      <3>1. DOMAIN g = DOMAIN f \cup {e} /\ DOMAIN g \subseteq Path /\ Root \in DOMAIN g
        BY <2>1, <2>2 DEF Partial
      <3>2. \A p \in DOMAIN f : f[p] \in Nat /\ g[p] = f[p]
        BY <2>1, <2>4 DEF Partial
      <3>3. g[e] = 1 + f[d] /\ g[e] \in Nat
        BY <2>1, <3>2
      <3>4. g \in [DOMAIN g -> Nat]
        BY <3>1, <3>2, <3>3
      <3>5. g[Root] = 1
        BY <2>1, <3>2 DEF Partial
      <3>6. ASSUME NEW p \in DOMAIN g, p # Root
            PROVE  Parent(p) \in DOMAIN g /\ g[p] = 1 + g[Parent(p)]
        <4>1. CASE p = e
          BY <4>1, <2>1, <2>2, <3>1, <3>2, <3>3
        <4>2. CASE p # e
          <5>1. p \in DOMAIN f
            BY <3>1, <4>2
          <5>2. Parent(p) \in DOMAIN f /\ f[p] = 1 + f[Parent(p)]
            BY <5>1, <3>6, <2>1 DEF Partial
          <5> HIDE DEF g
          <5> QED BY <5>1, <5>2, <3>1, <3>2
        <4> QED BY <4>1, <4>2
      <3>7. Partial(g) /\ e \in DOMAIN g
        <4> HIDE DEF g
        <4> QED BY <3>1, <3>4, <3>5, <3>6 DEF Partial
      <3> HIDE DEF g
      <3> QED BY <3>7, <2>2
    <2> QED BY <2>3, <2>4
  <1>3. S \subseteq Path /\ \A d \in S : Entries[d] \subseteq S
    BY <1>2
  <1> HIDE DEF S
  <1>4. S = Path
    BY <1>1, <1>3, TreeInduction
  <1> QED BY <1>4 DEF S

(* Depth is defined by recursion; that there is such a function follows     *)
(* from what TreeAssumption says of the paths.                              *)
LEMMA DepthDef ==
  Depth = [p \in Path |-> IF p = Root THEN 1 ELSE 1 + Depth[Parent(p)]]
  <1> DEFINE P(p) == CHOOSE f : Partial(f) /\ p \in DOMAIN f
             F == [p \in Path |-> P(p)[p]]
  <1>1. \A p \in Path : Partial(P(p)) /\ p \in DOMAIN P(p)
    BY PartialExists
  <1>2. F[Root] = 1
    BY <1>1, TreeAssumption DEF Partial
  <1>3. ASSUME NEW p \in Path, p # Root PROVE F[p] = 1 + F[Parent(p)]
    <2>1. Parent(p) \in Path
      BY <1>3, ParentType
    <2>2. Parent(p) \in DOMAIN P(p) /\ P(p)[p] = 1 + P(p)[Parent(p)]
      BY <1>1, <1>3 DEF Partial
    <2>3. P(p)[Parent(p)] = P(Parent(p))[Parent(p)]
      BY <1>1, <2>1, <2>2, PartialUnique
    <2> QED BY <2>1, <2>2, <2>3
  <1>4. F = [p \in Path |-> IF p = Root THEN 1 ELSE 1 + F[Parent(p)]]
    <2>1. F = [p \in Path |-> F[p]]
      OBVIOUS
    <2> HIDE DEF F
    <2> QED BY <2>1, <1>2, <1>3
  <1>5. \E f : f = [p \in Path |-> IF p = Root THEN 1 ELSE 1 + f[Parent(p)]]
    <2> HIDE DEF F
    <2> QED BY <1>4
  <1> QED BY <1>5 DEF Depth, Parent
LEMMA DepthType ==
  /\ Depth \in [Path -> Nat] /\ Depth[Root] = 1
  /\ \A d \in Path : \A e \in Entries[d] : Depth[e] = Depth[d] + 1
  <1> DEFINE S == {p \in Path : Depth[p] \in Nat}
  <1>1. Root \in Path /\ Depth[Root] = 1
    BY DepthDef, TreeAssumption
  <1>2. ASSUME NEW d \in Path, NEW e \in Entries[d] PROVE Depth[e] = 1 + Depth[d]
    <2>1. e \in Path /\ e # Root /\ Parent(e) = d
      BY ParentOfEntry
    <2> QED BY <2>1, DepthDef
  <1>3. Root \in S
    BY <1>1
  <1>4. \A d \in S : Entries[d] \subseteq S
    BY <1>2, ParentOfEntry
  <1>5. S = Path
    <2>1. S \subseteq Path
      OBVIOUS
    <2> HIDE DEF S
    <2> QED BY <2>1, <1>3, <1>4, TreeInduction
  <1>6. Depth = [p \in Path |-> Depth[p]]
    BY DepthDef
  <1>7. \A d \in Path : \A e \in Entries[d] : Depth[e] = Depth[d] + 1
    BY <1>2, <1>5
  <1> QED BY <1>1, <1>5, <1>6, <1>7

-----------------------------------------------------------------------------
(* Induction over the numbers, as a fact about sets.                         *)
LEMMA NatIsClosed ==
  ASSUME NEW S, S \subseteq Nat, 0 \in S, \A n \in S : n + 1 \in S
  PROVE  S = Nat
  <1> DEFINE T == Nat \ S
  <1> SUFFICES ASSUME T # {} PROVE FALSE
    OBVIOUS
  <1>1. \E t \in T : \A u \in T : ~(<<u, t>> \in OpToRel(<, Nat))
    <2>1. T \subseteq Nat
      OBVIOUS
    <2> HIDE DEF T
    <2> QED BY <2>1, NatLessThanWellFounded, WFMin
  <1>2. PICK t \in T : \A u \in T : ~(u < t)
    BY <1>1 DEF OpToRel
  <1>3. t # 0 /\ t - 1 \in Nat /\ (t - 1) + 1 = t
    BY <1>2
  <1> QED BY <1>2, <1>3

(* A set of positive numbers without gaps is an interval.                   *)
LEMMA Prefix ==
  ASSUME NEW n \in Nat, NEW S, S \subseteq 1 .. n, \A k \in S : \A j \in 1 .. k : j \in S
  PROVE  Cardinality(S) \in 0 .. n /\ S = 1 .. Cardinality(S)
  <1> DEFINE T == {k \in Nat : k + 1 \notin S}
  <1>1. \E t \in T : \A u \in T : ~(<<u, t>> \in OpToRel(<, Nat))
    <2>1. T \subseteq Nat /\ n \in T
      OBVIOUS
    <2> HIDE DEF T
    <2> QED BY <2>1, NatLessThanWellFounded, WFMin
  <1>2. PICK t \in T : \A u \in T : ~(u < t)
    BY <1>1 DEF OpToRel
  <1>3. ASSUME NEW j \in 1 .. t PROVE j \in S
    <2>1. j - 1 \in Nat /\ j - 1 < t /\ (j - 1) + 1 = j
      OBVIOUS
    <2> QED BY <2>1, <1>2
  <1>4. ASSUME NEW k \in S PROVE k \in 1 .. t
    <2> SUFFICES ASSUME k > t PROVE FALSE
      OBVIOUS
    <2>1. t + 1 \in 1 .. k
      BY <1>2
    <2> QED BY <2>1, <1>2
  <1>5. S = 1 .. t /\ t \in Nat
    BY <1>3, <1>4
  <1>6. Cardinality(S) = t
    BY <1>5, FS_Interval
  <1>7. t <= n
    BY <1>5
  <1> QED BY <1>5, <1>6, <1>7

(* PlaceOf puts a node of depth x behind those that are less deep and in    *)
(* front of those that are deeper.                                          *)
SortedLevels(levels) == \A j, k \in 1 .. Len(levels) : j <= k => levels[j] <= levels[k]

LEMMA PlaceSorted ==
  ASSUME NEW levels \in Seq(Nat), SortedLevels(levels), NEW x \in Nat
  PROVE  LET p == PlaceOf(levels, x)
         IN  /\ p \in 1 .. Len(levels) + 1
             /\ \A k \in 1 .. Len(levels) : k < p => levels[k] <= x
             /\ \A k \in 1 .. Len(levels) : k >= p => x <= levels[k]
  <1> DEFINE t == Cardinality(Passed(levels, x))
             n == Len(levels)
  <1>0. n \in Nat /\ DOMAIN levels = 1 .. n /\ \A k \in 1 .. n : levels[k] \in Nat
    OBVIOUS
  <1>1. CASE levels = << >>
    BY <1>1 DEF PlaceOf
  <1>2. CASE levels # << >>
    <2>1. n >= 1
      BY <1>2
    <2>2. t \in 0 .. n /\ Passed(levels, x) = 1 .. t
      <3>1. Passed(levels, x) \subseteq 1 .. n
        BY <1>0 DEF Passed
      <3>2. \A k \in Passed(levels, x) : \A j \in 1 .. k : j \in Passed(levels, x)
        BY <1>0 DEF Passed
      <3> QED BY <3>1, <3>2, <1>0, Prefix
    <2>3. 1 \in Passed(levels, x)
      BY <1>0, <2>1 DEF Passed
    <2>4. t >= 1
      BY <2>2, <2>3
    <2>5. \A j \in 2 .. t : levels[j] < x
      BY <2>2, <2>4 DEF Passed
    <2>6. t < n => x <= levels[t + 1]
      <3> SUFFICES ASSUME t < n, ~(x <= levels[t + 1]) PROVE FALSE
        OBVIOUS
      <3>1. t + 1 \in 1 .. n /\ levels[t + 1] < x
        BY <1>0, <2>2
      <3>2. \A j \in 2 .. t + 1 : levels[j] < x
        BY <3>1, <2>5, <2>2, <2>4
      <3>3. t + 1 \in Passed(levels, x)
        BY <3>1, <3>2, <1>0 DEF Passed
      <3> QED BY <3>3, <2>2
    <2> HIDE DEF t
    <2>7. CASE x < levels[t]
      <3>1. PlaceOf(levels, x) = 1
        BY <2>7, <1>2 DEF PlaceOf, t
      <3>2. t = 1
        BY <2>4, <2>5, <2>7, <2>2, <1>0
      <3>3. \A k \in 1 .. n : x <= levels[k]
        BY <2>7, <3>2, <1>0 DEF SortedLevels
      <3> QED BY <3>1, <3>3, <1>0
    <2>8. CASE ~(x < levels[t])
      <3>1. PlaceOf(levels, x) = t + 1
        BY <2>8, <1>2 DEF PlaceOf, t
      <3>2. levels[t] <= x
        BY <2>8, <1>0, <2>2, <2>4
      <3>3. \A k \in 1 .. n : k < t + 1 => levels[k] <= x
        BY <3>2, <1>0, <2>2, <2>4 DEF SortedLevels
      <3>4. \A k \in 1 .. n : k >= t + 1 => x <= levels[k]
        BY <2>6, <1>0, <2>2, <2>4 DEF SortedLevels
      <3> QED BY <3>1, <3>3, <3>4, <2>2, <1>0
    <2> QED BY <2>7, <2>8
  <1> QED BY <1>1, <1>2

LEMMA InsertProperties ==
  ASSUME NEW s \in Seq(Path), NEW e \in Path, NEW p \in 1 .. Len(s) + 1
  PROVE  /\ InsertAt(s, p, e) \in Seq(Path)
         /\ Len(InsertAt(s, p, e)) = Len(s) + 1
         /\ \A k \in 1 .. Len(s) + 1 :
              InsertAt(s, p, e)[k] = IF k < p THEN s[k] ELSE IF k = p THEN e ELSE s[k - 1]
  <1> DEFINE a == SubSeq(s, 1, p - 1)
             b == SubSeq(s, p, Len(s))
  <1>1. a \in Seq(Path) /\ Len(a) = p - 1 /\ \A k \in 1 .. p - 1 : a[k] = s[k]
    OBVIOUS
  <1>2. b \in Seq(Path) /\ Len(b) = Len(s) - p + 1 /\ \A k \in 1 .. Len(s) - p + 1 : b[k] = s[p + k - 1]
    OBVIOUS
  <1> HIDE DEF a, b
  <1>3. /\ a \o <<e>> \in Seq(Path) /\ Len(a \o <<e>>) = p
        /\ \A k \in 1 .. p : (a \o <<e>>)[k] = IF k < p THEN s[k] ELSE e
    BY <1>1
  <1> DEFINE c == a \o <<e>>
  <1> HIDE DEF c
  <1>4. /\ c \o b \in Seq(Path) /\ Len(c \o b) = Len(s) + 1
        /\ \A k \in 1 .. Len(s) + 1 : (c \o b)[k] = IF k <= p THEN c[k] ELSE b[k - p]
    <2>1. c \in Seq(Path) /\ b \in Seq(Path) /\ Len(c) = p /\ Len(b) = Len(s) - p + 1
      BY <1>2, <1>3 DEF c
    <2>2. Len(c) + Len(b) = Len(s) + 1
      BY <2>1
    <2>3. /\ c \o b \in Seq(Path) /\ Len(c \o b) = Len(c) + Len(b)
          /\ \A k \in 1 .. Len(c) + Len(b) : (c \o b)[k] = IF k <= Len(c) THEN c[k] ELSE b[k - Len(c)]
      BY <2>1, ConcatProperties, Zenon
    <2> QED BY <2>1, <2>2, <2>3, Zenon
  <1>5. ASSUME NEW k \in 1 .. Len(s) + 1
        PROVE  (c \o b)[k] = IF k < p THEN s[k] ELSE IF k = p THEN e ELSE s[k - 1]
    <2>0. k <= p \/ k > p
      OBVIOUS
    <2>1. CASE k <= p
      BY <2>1, <1>4, <1>3 DEF c
    <2>2. CASE k > p
      <3>1. k - p \in 1 .. Len(s) - p + 1 /\ p + (k - p) - 1 = k - 1
        BY <2>2
      <3>2. b[k - p] = s[p + (k - p) - 1]
        BY <3>1, <1>2
      <3>3. (c \o b)[k] = b[k - p]
        BY <2>2, <1>4
      <3>4. (c \o b)[k] = s[k - 1]
        BY <3>1, <3>2, <3>3
      <3> QED BY <2>2, <3>4
    <2> QED BY <2>0, <2>1, <2>2, Zenon
  <1> QED BY <1>4, <1>5 DEF InsertAt, a, b, c
(* A list of paths without repetition that goes from depth to depth.        *)
Listing(s) ==
  /\ s \in Seq(Path)
  /\ \A j, k \in 1 .. Len(s) : s[j] = s[k] => j = k
  /\ \A j, k \in 1 .. Len(s) : j <= k => Depth[s[j]] <= Depth[s[k]]

DepthsOf(s) == [k \in DOMAIN s |-> Depth[s[k]]]

LEMMA DepthsSorted ==
  ASSUME NEW s, Listing(s)
  PROVE  /\ DepthsOf(s) \in Seq(Nat) /\ Len(DepthsOf(s)) = Len(s) /\ SortedLevels(DepthsOf(s))
         /\ \A k \in 1 .. Len(s) : DepthsOf(s)[k] = Depth[s[k]]
  <1>1. Len(s) \in Nat /\ DOMAIN s = 1 .. Len(s) /\ \A k \in 1 .. Len(s) : Depth[s[k]] \in Nat
    BY DepthType DEF Listing
  <1>2. DepthsOf(s) \in Seq(Nat) /\ Len(DepthsOf(s)) = Len(s)
    BY <1>1 DEF DepthsOf
  <1>3. \A k \in 1 .. Len(s) : DepthsOf(s)[k] = Depth[s[k]]
    BY <1>1 DEF DepthsOf
  <1> QED BY <1>1, <1>2, <1>3 DEF SortedLevels, Listing

(* A path that is inserted behind less deep ones and in front of deeper     *)
(* ones leaves a listing a listing.                                         *)
LEMMA ListingInsertAt ==
  ASSUME NEW s, Listing(s), NEW e \in Path, e \notin ToSet(s), NEW p \in 1 .. Len(s) + 1,
         \A k \in 1 .. Len(s) : k < p => Depth[s[k]] <= Depth[e],
         \A k \in 1 .. Len(s) : k >= p => Depth[e] <= Depth[s[k]]
  PROVE  LET t == InsertAt(s, p, e)
         IN  Listing(t) /\ ToSet(t) = ToSet(s) \cup {e} /\ Len(t) = Len(s) + 1
  <1> DEFINE t == InsertAt(s, p, e)
  <1>1. /\ s \in Seq(Path) /\ Len(s) \in Nat /\ DOMAIN s = 1 .. Len(s)
        /\ \A k \in 1 .. Len(s) : s[k] \in Path /\ Depth[s[k]] \in Nat /\ s[k] # e
    BY DepthType DEF Listing, ToSet
  <1>2. Depth[e] \in Nat
    BY DepthType
  <1>3. /\ p \in 1 .. Len(s) + 1
        /\ \A k \in 1 .. Len(s) : k < p => Depth[s[k]] <= Depth[e]
        /\ \A k \in 1 .. Len(s) : k >= p => Depth[e] <= Depth[s[k]]
    OBVIOUS
  <1>4. /\ t \in Seq(Path) /\ Len(t) = Len(s) + 1
        /\ \A k \in 1 .. Len(s) + 1 :
             t[k] = IF k < p THEN s[k] ELSE IF k = p THEN e ELSE s[k - 1]
    <2>1. s \in Seq(Path) /\ e \in Path /\ p \in 1 .. Len(s) + 1
      BY <1>1, <1>3
    <2> QED BY <2>1, InsertProperties
  <1> HIDE DEF t
  <1>5. ASSUME NEW k \in 1 .. Len(s) + 1
        PROVE  \/ k < p /\ k \in 1 .. Len(s) /\ t[k] = s[k]
               \/ k = p /\ t[k] = e
               \/ k > p /\ k - 1 \in 1 .. Len(s) /\ k - 1 >= p /\ t[k] = s[k - 1]
    BY <1>1, <1>3, <1>4
  <1>6. ASSUME NEW j \in 1 .. Len(t), NEW k \in 1 .. Len(t), t[j] = t[k] PROVE j = k
    <2>1. j \in 1 .. Len(s) + 1 /\ k \in 1 .. Len(s) + 1
      BY <1>4
    <2>2. CASE t[j] = e
      BY <2>1, <2>2, <1>1, <1>5, <1>6
    <2>3. CASE t[j] # e
      <3>1. \/ j < p /\ j \in 1 .. Len(s) /\ t[j] = s[j]
            \/ j > p /\ j - 1 \in 1 .. Len(s) /\ j - 1 >= p /\ t[j] = s[j - 1]
        BY <2>1, <2>3, <1>5
      <3>2. \/ k < p /\ k \in 1 .. Len(s) /\ t[k] = s[k]
            \/ k > p /\ k - 1 \in 1 .. Len(s) /\ k - 1 >= p /\ t[k] = s[k - 1]
        BY <2>1, <2>3, <1>5, <1>6
      <3>3. \A a, b \in 1 .. Len(s) : s[a] = s[b] => a = b
        BY DEF Listing
      <3> QED BY <3>1, <3>2, <3>3, <1>6, <1>3
    <2> QED BY <2>2, <2>3
  <1>7. ASSUME NEW j \in 1 .. Len(t), NEW k \in 1 .. Len(t), j <= k
        PROVE  Depth[t[j]] <= Depth[t[k]]
    <2>1. j \in 1 .. Len(s) + 1 /\ k \in 1 .. Len(s) + 1
      BY <1>4
    <2>2. \A a, b \in 1 .. Len(s) : a <= b => Depth[s[a]] <= Depth[s[b]]
      BY DEF Listing
    <2>3. \/ j < p /\ j \in 1 .. Len(s) /\ t[j] = s[j]
          \/ j = p /\ t[j] = e
          \/ j > p /\ j - 1 \in 1 .. Len(s) /\ j - 1 >= p /\ t[j] = s[j - 1]
      BY <2>1, <1>5
    <2>4. \/ k < p /\ k \in 1 .. Len(s) /\ t[k] = s[k]
          \/ k = p /\ t[k] = e
          \/ k > p /\ k - 1 \in 1 .. Len(s) /\ k - 1 >= p /\ t[k] = s[k - 1]
      BY <2>1, <1>5
    <2>5. CASE j < p
      <3>1. j \in 1 .. Len(s) /\ t[j] = s[j]
        BY <2>3, <2>5, <1>3
      <3> QED BY <3>1, <2>2, <2>4, <2>5, <1>1, <1>2, <1>3, <1>7
    <2>6. CASE j = p
      <3>1. t[j] = e
        BY <2>3, <2>6, <1>3
      <3> QED BY <3>1, <2>4, <2>6, <1>1, <1>2, <1>3, <1>7
    <2>7. CASE j > p
      <3>1. j - 1 \in 1 .. Len(s) /\ t[j] = s[j - 1]
        BY <2>3, <2>7, <1>3
      <3>2. k - 1 \in 1 .. Len(s) /\ t[k] = s[k - 1]
        BY <2>4, <2>7, <1>3, <1>7
      <3>3. j - 1 <= k - 1
        BY <1>7
      <3> QED BY <3>1, <3>2, <3>3, <2>2
    <2> QED BY <2>5, <2>6, <2>7, <1>3
  <1>8. ToSet(t) = ToSet(s) \cup {e}
    <2>1. DOMAIN t = 1 .. Len(s) + 1
      BY <1>4, <1>1
    <2>2. \A k \in 1 .. Len(s) + 1 : t[k] \in ToSet(s) \cup {e}
      BY <1>1, <1>5 DEF ToSet
    <2>3. ASSUME NEW k \in 1 .. Len(s) PROVE s[k] \in ToSet(t)
      <3>1. CASE k < p
        BY <3>1, <2>1, <1>1, <1>3, <1>4 DEF ToSet
      <3>2. CASE k >= p
        <4>1. k + 1 \in 1 .. Len(s) + 1 /\ t[k + 1] = s[k]
          BY <3>2, <1>1, <1>3, <1>4
        <4> QED BY <4>1, <2>1 DEF ToSet
      <3> QED BY <3>1, <3>2, <1>1, <1>3
    <2>4. e \in ToSet(t)
      BY <2>1, <1>3, <1>4 DEF ToSet
    <2> QED BY <1>1, <2>1, <2>2, <2>3, <2>4 DEF ToSet
  <1> QED BY <1>4, <1>6, <1>7, <1>8 DEF Listing, t

LEMMA ListingInsert ==
  ASSUME NEW s, Listing(s), NEW e \in Path, e \notin ToSet(s)
  PROVE  LET t == InsertAt(s, PlaceOf(DepthsOf(s), Depth[e]), e)
         IN  Listing(t) /\ ToSet(t) = ToSet(s) \cup {e} /\ Len(t) = Len(s) + 1
  <1> DEFINE p == PlaceOf(DepthsOf(s), Depth[e])
  <1>2. Depth[e] \in Nat
    BY DepthType
  <1>3. /\ p \in 1 .. Len(s) + 1
        /\ \A k \in 1 .. Len(s) : k < p => Depth[s[k]] <= Depth[e]
        /\ \A k \in 1 .. Len(s) : k >= p => Depth[e] <= Depth[s[k]]
    <2> DEFINE v == DepthsOf(s)
    <2>1. /\ v \in Seq(Nat) /\ Len(v) = Len(s) /\ SortedLevels(v)
          /\ \A k \in 1 .. Len(s) : v[k] = Depth[s[k]]
      BY DepthsSorted, Zenon
    <2>2. p = PlaceOf(v, Depth[e])
      OBVIOUS
    <2> HIDE DEF v, p
    <2>3. /\ p \in 1 .. Len(v) + 1
          /\ \A k \in 1 .. Len(v) : k < p => v[k] <= Depth[e]
          /\ \A k \in 1 .. Len(v) : k >= p => Depth[e] <= v[k]
      BY <1>2, <2>1, <2>2, PlaceSorted
    <2> QED BY <2>1, <2>3
  <1>4. p = PlaceOf(DepthsOf(s), Depth[e])
    OBVIOUS
  <1> HIDE DEF p
  <1> QED BY <1>3, <1>4, ListingInsertAt

LEMMA ListingSwap ==
  ASSUME NEW s, Listing(s), NEW c \in 1 .. Len(s) - 1, Depth[s[c]] = Depth[s[c + 1]]
  PROVE  LET t == [s EXCEPT ![c] = s[c + 1], ![c + 1] = s[c]]
         IN  /\ Listing(t) /\ ToSet(t) = ToSet(s) /\ Len(t) = Len(s)
             /\ \A k \in 1 .. Len(s) : k \notin {c, c + 1} => t[k] = s[k]
             /\ t[c] = s[c + 1] /\ t[c + 1] = s[c]
  <1> DEFINE t == [s EXCEPT ![c] = s[c + 1], ![c + 1] = s[c]]
  <1>1. /\ s \in Seq(Path) /\ Len(s) \in Nat /\ DOMAIN s = 1 .. Len(s)
        /\ c \in 1 .. Len(s) /\ c + 1 \in 1 .. Len(s)
        /\ \A k \in 1 .. Len(s) : s[k] \in Path
    BY DEF Listing
  <1>2. t \in Seq(Path) /\ Len(t) = Len(s) /\ DOMAIN t = 1 .. Len(s)
    BY <1>1
  <1>3. /\ \A k \in 1 .. Len(s) : k \notin {c, c + 1} => t[k] = s[k]
        /\ t[c] = s[c + 1] /\ t[c + 1] = s[c]
    BY <1>1
  <1> HIDE DEF t
  <1>4. \A j, k \in 1 .. Len(t) : t[j] = t[k] => j = k
    BY <1>1, <1>2, <1>3 DEF Listing
  <1>5. \A k \in 1 .. Len(s) : Depth[t[k]] = Depth[s[k]]
    BY <1>1, <1>3
  <1>6. ToSet(t) = ToSet(s)
    <2>1. \A k \in 1 .. Len(s) : t[k] \in ToSet(s)
      BY <1>1, <1>3 DEF ToSet
    <2>2. \A k \in 1 .. Len(s) : s[k] \in ToSet(t)
      BY <1>1, <1>2, <1>3 DEF ToSet
    <2> QED BY <1>1, <1>2, <2>1, <2>2 DEF ToSet
  <1>7. \A j, k \in 1 .. Len(t) : j <= k => Depth[t[j]] <= Depth[t[k]]
    BY <1>2, <1>5 DEF Listing
  <1> QED BY <1>2, <1>3, <1>4, <1>6, <1>7 DEF Listing, t

-----------------------------------------------------------------------------
(* The order of the listing.  A list whose neighbours are in order is.      *)
ComesBefore(p, q) == Depth[p] < Depth[q] \/ (Depth[p] = Depth[q] /\ Rank[p] < Rank[q])

NeighboursInOrder(s) ==
  \A k \in 1 .. Len(s) - 1 : Depth[s[k]] = Depth[s[k + 1]] => ~(Rank[s[k]] > Rank[s[k + 1]])

LEMMA AllInOrder ==
  ASSUME NEW s, Listing(s), NeighboursInOrder(s)
  PROVE  \A j, k \in 1 .. Len(s) : j < k => ComesBefore(s[j], s[k])
  <1> DEFINE T == {n \in Nat : \A j \in 1 .. Len(s) :
                     j + n + 1 <= Len(s) => ComesBefore(s[j], s[j + n + 1])}
  <1>1. /\ Len(s) \in Nat
        /\ \A k \in 1 .. Len(s) : s[k] \in Path /\ Depth[s[k]] \in Nat /\ Rank[s[k]] \in Nat
    BY DepthType, TreeAssumption DEF Listing
  <1>2. ASSUME NEW j \in 1 .. Len(s) - 1 PROVE ComesBefore(s[j], s[j + 1])
    <2>1. j \in 1 .. Len(s) /\ j + 1 \in 1 .. Len(s) /\ s[j] # s[j + 1]
      BY <1>1 DEF Listing
    <2>2. Depth[s[j]] <= Depth[s[j + 1]]
      BY <2>1, <1>1 DEF Listing
    <2>3. Rank[s[j]] # Rank[s[j + 1]]
      BY <2>1, <1>1, TreeAssumption
    <2> QED BY <1>1, <2>1, <2>2, <2>3 DEF ComesBefore, NeighboursInOrder
  <1>3. 0 \in T
    BY <1>1, <1>2
  <1>4. ASSUME NEW n \in T PROVE n + 1 \in T
    <2> SUFFICES ASSUME NEW j \in 1 .. Len(s), j + (n + 1) + 1 <= Len(s)
                 PROVE  ComesBefore(s[j], s[j + (n + 1) + 1])
      BY <1>4
    <2>1. /\ j + n + 1 \in 1 .. Len(s) - 1 /\ j + n + 1 <= Len(s)
          /\ (j + n + 1) + 1 = j + (n + 1) + 1
      BY <1>1
    <2>2. ComesBefore(s[j], s[j + n + 1])
      BY <2>1
    <2>3. ComesBefore(s[j + n + 1], s[j + (n + 1) + 1])
      BY <2>1, <1>2
    <2>4. j + n + 1 \in 1 .. Len(s) /\ j + (n + 1) + 1 \in 1 .. Len(s)
      BY <2>1, <1>1
    <2> QED BY <2>2, <2>3, <2>4, <1>1 DEF ComesBefore
  <1>5. T = Nat
    <2>1. T \subseteq Nat
      OBVIOUS
    <2> HIDE DEF T
    <2> QED BY <2>1, <1>3, <1>4, NatIsClosed
  <1> SUFFICES ASSUME NEW j \in 1 .. Len(s), NEW k \in 1 .. Len(s), j < k PROVE ComesBefore(s[j], s[k])
    OBVIOUS
  <1>6. k - j - 1 \in Nat /\ j + (k - j - 1) + 1 = k /\ k <= Len(s)
    OBVIOUS
  <1>7. k - j - 1 \in T
    <2> HIDE DEF T
    <2> QED BY <1>5, <1>6
  <1> QED BY <1>6, <1>7

(* sub_level's numbers: one more than there are nodes of that depth in      *)
(* front of the node.                                                       *)
LEMMA NumberSorted ==
  ASSUME NEW s, Listing(s), NEW k \in 1 .. Len(s)
  PROVE  /\ NumberAt(DepthsOf(s), k) =
              1 + Cardinality({j \in 1 .. k - 1 : Depth[s[j]] = Depth[s[k]]})
         /\ NumberAt(DepthsOf(s), k) \in Nat
  <1> DEFINE A == {j \in 1 .. k - 1 : Depth[s[j]] = Depth[s[k]]}
             B == {j \in 1 .. k : \A m \in j .. k : DepthsOf(s)[m] = DepthsOf(s)[k]}
  <1>1. /\ Len(s) \in Nat /\ \A j \in 1 .. Len(s) : Depth[s[j]] \in Nat
        /\ \A j \in 1 .. Len(s) : DepthsOf(s)[j] = Depth[s[j]]
    BY DepthType, DepthsSorted DEF Listing
  <1>2. B = A \cup {k}
    <2>1. k \in B
      BY <1>1
    <2>2. A \subseteq B
      <3> SUFFICES ASSUME NEW j \in A, NEW m \in j .. k PROVE Depth[s[m]] = Depth[s[k]]
        BY <1>1
      <3>1. j \in 1 .. Len(s) /\ m \in 1 .. Len(s) /\ j <= m /\ m <= k
        BY <1>1
      <3> QED BY <3>1, <1>1 DEF Listing
    <2>3. B \subseteq A \cup {k}
      BY <1>1
    <2> QED BY <2>1, <2>2, <2>3
  <1>3. IsFiniteSet(A) /\ k \notin A
    <2>1. k - 1 \in Int /\ IsFiniteSet(1 .. k - 1) /\ A \in SUBSET (1 .. k - 1)
      BY FS_Interval
    <2> QED BY <2>1, FS_Subset
  <1> HIDE DEF A, B
  <1>4. Cardinality(B) = Cardinality(A) + 1 /\ Cardinality(A) \in Nat
    BY <1>2, <1>3, FS_AddElement, FS_CardinalityType
  <1> QED BY <1>4 DEF NumberAt, A, B
-----------------------------------------------------------------------------
(* The walk through the tree.  s is the stack of the calls that read the    *)
(* directories, o the directories opened and g the paths that have their    *)
(* node or item: g and what is still to be read make up what is reached.    *)
Frame == [dir : Path, x : Nat, unread : SUBSET Path]

FrameOK(f, o, g) ==
  /\ f.dir \in g /\ f.x = IF f.dir \in o THEN Depth[f.dir] + 1 ELSE Depth[f.dir]
  /\ f.unread \cap g = {} /\ f.unread \subseteq IF f.dir \in o THEN Entries[f.dir] ELSE {}

ToRead(s) == {e \in Path : Kind[e] # "hidden" /\ \E k \in 1 .. Len(s) : e \in s[k].unread}

AllOpened(s, o) == \A k \in 1 .. Len(s) : s[k].dir \in o

Walk(s, o, g) ==
  /\ s \in Seq(Frame) /\ g \subseteq Path /\ o \subseteq g
  /\ \A j, k \in 1 .. Len(s) : s[j].dir = s[k].dir => j = k
  /\ \A k \in 1 .. Len(s) : FrameOK(s[k], o, g)
  /\ \A k \in 1 .. Len(s) - 1 : s[k].dir \in o
  /\ Reached(o) = g \cup ToRead(s)

LEMMA ReachedType == ASSUME NEW o \in SUBSET Path PROVE Reached(o) \subseteq Path
  BY TreeAssumption DEF Reached

LEMMA WalkInit == Walk(<<[dir |-> Root, x |-> 1, unread |-> {}]>>, {}, {Root})
  <1> DEFINE f == [dir |-> Root, x |-> 1, unread |-> {}]
             s == <<f>>
  <1>1. f \in Frame /\ f.dir = Root /\ f.x = 1 /\ f.unread = {}
    BY TreeAssumption DEF Frame
  <1> HIDE DEF f
  <1>2. s \in Seq(Frame) /\ Len(s) = 1 /\ s[1] = f
    BY <1>1
  <1> HIDE DEF s
  <1>3. Reached({}) = {Root} /\ ToRead(s) = {}
    BY <1>1, <1>2 DEF Reached, ToRead
  <1>4. FrameOK(f, {}, {Root})
    BY <1>1, DepthType DEF FrameOK
  <1>5. Walk(s, {}, {Root})
    BY <1>2, <1>3, <1>4, TreeAssumption DEF Walk
  <1> QED BY <1>5 DEF s, f

LEMMA FrontType ==
  ASSUME NEW s \in Seq(Frame), s # << >>
  PROVE  /\ Len(s) \in Nat \ {0} /\ Front(s) \in Seq(Frame) /\ Len(Front(s)) = Len(s) - 1
         /\ \A k \in 1 .. Len(s) - 1 : Front(s)[k] = s[k]
  <1> DEFINE n == Len(s) - 1
  <1>1. Len(s) \in Nat \ {0} /\ n \in Nat /\ \A k \in 1 .. n : s[k] \in Frame
    OBVIOUS
  <1> HIDE DEF n
  <1>2. /\ SubSeq(s, 1, n) \in Seq(Frame) /\ Len(SubSeq(s, 1, n)) = n
        /\ \A k \in 1 .. n : SubSeq(s, 1, n)[k] = s[k]
    <2>1. /\ SubSeq(s, 1, n) \in Seq(Frame)
          /\ Len(SubSeq(s, 1, n)) = IF 1 <= n THEN n - 1 + 1 ELSE 0
          /\ \A i \in 1 .. n - 1 + 1 : SubSeq(s, 1, n)[i] = s[1 + i - 1]
      BY <1>1, SubSeqProperties
    <2> QED BY <1>1, <2>1
  <1> QED BY <1>1, <1>2 DEF Front, n

LEMMA FrameOpened ==
  ASSUME NEW f \in Frame, NEW U \in SUBSET Path
  PROVE  LET r == [f EXCEPT !.x = @ + 1, !.unread = U]
         IN  r \in Frame /\ r.dir = f.dir /\ r.x = f.x + 1 /\ r.unread = U
  <1>1. f.x \in Nat /\ f.dir \in Path
    BY DEF Frame
  <1> DEFINE h == [f EXCEPT !.x = @ + 1]
  <1>2. [f EXCEPT !.x = @ + 1, !.unread = U] = [h EXCEPT !.unread = U]
    OBVIOUS
  <1>3. h = [dir |-> f.dir, x |-> f.x + 1, unread |-> f.unread] /\ f.unread \in SUBSET Path
    BY DEF Frame
  <1>4. h \in Frame /\ h.dir = f.dir /\ h.x = f.x + 1
    BY <1>1, <1>3 DEF Frame
  <1> HIDE DEF h
  <1>5. [h EXCEPT !.unread = U] = [dir |-> h.dir, x |-> h.x, unread |-> U]
    BY <1>4 DEF Frame
  <1> QED BY <1>1, <1>2, <1>4, <1>5 DEF Frame

LEMMA FrameRead ==
  ASSUME NEW f \in Frame, NEW e
  PROVE  LET r == [f EXCEPT !.unread = @ \ {e}]
         IN  r \in Frame /\ r.dir = f.dir /\ r.x = f.x /\ r.unread = f.unread \ {e}
  <1>1. f.x \in Nat /\ f.dir \in Path /\ f.unread \in SUBSET Path
    BY DEF Frame
  <1>2. [f EXCEPT !.unread = @ \ {e}] = [dir |-> f.dir, x |-> f.x, unread |-> f.unread \ {e}]
    BY DEF Frame
  <1> QED BY <1>1, <1>2 DEF Frame

LEMMA NewTop ==
  ASSUME NEW s \in Seq(Frame), s # << >>, NEW f \in Frame
  PROVE  LET t == Append(Front(s), f)
         IN  /\ t \in Seq(Frame) /\ Len(t) = Len(s) /\ t # << >>
             /\ t[Len(s)] = f /\ \A k \in 1 .. Len(s) - 1 : t[k] = s[k]
  <1>1. /\ Front(s) \in Seq(Frame) /\ Len(Front(s)) = Len(s) - 1 /\ Len(s) \in Nat \ {0}
        /\ \A k \in 1 .. Len(s) - 1 : Front(s)[k] = s[k]
    BY FrontType
  <1> QED BY <1>1

LEMMA TopType ==
  ASSUME NEW s \in Seq(Frame), s # << >>
  PROVE  /\ Len(s) \in Nat \ {0} /\ Last(s) = s[Len(s)] /\ Last(s) \in Frame
         /\ Last(s).dir \in Path /\ Last(s).x \in Nat /\ Last(s).unread \subseteq Path
  <1>1. Len(s) \in Nat \ {0} /\ Last(s) = s[Len(s)] /\ Last(s) \in Frame
    BY DEF Last
  <1> QED BY <1>1 DEF Frame

(* opendir succeeds.                                                        *)
OpenTop(s) == Append(Front(s), [Last(s) EXCEPT !.x = @ + 1, !.unread = Entries[Last(s).dir]])

LEMMA WalkOpen ==
  ASSUME NEW s, NEW o, NEW g, Walk(s, o, g), s # << >>, Last(s).dir \notin o
  PROVE  LET d == Last(s).dir
         IN  /\ d \in Reached(o) /\ d \in Path
             /\ Walk(OpenTop(s), o \cup {d}, g) /\ OpenTop(s) # << >>
             /\ AllOpened(OpenTop(s), o \cup {d})
  <1> DEFINE n == Len(s)
             d == Last(s).dir
             f == [Last(s) EXCEPT !.x = @ + 1, !.unread = Entries[d]]
             t == Append(Front(s), f)
  <1>1. /\ s \in Seq(Frame) /\ n \in Nat \ {0} /\ Last(s) = s[n] /\ Last(s) \in Frame
        /\ Last(s).x \in Nat /\ d \in Path /\ Entries[d] \subseteq Path /\ Root \notin Entries[d]
    BY TopType, TreeAssumption DEF Walk
  <1>2. f \in Frame /\ f.dir = d /\ f.x = Last(s).x + 1 /\ f.unread = Entries[d]
    BY <1>1, FrameOpened
  <1>3. d \in g /\ Last(s).x = Depth[d] /\ Last(s).unread = {}
    BY <1>1 DEF Walk, FrameOK
  <1>4. d \in Reached(o)
    BY <1>3 DEF Walk
  <1>5. Entries[d] \cap g = {}
    <2> SUFFICES ASSUME NEW e \in Entries[d], e \in g PROVE FALSE
      OBVIOUS
    <2>1. e \in Reached(o) /\ e # Root
      BY <1>1 DEF Walk
    <2>2. PICK b \in o : e \in Entries[b]
      BY <2>1 DEF Reached
    <2>3. b \in Path /\ b # d
      BY <2>2 DEF Walk
    <2> QED BY <2>2, <2>3, <1>1, TreeAssumption
  <1> HIDE DEF f, d
  <1>6. /\ t \in Seq(Frame) /\ Len(t) = n /\ t[n] = f /\ \A k \in 1 .. n - 1 : t[k] = s[k]
    BY <1>1, <1>2, NewTop
  <1> HIDE DEF t
  <1>7. ASSUME NEW k \in 1 .. n PROVE t[k].dir = s[k].dir
    BY <1>1, <1>2, <1>6 DEF d
  <1>8. \A k \in 1 .. n - 1 : t[k].dir \in o
    BY <1>6 DEF Walk
  <1>9. ASSUME NEW k \in 1 .. n PROVE FrameOK(t[k], o \cup {d}, g)
    <2>1. CASE k = n
      BY <2>1, <1>1, <1>2, <1>3, <1>5, <1>6 DEF FrameOK
    <2>2. CASE k < n
      <3>1. t[k] = s[k] /\ s[k].dir \in o /\ FrameOK(s[k], o, g)
        BY <2>2, <1>1, <1>6, <1>8 DEF Walk
      <3> QED BY <3>1 DEF FrameOK
    <2> QED BY <2>1, <2>2, <1>1
  <1>10. Reached(o \cup {d}) = Reached(o) \cup {e \in Entries[d] : Kind[e] # "hidden"}
    BY DEF Reached
  <1>11. ToRead(t) = ToRead(s) \cup {e \in Entries[d] : Kind[e] # "hidden"}
    <2>1. \A k \in 1 .. n - 1 : t[k].unread = s[k].unread
      BY <1>6
    <2>2. t[n].unread = Entries[d] /\ s[n].unread = {} /\ n \in 1 .. n
      BY <1>1, <1>2, <1>3, <1>6
    <2>3. \A k \in 1 .. n : k \in 1 .. n - 1 \/ k = n
      BY <1>1
    <2> QED BY <2>1, <2>2, <2>3, <1>1, <1>6 DEF ToRead
  <1>12. Walk(t, o \cup {d}, g)
    <2>1. o \cup {d} \subseteq g /\ g \subseteq Path
      BY <1>3 DEF Walk
    <2>2. \A j, k \in 1 .. n : t[j].dir = t[k].dir => j = k
      BY <1>7 DEF Walk
    <2>3. Reached(o \cup {d}) = g \cup ToRead(t)
      BY <1>10, <1>11 DEF Walk
    <2> QED BY <2>1, <2>2, <2>3, <1>6, <1>8, <1>9 DEF Walk
  <1>13. AllOpened(t, o \cup {d}) /\ t # << >>
    <2>1. \A k \in 1 .. n : k \in 1 .. n - 1 \/ k = n
      BY <1>1
    <2>2. t # << >>
      BY <1>1, <1>6
    <2> QED BY <2>1, <2>2, <1>1, <1>2, <1>6, <1>8 DEF AllOpened
  <1> QED BY <1>1, <1>4, <1>12, <1>13 DEF OpenTop, t, f, d

(* A directory has been read, or could not be opened.                       *)
LEMMA WalkClose ==
  ASSUME NEW s, NEW o, NEW g, Walk(s, o, g), s # << >>, Last(s).unread = {}
  PROVE  /\ Walk(Front(s), o, g) /\ Len(Front(s)) = Len(s) - 1
         /\ AllOpened(Front(s), o)
  <1> DEFINE n == Len(s)
             t == Front(s)
  <1>1. s \in Seq(Frame) /\ n \in Nat \ {0} /\ Last(s) = s[n]
    BY TopType DEF Walk
  <1>2. t \in Seq(Frame) /\ Len(t) = n - 1 /\ \A k \in 1 .. n - 1 : t[k] = s[k]
    BY <1>1, FrontType
  <1> HIDE DEF t
  <1>3. ToRead(t) = ToRead(s)
    <2>1. \A k \in 1 .. n : k \in 1 .. n - 1 \/ k = n
      BY <1>1
    <2>2. \A k \in 1 .. n - 1 : k \in 1 .. n
      BY <1>1
    <2> QED BY <2>1, <2>2, <1>1, <1>2 DEF ToRead
  <1>4. \A k \in 1 .. n - 1 : t[k].dir \in o /\ FrameOK(t[k], o, g)
    BY <1>1, <1>2 DEF Walk
  <1>5. \A j, k \in 1 .. n - 1 : t[j].dir = t[k].dir => j = k
    BY <1>1, <1>2 DEF Walk
  <1>6. \A k \in 1 .. Len(t) - 1 : k \in 1 .. n - 1
    BY <1>1, <1>2
  <1>7. Walk(t, o, g)
    BY <1>2, <1>3, <1>4, <1>5, <1>6 DEF Walk
  <1> QED BY <1>2, <1>4, <1>7 DEF t, AllOpened

(* An entry has been read: it is hidden, or it gets its node.               *)
ReadEntry(s, e) == Append(Front(s), [Last(s) EXCEPT !.unread = @ \ {e}])

LEMMA WalkRead ==
  ASSUME NEW s, NEW o, NEW g, Walk(s, o, g), s # << >>, NEW e, e \in Last(s).unread
  PROVE  LET u == ReadEntry(s, e) IN
         /\ e \in Path /\ e # Root /\ e \notin g /\ e \notin o /\ Last(s).x = Depth[e]
         /\ u \in Seq(Frame) /\ u # << >> /\ Len(u) = Len(s)
         /\ AllOpened(s, o) => AllOpened(u, o)
         /\ Kind[e] = "hidden" => Walk(u, o, g)
         /\ Kind[e] # "hidden" => Walk(u, o, g \cup {e})
  <1> DEFINE n == Len(s)
             f == [Last(s) EXCEPT !.unread = @ \ {e}]
             t == Append(Front(s), f)
  <1>1. /\ s \in Seq(Frame) /\ n \in Nat \ {0} /\ Last(s) = s[n] /\ Last(s) \in Frame
        /\ Last(s).unread \subseteq Path
    BY TopType DEF Walk
  <1>2. f \in Frame /\ f.dir = Last(s).dir /\ f.x = Last(s).x /\ f.unread = Last(s).unread \ {e}
    BY <1>1, FrameRead
  <1>3. FrameOK(s[n], o, g)
    BY <1>1 DEF Walk
  <1>4. s[n].dir \in o /\ s[n].dir \in Path /\ e \in Entries[s[n].dir]
    BY <1>1, <1>3 DEF FrameOK, Frame
  <1>5. e \in Path /\ e # Root /\ e \notin g /\ e \notin o /\ Last(s).x = Depth[e]
    BY <1>1, <1>3, <1>4, DepthType, TreeAssumption DEF FrameOK, Walk
  <1> HIDE DEF f
  <1>6. /\ t \in Seq(Frame) /\ t # << >> /\ Len(t) = n /\ t[n] = f
        /\ \A k \in 1 .. n - 1 : t[k] = s[k]
    BY <1>1, <1>2, NewTop
  <1> HIDE DEF t
  <1>7. \A k \in 1 .. n : k \in 1 .. n - 1 \/ k = n
    BY <1>1
  <1>8. \A k \in 1 .. n : t[k].dir = s[k].dir /\ t[k].x = s[k].x
    BY <1>1, <1>2, <1>6, <1>7
  <1>9. ASSUME NEW k \in 1 .. n - 1 PROVE e \notin s[k].unread
    <2>1. k \in 1 .. n /\ n \in 1 .. n /\ k # n
      BY <1>1
    <2>2. s[k].dir # s[n].dir /\ s[k] \in Frame /\ FrameOK(s[k], o, g)
      BY <2>1, <1>1 DEF Walk
    <2>3. s[k].dir \in Path /\ s[k].unread \subseteq Entries[s[k].dir]
      BY <2>2 DEF FrameOK, Frame
    <2> QED BY <2>2, <2>3, <1>4, TreeAssumption
  <1>10. \A k \in 1 .. n : t[k].unread = s[k].unread \ {e}
    BY <1>1, <1>2, <1>6, <1>7, <1>9
  <1>11. ToRead(t) = ToRead(s) \ {e}
    BY <1>6, <1>10 DEF ToRead
  <1>12. \A k \in 1 .. n : FrameOK(t[k], o, g) /\ FrameOK(t[k], o, g \cup {e})
    <2> SUFFICES ASSUME NEW k \in 1 .. n PROVE FrameOK(t[k], o, g) /\ FrameOK(t[k], o, g \cup {e})
      OBVIOUS
    <2>1. FrameOK(s[k], o, g)
      BY DEF Walk
    <2> QED BY <2>1, <1>8, <1>10 DEF FrameOK
  <1>13. /\ \A j, k \in 1 .. n : t[j].dir = t[k].dir => j = k
         /\ \A k \in 1 .. n - 1 : t[k].dir \in o
         /\ g \subseteq Path /\ o \subseteq g /\ Reached(o) = g \cup ToRead(s)
    BY <1>1, <1>6, <1>8 DEF Walk
  <1>14. ASSUME Kind[e] = "hidden" PROVE Walk(t, o, g)
    <2>1. ToRead(t) = ToRead(s)
      BY <1>11, <1>14 DEF ToRead
    <2> QED BY <2>1, <1>6, <1>12, <1>13 DEF Walk
  <1>15. ASSUME Kind[e] # "hidden" PROVE Walk(t, o, g \cup {e})
    <2>1. e \in ToRead(s)
      <3>1. n \in 1 .. n
        BY <1>1
      <3> QED BY <3>1, <1>1, <1>5, <1>15 DEF ToRead
    <2>2. Reached(o) = (g \cup {e}) \cup ToRead(t)
      BY <2>1, <1>11, <1>13
    <2> QED BY <2>2, <1>5, <1>6, <1>12, <1>13 DEF Walk
  <1>16. ReadEntry(s, e) = t
    BY DEF ReadEntry, t, f
  <1>17. AllOpened(s, o) => AllOpened(t, o)
    BY <1>6, <1>8 DEF AllOpened
  <1> QED BY <1>5, <1>6, <1>14, <1>15, <1>16, <1>17

(* A directory that has its node is going to be opened.                     *)
LEMMA WalkCall ==
  ASSUME NEW s, NEW o, NEW g, Walk(s, o, g), NEW e \in g, e \notin o, NEW x, x = Depth[e],
         AllOpened(s, o)
  PROVE  LET t == Append(s, [dir |-> e, x |-> x, unread |-> {}])
         IN  Walk(t, o, g) /\ t # << >> /\ Last(t).dir = e /\ Last(t).unread = {}
  <1> DEFINE n == Len(s)
             f == [dir |-> e, x |-> x, unread |-> {}]
             t == Append(s, f)
  <1>1. s \in Seq(Frame) /\ n \in Nat /\ g \subseteq Path /\ o \subseteq g
    BY DEF Walk
  <1>2. f \in Frame /\ f.dir = e /\ f.x = x /\ f.unread = {}
    BY <1>1, DepthType DEF Frame
  <1> HIDE DEF f
  <1>3. /\ t \in Seq(Frame) /\ Len(t) = n + 1 /\ t[n + 1] = f /\ t # << >>
        /\ \A k \in 1 .. n : t[k] = s[k]
    BY <1>1, <1>2
  <1> HIDE DEF t
  <1>4. Last(t) = f
    BY <1>3 DEF Last
  <1>5. \A k \in 1 .. n + 1 : k \in 1 .. n \/ k = n + 1
    BY <1>1
  <1>6. FrameOK(f, o, g)
    BY <1>2 DEF FrameOK
  <1>7. \A k \in 1 .. n + 1 : FrameOK(t[k], o, g)
    BY <1>3, <1>5, <1>6 DEF Walk
  <1>8. \A j, k \in 1 .. n + 1 : t[j].dir = t[k].dir => j = k
    <2>1. \A k \in 1 .. n : t[k].dir = s[k].dir /\ t[k].dir # e
      BY <1>3 DEF AllOpened
    <2>2. t[n + 1].dir = e
      BY <1>2, <1>3
    <2>3. \A j, k \in 1 .. n : s[j].dir = s[k].dir => j = k
      BY DEF Walk
    <2> QED BY <1>5, <2>1, <2>2, <2>3
  <1>9. ToRead(t) = ToRead(s)
    <2>1. t[n + 1].unread = {} /\ \A k \in 1 .. n : k \in 1 .. n + 1
      BY <1>1, <1>2, <1>3
    <2> QED BY <2>1, <1>3, <1>5 DEF ToRead
  <1>10. \A k \in 1 .. Len(t) - 1 : t[k].dir \in o
    <2>1. \A k \in 1 .. Len(t) - 1 : k \in 1 .. n
      BY <1>1, <1>3
    <2> QED BY <2>1, <1>3 DEF AllOpened
  <1>11. Reached(o) = g \cup ToRead(t)
    BY <1>9 DEF Walk
  <1>12. Walk(t, o, g)
    BY <1>1, <1>3, <1>7, <1>8, <1>10, <1>11 DEF Walk
  <1> QED BY <1>2, <1>3, <1>4, <1>12 DEF t, f

(* When the last call returns everything that is reached has its node.      *)
LEMMA WalkDone ==
  ASSUME NEW o, NEW g, Walk(<< >>, o, g)
  PROVE  Reached(o) = g
  <1>1. Len(<< >>) = 0 /\ 1 .. 0 = {}
    OBVIOUS
  <1> QED BY <1>1 DEF Walk, ToRead
-----------------------------------------------------------------------------
(* The search of one file.                                                  *)
LEMMA FiniteImage ==
  ASSUME NEW S, IsFiniteSet(S), NEW f, DOMAIN f = S
  PROVE  IsFiniteSet({f[x] : x \in S}) /\ Cardinality({f[x] : x \in S}) <= Cardinality(S)
  <1> DEFINE T == {f[x] : x \in S}
             g == [x \in S |-> f[x]]
  <1>1. g \in Surjection(S, T)
    BY DEF Surjection
  <1> HIDE DEF g, T
  <1>2. IsFiniteSet(T) /\ Cardinality(T) <= Cardinality(S)
    BY <1>1, FS_Surjection
  <1> QED BY <1>2 DEF T

LEMMA MatchesFinite ==
  ASSUME NEW p \in Path
  PROVE  IsFiniteSet(Matches(p)) /\ Cardinality(Matches(p)) \in Nat
  <1> DEFINE W(k) == {w \in DOMAIN Text[p][k] : Text[p][k][w] = Keyword}
             n == Len(Text[p])
             f == [k \in 1 .. n |-> {k} \X W(k)]
  <1>1. Text[p] \in Seq(Seq(Word)) /\ n \in Nat /\ DOMAIN Text[p] = 1 .. n
    BY TreeAssumption
  <1>2. ASSUME NEW k \in 1 .. n PROVE IsFiniteSet(f[k])
    <2>1. W(k) \in SUBSET (1 .. Len(Text[p][k])) /\ Len(Text[p][k]) \in Nat
      BY <1>1
    <2>2. IsFiniteSet(1 .. Len(Text[p][k]))
      BY <2>1, FS_Interval
    <2>3. IsFiniteSet(W(k))
      <3> HIDE DEF W
      <3> QED BY <2>1, <2>2, FS_Subset
    <2>4. IsFiniteSet({k})
      BY FS_Singleton
    <2> HIDE DEF W
    <2> QED BY <2>3, <2>4, FS_Product
  <1>3. Matches(p) = UNION {f[k] : k \in 1 .. n}
    <2>1. {f[k] : k \in 1 .. n} = {{k} \X W(k) : k \in 1 .. n}
      <3> HIDE DEF W
      <3> QED OBVIOUS
    <2> QED BY <1>1, <2>1 DEF Matches
  <1>4. IsFiniteSet({f[k] : k \in 1 .. n})
    <2>1. IsFiniteSet(1 .. n) /\ DOMAIN f = 1 .. n
      BY <1>1, FS_Interval
    <2> HIDE DEF f, n
    <2> QED BY <2>1, FiniteImage
  <1>5. IsFiniteSet(UNION {f[k] : k \in 1 .. n})
    <2> HIDE DEF f
    <2> QED BY <1>2, <1>4, FS_UNION
  <1> HIDE DEF f
  <1> QED BY <1>3, <1>5, FS_CardinalityType

LEMMA SearchType == ASSUME NEW p \in Path PROVE keyword_search(p) \in Int
  BY MatchesFinite, TreeAssumption DEF keyword_search, PathKind

-----------------------------------------------------------------------------
(* The next line of a listing.  s is the sorted list of what was reached    *)
(* and lines are the lines of its first elements.                           *)
Line == [path : Path, level : Nat, i : Nat]

PathsOf(lines) == {lines[k].path : k \in DOMAIN lines}

SameDepth(lines, x) == {k \in DOMAIN lines : lines[k].level = x}

LinesOf(lines, s) ==
  /\ lines \in Seq(Line) /\ Len(lines) <= Len(s)
  /\ \A k \in 1 .. Len(lines) : lines[k].path = s[k] /\ lines[k].level = Depth[s[k]]

LEMMA NextLine ==
  ASSUME NEW s, Listing(s), NeighboursInOrder(s), NEW lines, LinesOf(lines, s),
         NEW c, c = Len(lines) + 1, c <= Len(s)
  PROVE  /\ s[c] \in ToSet(s) \ PathsOf(lines)
         /\ \A q \in (ToSet(s) \ PathsOf(lines)) \ {s[c]} : ComesBefore(s[c], q)
         /\ NumberAt(DepthsOf(s), c) = 1 + Cardinality(SameDepth(lines, Depth[s[c]]))
  <1>1. /\ s \in Seq(Path) /\ Len(s) \in Nat /\ DOMAIN s = 1 .. Len(s)
        /\ \A j, k \in 1 .. Len(s) : s[j] = s[k] => j = k
    BY DEF Listing
  <1>2. /\ Len(lines) \in Nat /\ DOMAIN lines = 1 .. Len(lines) /\ c \in 1 .. Len(s)
        /\ Len(lines) = c - 1
    BY <1>1 DEF LinesOf
  <1>3. \A k \in 1 .. c - 1 : k \in 1 .. Len(s) /\ k # c
    BY <1>1, <1>2
  <1>4. s[c] \in ToSet(s) \ PathsOf(lines)
    <2>1. \A k \in DOMAIN lines : lines[k].path = s[k] /\ k \in 1 .. c - 1
      BY <1>2 DEF LinesOf
    <2> QED BY <2>1, <1>1, <1>2, <1>3 DEF ToSet, PathsOf
  <1>5. ASSUME NEW q \in (ToSet(s) \ PathsOf(lines)) \ {s[c]} PROVE ComesBefore(s[c], q)
    <2>1. PICK j \in 1 .. Len(s) : s[j] = q
      BY <1>1 DEF ToSet
    <2>2. j # c
      BY <2>1
    <2>3. j \notin 1 .. c - 1
      <3> SUFFICES ASSUME j \in 1 .. c - 1 PROVE FALSE
        OBVIOUS
      <3>1. j \in DOMAIN lines /\ lines[j].path = q
        BY <1>2, <2>1 DEF LinesOf
      <3> QED BY <3>1 DEF PathsOf
    <2>4. c < j
      BY <1>2, <2>2, <2>3
    <2> QED BY <1>2, <2>1, <2>4, AllInOrder
  <1>6. SameDepth(lines, Depth[s[c]]) = {k \in 1 .. c - 1 : Depth[s[k]] = Depth[s[c]]}
    BY <1>2 DEF SameDepth, LinesOf
  <1>7. NumberAt(DepthsOf(s), c) = 1 + Cardinality({k \in 1 .. c - 1 : Depth[s[k]] = Depth[s[c]]})
    BY <1>2, NumberSorted
  <1> QED BY <1>4, <1>5, <1>6, <1>7

LEMMA LastLine ==
  ASSUME NEW s, Listing(s), NEW lines, LinesOf(lines, s), Len(lines) >= Len(s)
  PROVE  ToSet(s) \ PathsOf(lines) = {}
  <1>1. /\ Len(s) \in Nat /\ DOMAIN s = 1 .. Len(s) /\ Len(lines) \in Nat
        /\ DOMAIN lines = 1 .. Len(lines)
    BY DEF Listing, LinesOf
  <1>2. Len(lines) = Len(s)
    <2>1. \A m, n \in Nat : m <= n /\ m >= n => m = n
      OBVIOUS
    <2>2. Len(lines) <= Len(s)
      BY DEF LinesOf
    <2> QED BY <1>1, <2>1, <2>2
  <1> QED BY <1>1, <1>2 DEF ToSet, PathsOf, LinesOf

-----------------------------------------------------------------------------
(* What the parallel listers keep for a path.                               *)
Row == [path : Path, level : Nat, i : Nat, search : Int]

(* The fields of a row that are assigned.                                 *)
WithSearch(f, e, v) == [f EXCEPT ![e].search = v]
WithLevel(f, e, x) == [f EXCEPT ![e].level = x]
WithPath(f, e, q) == [f EXCEPT ![e].path = q]

LEMMA SearchSet ==
  ASSUME NEW f \in [Path -> Row], NEW e \in Path, NEW v \in Int
  PROVE  LET g == WithSearch(f, e, v) IN
         /\ g \in [Path -> Row] /\ g[e].search = v /\ g[e].path = f[e].path
         /\ g[e].level = f[e].level /\ g[e].i = f[e].i
         /\ \A p \in Path : p # e => g[p] = f[p]
  <1>1. f[e] \in Row
    OBVIOUS
  <1>2. [f[e] EXCEPT !.search = v] =
          [path |-> f[e].path, level |-> f[e].level, i |-> f[e].i, search |-> v]
    BY <1>1 DEF Row
  <1>3. f[e].path \in Path /\ f[e].level \in Nat /\ f[e].i \in Nat
    BY <1>1 DEF Row
  <1>4. [f EXCEPT ![e].search = v] = [f EXCEPT ![e] = [f[e] EXCEPT !.search = v]]
    OBVIOUS
  <1>5. [f[e] EXCEPT !.search = v] \in Row
    BY <1>2, <1>3 DEF Row
  <1> QED BY <1>2, <1>4, <1>5 DEF WithSearch

LEMMA LevelSet ==
  ASSUME NEW f \in [Path -> Row], NEW e \in Path, NEW x \in Nat
  PROVE  LET g == WithLevel(f, e, x) IN
         /\ g \in [Path -> Row] /\ g[e].level = x /\ g[e].path = f[e].path
         /\ g[e].i = f[e].i /\ g[e].search = f[e].search
         /\ \A p \in Path : p # e => g[p] = f[p]
  <1>1. f[e] \in Row
    OBVIOUS
  <1>2. [f[e] EXCEPT !.level = x] =
          [path |-> f[e].path, level |-> x, i |-> f[e].i, search |-> f[e].search]
    BY <1>1 DEF Row
  <1>3. f[e].path \in Path /\ f[e].search \in Int /\ f[e].i \in Nat
    BY <1>1 DEF Row
  <1>4. [f EXCEPT ![e].level = x] = [f EXCEPT ![e] = [f[e] EXCEPT !.level = x]]
    OBVIOUS
  <1>5. [f[e] EXCEPT !.level = x] \in Row
    BY <1>2, <1>3 DEF Row
  <1> QED BY <1>2, <1>4, <1>5 DEF WithLevel

LEMMA PathSet ==
  ASSUME NEW f \in [Path -> Row], NEW e \in Path, NEW q \in Path
  PROVE  LET g == WithPath(f, e, q) IN
         /\ g \in [Path -> Row] /\ g[e].path = q /\ g[e].level = f[e].level
         /\ g[e].i = f[e].i /\ g[e].search = f[e].search
         /\ \A p \in Path : p # e => g[p] = f[p]
  <1>1. f[e] \in Row
    OBVIOUS
  <1>2. [f[e] EXCEPT !.path = q] =
          [path |-> q, level |-> f[e].level, i |-> f[e].i, search |-> f[e].search]
    BY <1>1 DEF Row
  <1>3. f[e].level \in Nat /\ f[e].search \in Int /\ f[e].i \in Nat
    BY <1>1 DEF Row
  <1>4. [f EXCEPT ![e].path = q] = [f EXCEPT ![e] = [f[e] EXCEPT !.path = q]]
    OBVIOUS
  <1>5. [f[e] EXCEPT !.path = q] \in Row
    BY <1>2, <1>3 DEF Row
  <1> QED BY <1>2, <1>4, <1>5 DEF WithPath

LEMMA RowSet ==
  ASSUME NEW f \in [Path -> Row], NEW e \in Path, NEW x \in Nat, NEW v \in Int
  PROVE  LET g == WithSearch(WithLevel(f, e, x), e, v) IN
         /\ g \in [Path -> Row] /\ g[e].search = v /\ g[e].path = f[e].path
         /\ g[e].level = x /\ g[e].i = f[e].i
         /\ \A p \in Path : p # e => g[p] = f[p]
  <1> DEFINE h == WithLevel(f, e, x)
             g == WithSearch(h, e, v)
  <1>1. /\ h \in [Path -> Row] /\ h[e].level = x /\ h[e].path = f[e].path
        /\ h[e].i = f[e].i /\ \A p \in Path : p # e => h[p] = f[p]
    BY LevelSet
  <1> HIDE DEF h
  <1>2. /\ g \in [Path -> Row] /\ g[e].search = v /\ g[e].path = h[e].path
        /\ g[e].level = h[e].level /\ g[e].i = h[e].i
        /\ \A p \in Path : p # e => g[p] = h[p]
    BY <1>1, SearchSet
  <1> QED BY <1>1, <1>2 DEF h

WithNumber(r, x) == [r EXCEPT !.i = x]

LEMMA NumberSet ==
  ASSUME NEW r \in Row, NEW x \in Nat
  PROVE  /\ WithNumber(r, x) \in Row /\ WithNumber(r, x).i = x
         /\ WithNumber(r, x).path = r.path /\ WithNumber(r, x).level = r.level
         /\ WithNumber(r, x).search = r.search
  <1>1. WithNumber(r, x) =
          [path |-> r.path, level |-> r.level, i |-> x, search |-> r.search]
    BY DEF Row, WithNumber
  <1>2. r.path \in Path /\ r.search \in Int /\ r.level \in Nat
    BY DEF Row
  <1> QED BY <1>1, <1>2 DEF Row

RowLines(s) == [k \in DOMAIN s |-> [path |-> s[k].path, level |-> s[k].level, i |-> s[k].i]]

LEMMA LinesType ==
  ASSUME NEW s \in Seq(Row)
  PROVE  /\ RowLines(s) \in Seq(Line) /\ Len(RowLines(s)) = Len(s) /\ DOMAIN RowLines(s) = 1 .. Len(s)
         /\ \A k \in 1 .. Len(s) : /\ RowLines(s)[k].path = s[k].path /\ RowLines(s)[k].level = s[k].level
                                   /\ RowLines(s)[k].i = s[k].i
  <1>1. /\ DOMAIN s = 1 .. Len(s) /\ Len(s) \in Nat
        /\ \A k \in 1 .. Len(s) : s[k].path \in Path /\ s[k].level \in Nat /\ s[k].i \in Nat
    <2>1. DOMAIN s = 1 .. Len(s) /\ Len(s) \in Nat /\ \A k \in 1 .. Len(s) : s[k] \in Row
      OBVIOUS
    <2>2. \A r \in Row : r.path \in Path /\ r.level \in Nat /\ r.i \in Nat
      BY DEF Row
    <2> QED BY <2>1, <2>2
  <1>2. \A k \in 1 .. Len(s) : [path |-> s[k].path, level |-> s[k].level, i |-> s[k].i] \in Line
    BY <1>1 DEF Line
  <1>3. RowLines(s) = [k \in 1 .. Len(s) |-> [path |-> s[k].path, level |-> s[k].level, i |-> s[k].i]]
    BY <1>1 DEF RowLines
  <1>4. RowLines(s) \in Seq(Line) /\ Len(RowLines(s)) = Len(s) /\ DOMAIN RowLines(s) = 1 .. Len(s)
    BY <1>1, <1>2, <1>3
  <1>5. \A k \in 1 .. Len(s) : RowLines(s)[k] = [path |-> s[k].path, level |-> s[k].level, i |-> s[k].i]
    BY <1>3
  <1> QED BY <1>4, <1>5

LEMMA LinesAppend ==
  ASSUME NEW s \in Seq(Row), NEW r \in Row
  PROVE  RowLines(Append(s, r)) = Append(RowLines(s), [path |-> r.path, level |-> r.level, i |-> r.i])
  <1> DEFINE t == Append(s, r)
             f == [path |-> r.path, level |-> r.level, i |-> r.i]
             u == Append(RowLines(s), f)
  <1>1. /\ t \in Seq(Row) /\ Len(t) = Len(s) + 1 /\ Len(s) \in Nat /\ t[Len(s) + 1] = r
        /\ \A k \in 1 .. Len(s) : t[k] = s[k]
    OBVIOUS
  <1>2. f \in Line
    BY DEF Row, Line
  <1>3. /\ RowLines(s) \in Seq(Line) /\ Len(RowLines(s)) = Len(s)
        /\ \A k \in 1 .. Len(s) : RowLines(s)[k] = [path |-> s[k].path, level |-> s[k].level, i |-> s[k].i]
    BY LinesType DEF RowLines
  <1>4. /\ u \in Seq(Line) /\ Len(u) = Len(s) + 1 /\ u[Len(s) + 1] = f
        /\ \A k \in 1 .. Len(s) : u[k] = RowLines(s)[k]
    <2> HIDE DEF f
    <2> QED BY <1>2, <1>3
  <1>5. /\ RowLines(t) \in Seq(Line) /\ Len(RowLines(t)) = Len(s) + 1
        /\ \A k \in 1 .. Len(s) + 1 : RowLines(t)[k] = [path |-> t[k].path, level |-> t[k].level, i |-> t[k].i]
    BY <1>1, LinesType DEF RowLines
  <1>6. ASSUME NEW k \in 1 .. Len(s) + 1 PROVE RowLines(t)[k] = u[k]
    <2>1. CASE k = Len(s) + 1
      BY <2>1, <1>1, <1>4, <1>5
    <2>2. CASE k # Len(s) + 1
      <3>1. k \in 1 .. Len(s)
        BY <2>2, <1>1
      <3> QED BY <3>1, <1>1, <1>3, <1>4, <1>5
    <2> QED BY <2>1, <2>2
  <1>7. RowLines(t) = u
    <2> HIDE DEF t, u
    <2> QED BY <1>4, <1>5, <1>6, SeqEqual
  <1> QED BY <1>7

LEMMA LinesEmpty == RowLines(<< >>) = << >>
  <1>1. << >> \in Seq(Row)
    OBVIOUS
  <1>2. RowLines(<< >>) \in Seq(Line) /\ Len(RowLines(<< >>)) = 0
    BY <1>1, LinesType
  <1> QED BY <1>2
=============================================================================
