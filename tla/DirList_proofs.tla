--------------------------- MODULE DirList_proofs ---------------------------
(***************************************************************************)
(* Theorems about DirList, for any tree of files, any order of readdir and  *)
(* any directories that cannot be opened.                                   *)
(***************************************************************************)
EXTENDS DirList, DirTree_proofs

(* The depth of a path is at least that of the root.                        *)
LEMMA DepthPositive == \A p \in Path : Depth[p] \in Nat /\ Depth[p] > 0
  <1> SUFFICES ASSUME NEW p \in Path PROVE Depth[p] \in Nat /\ Depth[p] > 0
    OBVIOUS
  <1>1. CASE p = Root
    BY <1>1, DepthType
  <1>2. CASE p # Root
    <2>1. Parent(p) \in Path /\ p \in Entries[Parent(p)]
      BY <1>2, ParentType
    <2>2. Depth[p] = Depth[Parent(p)] + 1 /\ Depth[Parent(p)] \in Nat
      BY <2>1, DepthType
    <2> QED BY <2>2
  <1> QED BY <1>1, <1>2

(* The pointers of a list with the nodes s: h and nx lead through s from    *)
(* its first node on, t and pv from its last one back.                      *)
Forward(s, h, nx) ==
  /\ h = IF s = << >> THEN NULL ELSE s[1]
  /\ \A k \in 1 .. Len(s) : nx[s[k]] = IF k = Len(s) THEN NULL ELSE s[k + 1]

Backward(s, t, pv) ==
  /\ t = IF s = << >> THEN NULL ELSE s[Len(s)]
  /\ \A k \in 1 .. Len(s) : pv[s[k]] = IF k = 1 THEN NULL ELSE s[k - 1]

NextLinks(nx, e, b, a) ==
  [p \in Path |-> IF p = e THEN a ELSE IF p = b THEN e ELSE nx[p]]

PrevLinks(pv, e, b, a) ==
  [p \in Path |-> IF p = e THEN b ELSE IF p = a THEN e ELSE pv[p]]

(* The neighbours of the p-th place of s.                                   *)
BeforePlace(s, p) == IF p = 1 THEN NULL ELSE s[p - 1]
AfterPlace(s, p) == IF p = Len(s) + 1 THEN NULL ELSE s[p]

(* A node linked in between two neighbours is in the list, both ways.       *)
LEMMA LinkForwardOK ==
  ASSUME NEW s, Listing(s), NEW e \in Path, e \notin ToSet(s), NEW p \in 1 .. Len(s) + 1,
         NEW h, NEW nx, Forward(s, h, nx)
  PROVE  Forward(InsertAt(s, p, e), IF p = 1 THEN e ELSE h,
                 NextLinks(nx, e, BeforePlace(s, p), AfterPlace(s, p)))
  <1> DEFINE t == InsertAt(s, p, e)
             b == BeforePlace(s, p)
             a == AfterPlace(s, p)
             ny == NextLinks(nx, e, b, a)
             len == Len(s)
  <1>1. /\ s \in Seq(Path) /\ len \in Nat
        /\ \A k \in 1 .. len : s[k] \in Path /\ s[k] # e
        /\ \A j, k \in 1 .. len : s[j] = s[k] => j = k
    BY DEF Listing, ToSet
  <1>2. /\ t \in Seq(Path) /\ Len(t) = len + 1
        /\ \A k \in 1 .. len + 1 : t[k] = IF k < p THEN s[k] ELSE IF k = p THEN e ELSE s[k - 1]
    BY <1>1, InsertProperties
  <1> HIDE DEF t
  <1>3. ny[e] = a /\ \A k \in 1 .. len : ny[s[k]] = IF s[k] = b THEN e ELSE nx[s[k]]
    BY <1>1 DEF NextLinks
  <1>4. \A k \in 1 .. len : s[k] = b <=> k = p - 1
    BY <1>1, NullAssumption DEF BeforePlace
  <1> HIDE DEF ny, b
  <1>5. ASSUME NEW k \in 1 .. len + 1 PROVE ny[t[k]] = IF k = len + 1 THEN NULL ELSE t[k + 1]
    <2>1. CASE k < p - 1
      <3>1. k \in 1 .. len /\ k + 1 \in 1 .. len + 1 /\ k + 1 < p /\ k < p /\ k # len + 1 /\ k # len
        BY <2>1, <1>1
      <3>2. t[k] = s[k] /\ t[k + 1] = s[k + 1]
        BY <3>1, <1>2
      <3>3. ny[s[k]] = nx[s[k]]
        BY <3>1, <2>1, <1>3, <1>4
      <3>4. nx[s[k]] = s[k + 1]
        BY <3>1 DEF Forward
      <3> QED BY <3>1, <3>2, <3>3, <3>4
    <2>2. CASE k = p - 1
      <3>1. k \in 1 .. len /\ k + 1 \in 1 .. len + 1 /\ k + 1 = p /\ k < p /\ k # len + 1
        BY <2>2, <1>1
      <3>2. t[k] = s[k] /\ t[k + 1] = e
        BY <3>1, <1>2
      <3>3. ny[s[k]] = e
        BY <3>1, <2>2, <1>3, <1>4
      <3> QED BY <3>1, <3>2, <3>3
    <2>3. CASE k = p
      <3>1. t[k] = e /\ ny[t[k]] = a
        BY <2>3, <1>2, <1>3
      <3>2. CASE p = len + 1
        BY <3>1, <3>2, <2>3 DEF AfterPlace
      <3>3. CASE p # len + 1
        <4>1. k + 1 \in 1 .. len + 1 /\ k + 1 > p /\ (k + 1) - 1 = p
          BY <2>3, <3>3, <1>1
        <4>2. t[k + 1] = s[p]
          BY <4>1, <1>2
        <4> QED BY <3>1, <3>3, <4>2, <2>3 DEF AfterPlace
      <3> QED BY <3>2, <3>3
    <2>4. CASE k > p
      <3>1. k - 1 \in 1 .. len /\ k - 1 # p - 1 /\ (k - 1) + 1 = k
        BY <2>4, <1>1
      <3>2. t[k] = s[k - 1] /\ ny[s[k - 1]] = nx[s[k - 1]]
        BY <3>1, <2>4, <1>2, <1>3, <1>4
      <3>3. nx[s[k - 1]] = IF k - 1 = len THEN NULL ELSE s[k]
        BY <3>1 DEF Forward
      <3>4. CASE k = len + 1
        BY <3>2, <3>3, <3>4, <1>1
      <3>5. CASE k # len + 1
        <4>1. k + 1 \in 1 .. len + 1 /\ k + 1 > p /\ (k + 1) - 1 = k /\ k - 1 # len
          BY <2>4, <3>5, <1>1
        <4>2. t[k + 1] = s[k]
          BY <4>1, <1>2
        <4> QED BY <3>2, <3>3, <3>5, <4>1, <4>2
      <3> QED BY <3>4, <3>5
    <2> QED BY <2>1, <2>2, <2>3, <2>4, <1>1
  <1>6. (IF p = 1 THEN e ELSE h) = t[1] /\ t # << >>
    <2>1. t # << >> /\ 1 \in 1 .. len + 1
      BY <1>1, <1>2
    <2>2. CASE p = 1
      BY <2>1, <2>2, <1>2
    <2>3. CASE p # 1
      <3>1. 1 < p /\ len # 0 /\ s # << >>
        BY <2>3, <1>1
      <3>2. t[1] = s[1]
        BY <2>1, <3>1, <1>2
      <3> QED BY <2>1, <2>3, <3>1, <3>2 DEF Forward
    <2> QED BY <2>2, <2>3
  <1>7. Forward(t, IF p = 1 THEN e ELSE h, ny)
    BY <1>2, <1>5, <1>6 DEF Forward
  <1> QED BY <1>7 DEF t, ny, b

LEMMA LinkBackwardOK ==
  ASSUME NEW s, Listing(s), NEW e \in Path, e \notin ToSet(s), NEW p \in 1 .. Len(s) + 1,
         NEW l, NEW pv, Backward(s, l, pv)
  PROVE  Backward(InsertAt(s, p, e), IF p = Len(s) + 1 THEN e ELSE l,
                  PrevLinks(pv, e, BeforePlace(s, p), AfterPlace(s, p)))
  <1> DEFINE t == InsertAt(s, p, e)
             b == BeforePlace(s, p)
             a == AfterPlace(s, p)
             pw == PrevLinks(pv, e, b, a)
             len == Len(s)
  <1>1. /\ s \in Seq(Path) /\ len \in Nat
        /\ \A k \in 1 .. len : s[k] \in Path /\ s[k] # e
        /\ \A j, k \in 1 .. len : s[j] = s[k] => j = k
    BY DEF Listing, ToSet
  <1>2. /\ t \in Seq(Path) /\ Len(t) = len + 1
        /\ \A k \in 1 .. len + 1 : t[k] = IF k < p THEN s[k] ELSE IF k = p THEN e ELSE s[k - 1]
    BY <1>1, InsertProperties
  <1> HIDE DEF t
  <1>3. pw[e] = b /\ \A k \in 1 .. len : pw[s[k]] = IF s[k] = a THEN e ELSE pv[s[k]]
    BY <1>1 DEF PrevLinks
  <1>4. \A k \in 1 .. len : s[k] = a <=> k = p
    BY <1>1, NullAssumption DEF AfterPlace
  <1> HIDE DEF pw, a
  <1>5. ASSUME NEW k \in 1 .. len + 1 PROVE pw[t[k]] = IF k = 1 THEN NULL ELSE t[k - 1]
    <2>1. CASE k < p
      <3>1. k \in 1 .. len /\ k # p /\ k - 1 < p
        BY <2>1, <1>1
      <3>2. t[k] = s[k] /\ pw[s[k]] = pv[s[k]]
        BY <3>1, <2>1, <1>2, <1>3, <1>4
      <3>3. pv[s[k]] = IF k = 1 THEN NULL ELSE s[k - 1]
        BY <3>1 DEF Backward
      <3>4. k # 1 => k - 1 \in 1 .. len + 1
        BY <1>1
      <3>5. k # 1 => t[k - 1] = s[k - 1]
        BY <3>1, <3>4, <1>2
      <3> QED BY <3>2, <3>3, <3>5
    <2>2. CASE k = p
      <3>1. t[k] = e /\ pw[t[k]] = b
        BY <2>2, <1>2, <1>3
      <3>2. CASE p = 1
        BY <3>1, <3>2, <2>2 DEF BeforePlace
      <3>3. CASE p # 1
        <4>1. k - 1 \in 1 .. len + 1 /\ k - 1 < p
          BY <2>2, <3>3, <1>1
        <4>2. t[k - 1] = s[k - 1]
          BY <4>1, <1>2
        <4> QED BY <3>1, <3>3, <4>2, <2>2 DEF BeforePlace
      <3> QED BY <3>2, <3>3
    <2>3. CASE k = p + 1
      <3>1. k - 1 \in 1 .. len /\ k - 1 = p /\ k - 1 \in 1 .. len + 1 /\ k > p /\ k # 1
        BY <2>3, <1>1
      <3>2. t[k] = s[k - 1] /\ t[k - 1] = e
        BY <3>1, <1>2
      <3>3. pw[s[k - 1]] = e
        BY <3>1, <1>3, <1>4
      <3> QED BY <3>1, <3>2, <3>3
    <2>4. CASE k > p + 1
      <3>1. /\ k - 1 \in 1 .. len /\ k - 1 # p /\ k - 1 \in 1 .. len + 1 /\ k - 1 > p /\ k > p
            /\ k # 1 /\ k - 1 # 1
        BY <2>4, <1>1
      <3>2. t[k] = s[k - 1] /\ t[k - 1] = s[(k - 1) - 1]
        BY <3>1, <1>2
      <3>3. pw[s[k - 1]] = pv[s[k - 1]]
        BY <3>1, <1>3, <1>4
      <3>4. pv[s[k - 1]] = s[(k - 1) - 1]
        BY <3>1 DEF Backward
      <3> QED BY <3>1, <3>2, <3>3, <3>4
    <2> QED BY <2>1, <2>2, <2>3, <2>4, <1>1
  <1>6. (IF p = len + 1 THEN e ELSE l) = t[len + 1] /\ t # << >>
    <2>1. t # << >> /\ len + 1 \in 1 .. len + 1
      BY <1>1, <1>2
    <2>2. CASE p = len + 1
      BY <2>1, <2>2, <1>2
    <2>3. CASE p # len + 1
      <3>1. len + 1 > p /\ len # 0 /\ s # << >> /\ (len + 1) - 1 = len
        BY <2>3, <1>1
      <3>2. t[len + 1] = s[len]
        BY <2>1, <3>1, <1>2
      <3> QED BY <2>1, <2>3, <3>1, <3>2 DEF Backward
    <2> QED BY <2>2, <2>3
  <1>7. Backward(t, IF p = len + 1 THEN e ELSE l, pw)
    BY <1>2, <1>5, <1>6 DEF Backward
  <1> QED BY <1>7 DEF t, pw, a

(* The number of a node follows from that of the node before it.            *)
LEMMA NumberNext ==
  ASSUME NEW s, Listing(s), NEW c \in 1 .. Len(s) - 1
  PROVE  NumberAt(DepthsOf(s), c + 1) =
           IF Depth[s[c + 1]] = Depth[s[c]] THEN NumberAt(DepthsOf(s), c) + 1 ELSE 1
  <1> DEFINE A(k) == {j \in 1 .. k - 1 : Depth[s[j]] = Depth[s[k]]}
  <1>1. /\ Len(s) \in Nat /\ c \in 1 .. Len(s) /\ c + 1 \in 1 .. Len(s) /\ (c + 1) - 1 = c
        /\ \A j \in 1 .. Len(s) : Depth[s[j]] \in Nat
    BY DepthType DEF Listing
  <1>2. /\ NumberAt(DepthsOf(s), c) = 1 + Cardinality(A(c))
        /\ NumberAt(DepthsOf(s), c + 1) = 1 + Cardinality(A(c + 1))
    BY <1>1, NumberSorted
  <1>3. CASE Depth[s[c + 1]] = Depth[s[c]]
    <2>1. A(c + 1) = A(c) \cup {c} /\ c \notin A(c)
      BY <1>1, <1>3
    <2>2. IsFiniteSet(A(c))
      <3>1. c - 1 \in Int /\ A(c) \in SUBSET (1 .. c - 1)
        BY <1>1
      <3>2. IsFiniteSet(1 .. c - 1)
        BY <3>1, FS_Interval
      <3> QED BY <3>1, <3>2, FS_Subset
    <2> HIDE DEF A
    <2>3. Cardinality(A(c + 1)) = Cardinality(A(c)) + 1 /\ Cardinality(A(c)) \in Nat
      BY <2>1, <2>2, FS_AddElement, FS_CardinalityType
    <2> QED BY <1>2, <1>3, <2>3
  <1>4. CASE Depth[s[c + 1]] # Depth[s[c]]
    <2>1. ASSUME NEW j \in 1 .. c PROVE Depth[s[j]] # Depth[s[c + 1]]
      <3>1. j \in 1 .. Len(s) /\ Depth[s[j]] <= Depth[s[c]] /\ Depth[s[c]] <= Depth[s[c + 1]]
        BY <1>1 DEF Listing
      <3> QED BY <3>1, <1>1, <1>4
    <2>2. A(c + 1) = {}
      BY <1>1, <2>1
    <2> HIDE DEF A
    <2>3. Cardinality(A(c + 1)) = 0
      BY <2>2, FS_EmptySet
    <2> QED BY <1>2, <1>4, <2>3
  <1> QED BY <1>3, <1>4

LEMMA NumberFirst ==
  ASSUME NEW s, Listing(s), s # << >>
  PROVE  NumberAt(DepthsOf(s), 1) = 1
  <1> DEFINE A == {j \in 1 .. 1 - 1 : Depth[s[j]] = Depth[s[1]]}
  <1>1. 1 \in 1 .. Len(s) /\ A = {}
    BY DEF Listing
  <1>2. NumberAt(DepthsOf(s), 1) = 1 + Cardinality(A)
    BY <1>1, NumberSorted
  <1> HIDE DEF A
  <1> QED BY <1>1, <1>2, FS_EmptySet

(* A list without repetition has as many nodes as places, and not more than *)
(* there are paths.                                                         *)
LEMMA LengthOfSet ==
  ASSUME NEW s \in Seq(Path), \A j, k \in 1 .. Len(s) : s[j] = s[k] => j = k
  PROVE  Cardinality(ToSet(s)) = Len(s) /\ Len(s) <= Cardinality(Path) /\ Cardinality(Path) \in Nat
  <1>1. Len(s) \in Nat /\ DOMAIN s = 1 .. Len(s) /\ ToSet(s) \in SUBSET Path
    BY DEF ToSet
  <1>2. s \in Bijection(1 .. Len(s), ToSet(s))
    <2>1. s \in [1 .. Len(s) -> ToSet(s)]
      BY <1>1 DEF ToSet
    <2> QED BY <1>1, <2>1 DEF Bijection, Injection, Surjection, IsInjective, ToSet
  <1>3. Cardinality(ToSet(s)) = Len(s)
    BY <1>1, <1>2, FS_CountingElements DEF ExistsBijection
  <1>4. Cardinality(ToSet(s)) <= Cardinality(Path) /\ Cardinality(Path) \in Nat
    BY <1>1, TreeAssumption, FS_Subset, FS_CardinalityType
  <1> QED BY <1>3, <1>4

(* Following the pointers of a list one comes by its nodes.                 *)
LEMMA ChainIs ==
  ASSUME NEW s \in Seq(Path), \A j, k \in 1 .. Len(s) : s[j] = s[k] => j = k,
         NEW h, NEW link, Forward(s, h, link)
  PROVE  Chain(h, link) = s
  <1> DEFINE N == Cardinality(Path)
             Step(f) == [k \in 0 .. N |-> IF k = 0 THEN h
                           ELSE IF f[k - 1] = NULL THEN NULL ELSE link[f[k - 1]]]
             F == [k \in 0 .. N |-> IF k < Len(s) THEN s[k + 1] ELSE NULL]
             at == CHOOSE f : f = Step(f)
  <1>1. /\ Len(s) \in Nat /\ N \in Nat /\ Len(s) <= N
        /\ \A k \in 1 .. Len(s) : s[k] \in Path /\ s[k] # NULL
    BY LengthOfSet, NullAssumption
  <1> HIDE DEF N
  <1>2. \A k \in 0 .. N : F[k] = IF k < Len(s) THEN s[k + 1] ELSE NULL
    OBVIOUS
  <1>3. F[0] = h
    <2>1. 0 \in 0 .. N /\ (0 < Len(s) <=> s # << >>)
      BY <1>1
    <2>2. F[0] = IF 0 < Len(s) THEN s[0 + 1] ELSE NULL
      BY <2>1, <1>2
    <2> QED BY <2>1, <2>2 DEF Forward
  <1>4. ASSUME NEW k \in 0 .. N, k # 0
        PROVE  F[k] = IF F[k - 1] = NULL THEN NULL ELSE link[F[k - 1]]
    <2>1. k - 1 \in 0 .. N /\ (k - 1) + 1 = k
      BY <1>1, <1>4
    <2>2. F[k - 1] = IF k - 1 < Len(s) THEN s[k] ELSE NULL
      BY <2>1, <1>2
    <2>3. F[k] = IF k < Len(s) THEN s[k + 1] ELSE NULL
      BY <1>2
    <2>4. CASE k - 1 < Len(s)
      <3>1. k \in 1 .. Len(s) /\ F[k - 1] = s[k] /\ s[k] # NULL
        BY <2>2, <2>4, <1>1, <1>4
      <3>2. link[s[k]] = IF k = Len(s) THEN NULL ELSE s[k + 1]
        BY <3>1 DEF Forward
      <3>3. k < Len(s) <=> k # Len(s)
        BY <3>1, <1>1
      <3> QED BY <2>3, <3>1, <3>2, <3>3
    <2>5. CASE ~(k - 1 < Len(s))
      <3>1. ~(k < Len(s))
        BY <2>5, <1>1
      <3> QED BY <2>2, <2>3, <2>5, <3>1
    <2> QED BY <2>4, <2>5
  <1> HIDE DEF F
  <1>5. F = Step(F)
    <2>1. F = [k \in 0 .. N |-> F[k]]
      BY DEF F
    <2>2. \A k \in 0 .. N : F[k] = IF k = 0 THEN h
                           ELSE IF F[k - 1] = NULL THEN NULL ELSE link[F[k - 1]]
      BY <1>3, <1>4
    <2> QED BY <2>1, <2>2, Zenon
  <1>6. at = Step(at)
    <2> HIDE DEF Step
    <2> QED BY <1>5
  <1> HIDE DEF at
  <1>7. \A k \in 0 .. N : at[k] = F[k]
    <2> DEFINE T == {k \in Nat : k \in 0 .. N => at[k] = F[k]}
    <2>1. 0 \in T
      <3>1. 0 \in 0 .. N
        BY <1>1
      <3>2. at[0] = h
        BY <3>1, <1>6
      <3> QED BY <3>2, <1>3
    <2>2. ASSUME NEW k \in T PROVE k + 1 \in T
      <3> SUFFICES ASSUME k + 1 \in 0 .. N PROVE at[k + 1] = F[k + 1]
        OBVIOUS
      <3>1. k \in 0 .. N /\ (k + 1) - 1 = k /\ k + 1 # 0
        BY <1>1
      <3>2. at[k] = F[k]
        BY <3>1
      <3>3. at[k + 1] = IF at[k] = NULL THEN NULL ELSE link[at[k]]
        BY <3>1, <1>6
      <3>4. F[k + 1] = IF F[k] = NULL THEN NULL ELSE link[F[k]]
        BY <3>1, <1>4
      <3> QED BY <3>2, <3>3, <3>4
    <2>3. T = Nat
      <3>1. T \subseteq Nat
        OBVIOUS
      <3> HIDE DEF T
      <3> QED BY <3>1, <2>1, <2>2, NatIsClosed
    <2>4. \A k \in 0 .. N : k \in T
      <3> HIDE DEF T
      <3> QED BY <2>3
    <2> QED BY <2>4
  <1> DEFINE S == {j \in 0 .. N : at[j] # NULL}
  <1>8. S = 0 .. Len(s) - 1
    <2>1. \A j \in 0 .. N : at[j] # NULL <=> j < Len(s)
      <3> SUFFICES ASSUME NEW j \in 0 .. N PROVE F[j] # NULL <=> j < Len(s)
        BY <1>7
      <3>1. j < Len(s) => j + 1 \in 1 .. Len(s)
        BY <1>1
      <3> QED BY <3>1, <1>1, <1>2
    <2> QED BY <2>1, <1>1
  <1>9. Cardinality(S) = Len(s)
    <2>1. Len(s) - 1 \in Int
      BY <1>1
    <2>2. Cardinality(0 .. Len(s) - 1) = IF 0 > Len(s) - 1 THEN 0 ELSE (Len(s) - 1) - 0 + 1
      BY <2>1, FS_Interval
    <2> HIDE DEF S
    <2> QED BY <1>1, <1>8, <2>2
  <1>10. [k \in 1 .. Cardinality(S) |-> at[k - 1]] = s
    <2> HIDE DEF S
    <2>1. ASSUME NEW k \in 1 .. Len(s) PROVE at[k - 1] = s[k]
      <3>1. k - 1 \in 0 .. N /\ k - 1 < Len(s) /\ (k - 1) + 1 = k
        BY <1>1
      <3>2. F[k - 1] = s[(k - 1) + 1]
        BY <3>1, <1>2
      <3> QED BY <3>1, <3>2, <1>7
    <2>2. s = [k \in 1 .. Len(s) |-> s[k]]
      OBVIOUS
    <2> QED BY <1>9, <2>1, <2>2, Zenon
  <1>11. Chain(h, link) = [k \in 1 .. Cardinality(S) |-> at[k - 1]]
    BY DEF Chain, S, at, N
  <1> QED BY <1>10, <1>11

LEMMA ReverseIs ==
  ASSUME NEW s \in Seq(Path), \A j, k \in 1 .. Len(s) : s[j] = s[k] => j = k
  PROVE  LET r == Reverse(s)
         IN  /\ r \in Seq(Path) /\ Len(r) = Len(s) /\ Reverse(r) = s
             /\ \A k \in 1 .. Len(s) : r[k] = s[(Len(s) - k) + 1]
             /\ \A j, k \in 1 .. Len(r) : r[j] = r[k] => j = k
  <1> DEFINE len == Len(s)
             r == [k \in 1 .. len |-> s[(len - k) + 1]]
             q == [k \in 1 .. len |-> r[(len - k) + 1]]
  <1>1. len \in Nat /\ \A k \in 1 .. len : s[k] \in Path /\ (len - k) + 1 \in 1 .. len
    OBVIOUS
  <1>2. r \in Seq(Path) /\ Len(r) = len
    BY <1>1
  <1>3. \A k \in 1 .. len : r[k] = s[(len - k) + 1]
    OBVIOUS
  <1>4. \A j, k \in 1 .. len : r[j] = r[k] => j = k
    BY <1>1, <1>3
  <1> HIDE DEF r
  <1>5. \A k \in 1 .. len : r[(len - k) + 1] = s[k]
    <2> SUFFICES ASSUME NEW k \in 1 .. len PROVE r[(len - k) + 1] = s[k]
      OBVIOUS
    <2>1. (len - k) + 1 \in 1 .. len /\ (len - ((len - k) + 1)) + 1 = k
      BY <1>1
    <2> QED BY <2>1, <1>3
  <1>6. q = s
    <2>1. s = [k \in 1 .. len |-> s[k]]
      OBVIOUS
    <2> QED BY <2>1, <1>5, Zenon
  <1>7. Reverse(s) = r
    BY DEF Reverse, r
  <1>8. Reverse(r) = q
    BY <1>2 DEF Reverse
  <1> HIDE DEF q
  <1> QED BY <1>2, <1>3, <1>4, <1>6, <1>7, <1>8

(* The pointers back lead through the reversed list.                        *)
LEMMA BackwardIsForward ==
  ASSUME NEW s \in Seq(Path), \A j, k \in 1 .. Len(s) : s[j] = s[k] => j = k,
         NEW t, NEW pv, Backward(s, t, pv)
  PROVE  Forward(Reverse(s), t, pv)
  <1> DEFINE len == Len(s)
             r == Reverse(s)
  <1>1. /\ r \in Seq(Path) /\ Len(r) = len /\ len \in Nat
        /\ \A k \in 1 .. len : r[k] = s[(len - k) + 1]
    BY ReverseIs
  <1> HIDE DEF r
  <1>2. t = IF r = << >> THEN NULL ELSE r[1]
    <2>1. r = << >> <=> s = << >>
      BY <1>1
    <2>2. CASE s = << >>
      BY <2>1, <2>2 DEF Backward
    <2>3. CASE s # << >>
      <3>1. 1 \in 1 .. len /\ (len - 1) + 1 = len
        BY <2>3, <1>1
      <3>2. r[1] = s[len]
        BY <3>1, <1>1
      <3> QED BY <2>1, <2>3, <3>2 DEF Backward
    <2> QED BY <2>2, <2>3
  <1>3. ASSUME NEW k \in 1 .. len PROVE pv[r[k]] = IF k = len THEN NULL ELSE r[k + 1]
    <2> DEFINE m == (len - k) + 1
    <2>1. m \in 1 .. len /\ (m = 1 <=> k = len) /\ r[k] = s[m]
      BY <1>1
    <2>2. pv[s[m]] = IF m = 1 THEN NULL ELSE s[m - 1]
      BY <2>1 DEF Backward
    <2>3. k # len => k + 1 \in 1 .. len /\ (len - (k + 1)) + 1 = m - 1
      BY <1>1
    <2>4. k # len => r[k + 1] = s[m - 1]
      BY <2>3, <1>1
    <2> HIDE DEF m
    <2> QED BY <2>1, <2>2, <2>4
  <1> QED BY <1>1, <1>2, <1>3 DEF Forward, r

(* The inductive invariant.  s are the nodes in the order of the list, and  *)
(* c is the place of tmp in it (behind the end if tmp is NULL).             *)
Linking == pc \in {"insert", "scan"}
Walking == Linking \/ pc \in {"opendir", "readdir"}

(* The walk: the stack is what Walk says of the nodes created, its top is   *)
(* opened before it is read, also when the node is still to be linked.      *)
StackInv ==
  /\ Walk(stack, opened, Created) /\ Root \in Created
  /\ Walking <=> stack # << >>
  /\ pc = "opendir" \/ (Linking /\ Inserted = "opendir") => Last(stack).dir \notin opened
  /\ pc = "readdir" \/ (Linking /\ Inserted = "readdir") => AllOpened(stack, opened)
  /\ Linking => node \in Created

(* Both chains of pointers lead through the nodes created, one way and the  *)
(* other, and the nodes go from depth to depth.                             *)
ListInv(s) ==
  /\ Listing(s) /\ ToSet(s) = IF Linking THEN Created \ {node} ELSE Created
  /\ Forward(s, head, next) /\ Backward(s, tail, prev)
  /\ \A p \in Created : level[p] = Depth[p]
  /\ Linking => next[node] = NULL /\ prev[node] = NULL

(* Where tmp is.                                                            *)
PlaceInv(s, c) ==
  /\ pc \in {"scan", "sort", "number"} => c \in 1 .. Len(s) /\ tmp = s[c]
  /\ pc \in {"print", "destroy"} =>
       c \in 1 .. Len(s) + 1 /\ tmp = IF c <= Len(s) THEN s[c] ELSE NULL
  /\ pc = "scan" => \A k \in 2 .. c : Depth[s[k]] < Depth[node]
  /\ pc = "read_next" => c \in 1 .. Len(s) /\ tmp = s[c] /\ old = s[c]
  /\ pc = "free" => /\ c \in 1 .. Len(s) /\ old = s[c]
                    /\ tmp = IF c + 1 <= Len(s) THEN s[c + 1] ELSE NULL

(* The paths that the nodes hold: each its own up to node_swap, which       *)
(* exchanges paths of one depth.                                            *)
Shown(s) == [k \in DOMAIN s |-> path[s[k]]]

PathInv(s) ==
  /\ Walking => \A p \in Path : path[p] = p
  /\ ~Walking => /\ Listing(Shown(s)) /\ ToSet(Shown(s)) = ToSet(s)
                 /\ \A k \in 1 .. Len(s) : Depth[Shown(s)[k]] = Depth[s[k]]

(* What a pass without an exchange has seen is in order.                    *)
OrderInv(s, c) ==
  /\ pc = "sort" /\ ~swap =>
       \A k \in 1 .. c - 1 :
         Depth[Shown(s)[k]] = Depth[Shown(s)[k + 1]] => ~(Rank[Shown(s)[k]] > Rank[Shown(s)[k + 1]])
  /\ pc \in {"number", "print"} => NeighboursInOrder(Shown(s))

(* sub_level has numbered the nodes up to tmp; the others have still the 1  *)
(* of create_node.                                                          *)
NumberInv(s, c) ==
  /\ Walking \/ pc = "sort" => n = 1 /\ \A p \in Path : i[p] = 1
  /\ pc = "number" =>
       /\ n = NumberAt(DepthsOf(s), c)
       /\ \A k \in 1 .. Len(s) : i[s[k]] = IF k <= c THEN NumberAt(DepthsOf(s), k) ELSE 1
  /\ pc = "print" => \A k \in 1 .. Len(s) : i[s[k]] = NumberAt(DepthsOf(s), k)

Destroying == {"destroy", "read_next", "free"}

(* print_list has printed the nodes in front of tmp, and in the end all.    *)
PrintInv(s, c) ==
  /\ Walking \/ pc \in {"sort", "number"} => output = << >>
  /\ pc = "print" => LinesOf(output, Shown(s)) /\ Len(output) = c - 1
  /\ pc \in Destroying => ToSet(Shown(s)) \subseteq PathsOf(output)

(* destroy_list has freed the nodes in front of the place it is at; each    *)
(* call of insert_sorted has left a node of its own.                        *)
LiveInv(s, c) ==
  /\ pc \notin Destroying \cup {"exited"} => live = Created
  /\ pc \in Destroying => live = {s[k] : k \in c .. Len(s)}
  /\ pc = "exited" => live = {}
  /\ spare = IF pc = "insert" THEN Created \ {node} ELSE Created

NodesInv(s, c) ==
  /\ StackInv /\ ListInv(s) /\ PlaceInv(s, c) /\ PathInv(s) /\ OrderInv(s, c)
  /\ NumberInv(s, c) /\ PrintInv(s, c) /\ LiveInv(s, c)

DirListInv == \E s, c : NodesInv(s, c)

(* What ListInv says of the nodes, one by one.                              *)
LEMMA NodeFacts ==
  ASSUME NEW s, ListInv(s)
  PROVE  /\ s \in Seq(Path) /\ Len(s) \in Nat /\ DOMAIN s = 1 .. Len(s) /\ Listing(s)
         /\ \A j, k \in 1 .. Len(s) : s[j] = s[k] => j = k
         /\ \A k \in 1 .. Len(s) :
              /\ s[k] \in Path /\ s[k] # NULL /\ s[k] \in Created
              /\ level[s[k]] = Depth[s[k]] /\ Depth[s[k]] \in Nat
              /\ next[s[k]] = IF k = Len(s) THEN NULL ELSE s[k + 1]
         /\ s # << >> => head = s[1]
  <1>1. s \in Seq(Path) /\ Len(s) \in Nat /\ DOMAIN s = 1 .. Len(s) /\ Listing(s)
    BY DEF ListInv, Listing
  <1>2. \A k \in 1 .. Len(s) : s[k] \in Path /\ s[k] # NULL /\ Depth[s[k]] \in Nat
    BY <1>1, NullAssumption, DepthType
  <1>3. \A k \in 1 .. Len(s) : s[k] \in ToSet(s)
    BY <1>1 DEF ToSet
  <1>4. ToSet(s) \subseteq Created
    BY DEF ListInv
  <1> QED BY <1>1, <1>2, <1>3, <1>4 DEF ListInv, Listing, Forward

(* Beyond the walk the list is not empty.                                   *)
LEMMA NotEmpty ==
  ASSUME NEW s, StackInv, ListInv(s), ~Walking
  PROVE  s # << >> /\ 1 \in 1 .. Len(s) /\ head = s[1]
  <1>1. ToSet(s) = Created /\ Root \in Created
    BY DEF ListInv, StackInv, Walking
  <1>2. s # << >>
    BY <1>1 DEF ToSet
  <1> QED BY <1>2, NodeFacts

LEMMA ShownFacts ==
  ASSUME NEW s \in Seq(Path), path \in [Path -> Path]
  PROVE  /\ Shown(s) \in Seq(Path) /\ Len(Shown(s)) = Len(s) /\ DOMAIN Shown(s) = 1 .. Len(s)
         /\ \A k \in 1 .. Len(s) : Shown(s)[k] = path[s[k]]
  <1>1. DOMAIN s = 1 .. Len(s) /\ Len(s) \in Nat /\ \A k \in 1 .. Len(s) : path[s[k]] \in Path
    OBVIOUS
  <1> QED BY <1>1 DEF Shown

BeyondWalk == {"sort", "number", "print", "exited", "crashed"} \cup Destroying

(* A step beyond the walk leaves nodes, depths and pointers as they are.    *)
LEMMA AfterKept ==
  ASSUME NEW s, StackInv, ListInv(s), UNCHANGED <<walk, links, level, node>>,
         pc \in BeyondWalk, pc' \in BeyondWalk
  PROVE  /\ StackInv' /\ ListInv(s)' /\ Created' = Created
         /\ ~Walking /\ ~Walking' /\ ~Linking /\ ~Linking'
  <1>1. ~Walking /\ ~Walking' /\ ~Linking /\ ~Linking'
    BY DEF BeyondWalk, Destroying, Walking, Linking
  <1>2. /\ stack' = stack /\ opened' = opened /\ next' = next /\ prev' = prev
        /\ head' = head /\ tail' = tail /\ level' = level
    BY DEF walk, links
  <1>3. Created' = Created
    BY <1>2 DEF Created
  <1>4. pc # "opendir" /\ pc # "readdir" /\ pc' # "opendir" /\ pc' # "readdir"
    BY DEF BeyondWalk, Destroying
  <1>5. StackInv'
    BY <1>1, <1>2, <1>3, <1>4 DEF StackInv
  <1>6. ListInv(s)'
    BY <1>1, <1>2, <1>3 DEF ListInv
  <1> QED BY <1>1, <1>3, <1>5, <1>6

LEMMA PathKept ==
  ASSUME NEW s, PathInv(s), ~Walking, ~Walking', path' = path
  PROVE  PathInv(s)' /\ Shown(s)' = Shown(s)
  <1>1. Shown(s)' = Shown(s)
    BY DEF Shown
  <1> QED BY <1>1 DEF PathInv

(* The pass of node_swap goes on without an exchange.                       *)
LEMMA KeepOrderKeeps ==
  ASSUME TypeOK, NEW s, NEW c, NodesInv(s, c), KeepOrder
  PROVE  TypeOK' /\ NodesInv(s, c + 1)'
  <1>0. /\ StackInv /\ ListInv(s) /\ PlaceInv(s, c) /\ PathInv(s) /\ OrderInv(s, c)
        /\ NumberInv(s, c) /\ PrintInv(s, c) /\ LiveInv(s, c)
    BY DEF NodesInv
  <1>1. /\ pc = "sort" /\ pc' = "sort" /\ next[tmp] # NULL /\ ~Unordered /\ tmp' = next[tmp]
        /\ UNCHANGED <<walk, node, old, links, data, swap, n, output, live, spare>>
    BY DEF KeepOrder, KeepOrderTo, At
  <1>2. c \in 1 .. Len(s) /\ tmp = s[c] /\ s \in Seq(Path) /\ Len(s) \in Nat
    BY <1>0, <1>1, NodeFacts DEF PlaceInv
  <1>3. c # Len(s) /\ next[tmp] = s[c + 1] /\ c + 1 \in 1 .. Len(s)
    BY <1>0, <1>1, <1>2, NodeFacts
  <1>4. /\ StackInv' /\ ListInv(s)' /\ Created' = Created /\ ~Walking /\ ~Walking'
    BY <1>0, <1>1, AfterKept DEF BeyondWalk, Destroying, data
  <1>5. PathInv(s)' /\ Shown(s)' = Shown(s)
    BY <1>0, <1>1, <1>4, PathKept DEF data
  <1>6. PlaceInv(s, c + 1)'
    BY <1>1, <1>2, <1>3 DEF PlaceInv
  <1>7. OrderInv(s, c + 1)'
    <2> SUFFICES ASSUME ~swap, NEW k \in 1 .. (c + 1) - 1,
                        Depth[Shown(s)[k]] = Depth[Shown(s)[k + 1]]
                 PROVE  ~(Rank[Shown(s)[k]] > Rank[Shown(s)[k + 1]])
      BY <1>1, <1>5 DEF OrderInv
    <2>1. k \in 1 .. c - 1 \/ k = c
      BY <1>2
    <2>2. CASE k \in 1 .. c - 1
      BY <1>0, <1>1, <2>2 DEF OrderInv
    <2>3. CASE k = c
      <3>1. Shown(s)[c] = path[tmp] /\ Shown(s)[c + 1] = path[next[tmp]]
        BY <1>2, <1>3, ShownFacts DEF TypeOK
      <3>2. Depth[s[c]] = Depth[s[c + 1]]
        BY <2>3, <1>0, <1>2, <1>3, <1>4 DEF PathInv
      <3>3. level[tmp] = level[next[tmp]]
        BY <3>2, <1>0, <1>2, <1>3, NodeFacts
      <3> QED BY <2>3, <3>1, <3>3, <1>1 DEF Unordered
    <2> QED BY <2>1, <2>2, <2>3
  <1>8. NumberInv(s, c + 1)' /\ PrintInv(s, c + 1)' /\ LiveInv(s, c + 1)'
    BY <1>0, <1>1, <1>4, <1>5 DEF NumberInv, PrintInv, LiveInv, data, Destroying
  <1>9. TypeOK'
    <2>1. live = Created /\ s[c + 1] \in Created /\ s[c + 1] \in Path
      BY <1>0, <1>1, <1>3, NodeFacts DEF LiveInv, Destroying
    <2> QED BY <1>1, <1>3, <2>1 DEF TypeOK, walk, links, data, Pointer
  <1> QED BY <1>4, <1>5, <1>6, <1>7, <1>8, <1>9 DEF NodesInv

(* node_swap exchanges the paths of two neighbours of one depth.            *)
LEMMA SwapPathsKeeps ==
  ASSUME TypeOK, NEW s, NEW c, NodesInv(s, c), SwapPaths
  PROVE  TypeOK' /\ NodesInv(s, c + 1)'
  <1>0. /\ StackInv /\ ListInv(s) /\ PlaceInv(s, c) /\ PathInv(s) /\ OrderInv(s, c)
        /\ NumberInv(s, c) /\ PrintInv(s, c) /\ LiveInv(s, c)
    BY DEF NodesInv
  <1>1. /\ pc = "sort" /\ pc' = "sort" /\ next[tmp] # NULL /\ Unordered /\ tmp' = next[tmp]
        /\ path' = [path EXCEPT ![tmp] = path[next[tmp]], ![next[tmp]] = path[tmp]]
        /\ swap' = TRUE
        /\ UNCHANGED <<walk, node, old, links, level, i, n, output, live, spare>>
    BY DEF SwapPaths, At
  <1>2. c \in 1 .. Len(s) /\ tmp = s[c] /\ s \in Seq(Path) /\ Len(s) \in Nat /\ DOMAIN s = 1 .. Len(s)
    BY <1>0, <1>1, NodeFacts DEF PlaceInv
  <1>3. /\ c # Len(s) /\ next[tmp] = s[c + 1] /\ c + 1 \in 1 .. Len(s) /\ c \in 1 .. Len(s) - 1
        /\ s[c] \in Path /\ s[c + 1] \in Path /\ s[c] # s[c + 1]
    BY <1>0, <1>1, <1>2, NodeFacts
  <1>4. /\ StackInv' /\ ListInv(s)' /\ Created' = Created /\ ~Walking /\ ~Walking'
    BY <1>0, <1>1, AfterKept DEF BeyondWalk, Destroying
  <1>5. PlaceInv(s, c + 1)'
    BY <1>1, <1>2, <1>3 DEF PlaceInv
  <1>6. /\ path' \in [Path -> Path]
        /\ \A k \in 1 .. Len(s) :
             path'[s[k]] = IF k = c THEN path[s[c + 1]] ELSE IF k = c + 1 THEN path[s[c]] ELSE path[s[k]]
    <2>1. path \in [Path -> Path] /\ path' = [path EXCEPT ![s[c]] = path[s[c + 1]], ![s[c + 1]] = path[s[c]]]
      BY <1>1, <1>2, <1>3 DEF TypeOK
    <2>2. path' \in [Path -> Path]
      BY <2>1, <1>3
    <2>3. \A p \in Path : path'[p] = IF p = s[c] THEN path[s[c + 1]] ELSE IF p = s[c + 1] THEN path[s[c]] ELSE path[p]
      BY <2>1, <1>3
    <2>4. \A k \in 1 .. Len(s) : s[k] \in Path /\ (s[k] = s[c] <=> k = c) /\ (s[k] = s[c + 1] <=> k = c + 1)
      <3>1. /\ \A j, k \in 1 .. Len(s) : s[j] = s[k] => j = k
            /\ \A k \in 1 .. Len(s) : s[k] \in Path
        BY <1>0, NodeFacts
      <3> QED BY <3>1, <1>2, <1>3
    <2> QED BY <2>2, <2>3, <2>4
  <1> DEFINE w == Shown(s)
             t == [w EXCEPT ![c] = w[c + 1], ![c + 1] = w[c]]
  <1>7. /\ w \in Seq(Path) /\ Len(w) = Len(s) /\ DOMAIN w = 1 .. Len(s)
        /\ \A k \in 1 .. Len(s) : w[k] = path[s[k]]
    BY <1>2, ShownFacts DEF TypeOK
  <1>8. Shown(s)' = t
    <2>1. Shown(s)' = [k \in 1 .. Len(s) |-> path'[s[k]]]
      BY <1>2 DEF Shown
    <2> HIDE DEF w
    <2>2. DOMAIN t = 1 .. Len(s)
      BY <1>7
    <2>3. \A k \in 1 .. Len(s) : t[k] = IF k = c THEN w[c + 1] ELSE IF k = c + 1 THEN w[c] ELSE w[k]
      BY <1>3, <1>7
    <2>4. t = [k \in 1 .. Len(s) |-> t[k]]
      BY <2>2
    <2>5. \A k \in 1 .. Len(s) : path'[s[k]] = t[k]
      BY <2>3, <1>2, <1>3, <1>6, <1>7
    <2> HIDE DEF t
    <2> QED BY <2>1, <2>4, <2>5, Zenon
  <1>9. PathInv(s)'
    <2>1. Listing(w) /\ ToSet(w) = ToSet(s) /\ \A k \in 1 .. Len(s) : Depth[w[k]] = Depth[s[k]]
      BY <1>0, <1>4 DEF PathInv
    <2>2. Depth[s[c]] = Depth[s[c + 1]]
      BY <1>0, <1>1, <1>2, <1>3, NodeFacts DEF Unordered
    <2> HIDE DEF w
    <2>3. Depth[w[c]] = Depth[w[c + 1]] /\ c \in 1 .. Len(w) - 1
      BY <2>1, <2>2, <1>3, <1>7
    <2>4. Listing(t) /\ ToSet(t) = ToSet(w)
      BY <2>1, <2>3, ListingSwap
    <2>5. \A k \in 1 .. Len(s) : t[k] = IF k = c THEN w[c + 1] ELSE IF k = c + 1 THEN w[c] ELSE w[k]
      BY <1>3, <1>7
    <2> HIDE DEF t
    <2>6. \A k \in 1 .. Len(s) : Depth[t[k]] = Depth[s[k]]
      BY <2>1, <2>2, <2>5, <1>3
    <2> QED BY <1>4, <1>8, <2>1, <2>4, <2>6 DEF PathInv
  <1>10. OrderInv(s, c + 1)'
    BY <1>1 DEF OrderInv
  <1>11. NumberInv(s, c + 1)' /\ PrintInv(s, c + 1)' /\ LiveInv(s, c + 1)'
    BY <1>0, <1>1, <1>4 DEF NumberInv, PrintInv, LiveInv, Destroying
  <1>12. TypeOK'
    <2>1. live = Created /\ s[c + 1] \in Created
      BY <1>0, <1>1, <1>3, NodeFacts DEF LiveInv, Destroying
    <2>2. swap' \in BOOLEAN
      BY <1>1, Zenon
    <2> QED BY <1>1, <1>3, <1>6, <2>1, <2>2 DEF TypeOK, walk, links, Pointer
  <1> QED BY <1>4, <1>5, <1>9, <1>10, <1>11, <1>12 DEF NodesInv

(* The end of a pass.                                                       *)
LEMMA PassAgainKeeps ==
  ASSUME TypeOK, NEW s, NEW c, NodesInv(s, c), PassAgain
  PROVE  TypeOK' /\ NodesInv(s, 1)'
  <1>0. /\ StackInv /\ ListInv(s) /\ PlaceInv(s, c) /\ PathInv(s) /\ OrderInv(s, c)
        /\ NumberInv(s, c) /\ PrintInv(s, c) /\ LiveInv(s, c)
    BY DEF NodesInv
  <1>1. /\ pc = "sort" /\ pc' = "sort" /\ tmp' = head /\ swap' = FALSE
        /\ UNCHANGED <<walk, node, old, links, data, n, output, live, spare>>
    BY DEF PassAgain, PassWith, At
  <1>2. /\ StackInv' /\ ListInv(s)' /\ Created' = Created /\ ~Walking /\ ~Walking'
    BY <1>0, <1>1, AfterKept DEF BeyondWalk, Destroying, data
  <1>3. PathInv(s)' /\ Shown(s)' = Shown(s)
    BY <1>0, <1>1, <1>2, PathKept DEF data
  <1>4. 1 \in 1 .. Len(s) /\ head = s[1] /\ s[1] \in Created /\ s[1] \in Path
    BY <1>0, <1>2, NotEmpty, NodeFacts
  <1>5. PlaceInv(s, 1)'
    BY <1>1, <1>4 DEF PlaceInv
  <1>6. OrderInv(s, 1)'
    BY <1>1 DEF OrderInv
  <1>7. NumberInv(s, 1)' /\ PrintInv(s, 1)' /\ LiveInv(s, 1)'
    BY <1>0, <1>1, <1>2, <1>3 DEF NumberInv, PrintInv, LiveInv, data, Destroying
  <1>8. TypeOK'
    <2>1. live = Created
      BY <1>0, <1>1 DEF LiveInv, Destroying
    <2>2. swap' \in BOOLEAN
      BY <1>1, Zenon
    <2> QED BY <1>1, <1>4, <2>1, <2>2 DEF TypeOK, walk, links, data, Pointer
  <1> QED BY <1>2, <1>3, <1>5, <1>6, <1>7, <1>8 DEF NodesInv

LEMMA SortEndsKeeps ==
  ASSUME TypeOK, NEW s, NEW c, NodesInv(s, c), SortEnds
  PROVE  TypeOK' /\ NodesInv(s, 1)'
  <1>0. /\ StackInv /\ ListInv(s) /\ PlaceInv(s, c) /\ PathInv(s) /\ OrderInv(s, c)
        /\ NumberInv(s, c) /\ PrintInv(s, c) /\ LiveInv(s, c)
    BY DEF NodesInv
  <1>1. /\ pc = "sort" /\ pc' = "number" /\ tmp' = head /\ next[tmp] = NULL /\ ~swap
        /\ UNCHANGED <<walk, node, old, links, data, swap, n, output, live, spare>>
    BY DEF SortEnds, At
  <1>2. /\ StackInv' /\ ListInv(s)' /\ Created' = Created /\ ~Walking /\ ~Walking'
    BY <1>0, <1>1, AfterKept DEF BeyondWalk, Destroying, data
  <1>3. PathInv(s)' /\ Shown(s)' = Shown(s)
    BY <1>0, <1>1, <1>2, PathKept DEF data
  <1>4. 1 \in 1 .. Len(s) /\ head = s[1] /\ s[1] \in Created /\ s[1] \in Path /\ s # << >>
    BY <1>0, <1>2, NotEmpty, NodeFacts
  <1>5. PlaceInv(s, 1)'
    BY <1>1, <1>4 DEF PlaceInv
  <1>6. OrderInv(s, 1)'
    <2>1. c \in 1 .. Len(s) /\ tmp = s[c]
      BY <1>0, <1>1 DEF PlaceInv
    <2>2. \A k \in 1 .. Len(s) : /\ s[k] # NULL
                                 /\ next[s[k]] = IF k = Len(s) THEN NULL ELSE s[k + 1]
      BY <1>0, NodeFacts
    <2>3. c = Len(s)
      <3> SUFFICES ASSUME c # Len(s) PROVE FALSE
        OBVIOUS
      <3>1. c + 1 \in 1 .. Len(s)
        BY <2>1
      <3> QED BY <1>1, <2>1, <2>2, <3>1
    <2>4. Len(Shown(s)) = Len(s)
      BY <1>0, NodeFacts, ShownFacts DEF TypeOK
    <2>5. NeighboursInOrder(Shown(s))
      BY <1>0, <1>1, <2>3, <2>4 DEF OrderInv, NeighboursInOrder
    <2> QED BY <1>1, <1>3, <2>5 DEF OrderInv
  <1>7. NumberInv(s, 1)'
    <2>1. n = 1 /\ \A p \in Path : i[p] = 1
      BY <1>0, <1>1 DEF NumberInv
    <2>2. NumberAt(DepthsOf(s), 1) = 1
      BY <1>0, <1>4, NumberFirst, NodeFacts
    <2>3. \A k \in 1 .. Len(s) : s[k] \in Path
      BY <1>0, NodeFacts
    <2>4. \A k \in 1 .. Len(s) : i[s[k]] = IF k <= 1 THEN NumberAt(DepthsOf(s), k) ELSE 1
      BY <2>1, <2>2, <2>3
    <2> QED BY <1>1, <1>2, <2>1, <2>2, <2>4 DEF NumberInv, data
  <1>8. PrintInv(s, 1)' /\ LiveInv(s, 1)'
    BY <1>0, <1>1, <1>2, <1>3 DEF PrintInv, LiveInv, Destroying
  <1>9. TypeOK'
    <2>1. live = Created
      BY <1>0, <1>1 DEF LiveInv, Destroying
    <2> QED BY <1>1, <1>4, <2>1 DEF TypeOK, walk, links, data, Pointer
  <1> QED BY <1>2, <1>3, <1>5, <1>6, <1>7, <1>8, <1>9 DEF NodesInv

(* sub_level numbers the next node.                                         *)
LEMMA SubLevelKeeps ==
  ASSUME TypeOK, NEW s, NEW c, NodesInv(s, c), sub_level
  PROVE  TypeOK' /\ NodesInv(s, c + 1)'
  <1>0. /\ StackInv /\ ListInv(s) /\ PlaceInv(s, c) /\ PathInv(s) /\ OrderInv(s, c)
        /\ NumberInv(s, c) /\ PrintInv(s, c) /\ LiveInv(s, c)
    BY DEF NodesInv
  <1>1. /\ pc = "number" /\ pc' = "number" /\ next[tmp] # NULL /\ tmp' = next[tmp]
        /\ n' = IF level[next[tmp]] = level[tmp] THEN n + 1 ELSE 1
        /\ i' = IF level[next[tmp]] = level[tmp] THEN [i EXCEPT ![next[tmp]] = n'] ELSE i
        /\ UNCHANGED <<walk, node, old, links, path, level, swap, output, live, spare>>
    BY DEF sub_level, NumberWith, At
  <1>2. c \in 1 .. Len(s) /\ tmp = s[c] /\ s \in Seq(Path) /\ Len(s) \in Nat
    BY <1>0, <1>1, NodeFacts DEF PlaceInv
  <1>3. /\ c # Len(s) /\ next[tmp] = s[c + 1] /\ c + 1 \in 1 .. Len(s) /\ c \in 1 .. Len(s) - 1
        /\ s[c + 1] \in Path
    BY <1>0, <1>1, <1>2, NodeFacts
  <1>4. level[next[tmp]] = Depth[s[c + 1]] /\ level[tmp] = Depth[s[c]]
    BY <1>0, <1>2, <1>3, NodeFacts
  <1>5. /\ StackInv' /\ ListInv(s)' /\ Created' = Created /\ ~Walking /\ ~Walking'
    BY <1>0, <1>1, AfterKept DEF BeyondWalk, Destroying
  <1>6. PathInv(s)' /\ Shown(s)' = Shown(s)
    BY <1>0, <1>1, <1>5, PathKept
  <1>7. PlaceInv(s, c + 1)' /\ OrderInv(s, c + 1)'
    BY <1>0, <1>1, <1>2, <1>3, <1>6 DEF PlaceInv, OrderInv
  <1>8. /\ n = NumberAt(DepthsOf(s), c) /\ n \in Nat
        /\ \A k \in 1 .. Len(s) : i[s[k]] = IF k <= c THEN NumberAt(DepthsOf(s), k) ELSE 1
    BY <1>0, <1>1 DEF NumberInv, TypeOK
  <1>9. n' = NumberAt(DepthsOf(s), c + 1) /\ n' \in Nat
    <2>1. NumberAt(DepthsOf(s), c + 1) =
           IF Depth[s[c + 1]] = Depth[s[c]] THEN NumberAt(DepthsOf(s), c) + 1 ELSE 1
      BY <1>0, <1>3, NumberNext DEF ListInv
    <2> QED BY <1>1, <1>4, <1>8, <2>1
  <1>10. /\ i' \in [Path -> Nat]
         /\ \A p \in Path : p # s[c + 1] => i'[p] = i[p]
         /\ i'[s[c + 1]] = n'
    <2>1. i \in [Path -> Nat]
      BY DEF TypeOK
    <2>2. CASE level[next[tmp]] = level[tmp]
      <3>1. i' = [i EXCEPT ![s[c + 1]] = n']
        BY <1>1, <1>3, <2>2
      <3> QED BY <3>1, <2>1, <1>3, <1>9
    <2>3. CASE level[next[tmp]] # level[tmp]
      <3>1. i' = i /\ n' = 1
        BY <1>1, <2>3
      <3>2. ~(c + 1 <= c)
        BY <1>2
      <3>3. i[s[c + 1]] = 1
        BY <1>3, <1>8, <3>2
      <3> QED BY <3>1, <3>3, <2>1
    <2> QED BY <2>2, <2>3
  <1>11. ASSUME NEW k \in 1 .. Len(s)
         PROVE  i'[s[k]] = IF k <= c + 1 THEN NumberAt(DepthsOf(s), k) ELSE 1
    <2>1. CASE k = c + 1
      BY <2>1, <1>2, <1>9, <1>10
    <2>2. CASE k # c + 1
      <3>1. /\ \A j, m \in 1 .. Len(s) : s[j] = s[m] => j = m
            /\ \A m \in 1 .. Len(s) : s[m] \in Path
        BY <1>0, NodeFacts
      <3>2. s[k] # s[c + 1] /\ s[k] \in Path
        BY <2>2, <3>1, <1>3
      <3>3. i'[s[k]] = i[s[k]]
        BY <3>2, <1>10
      <3>4. k <= c + 1 <=> k <= c
        BY <2>2, <1>2
      <3> QED BY <3>3, <3>4, <1>8
    <2> QED BY <2>1, <2>2
  <1>12. NumberInv(s, c + 1)'
    BY <1>1, <1>5, <1>9, <1>11 DEF NumberInv
  <1>13. PrintInv(s, c + 1)' /\ LiveInv(s, c + 1)'
    BY <1>0, <1>1, <1>5, <1>6 DEF PrintInv, LiveInv, Destroying
  <1>14. TypeOK'
    <2>1. live = Created /\ s[c + 1] \in Created
      BY <1>0, <1>1, <1>3, NodeFacts DEF LiveInv, Destroying
    <2> QED BY <1>1, <1>3, <1>9, <1>10, <2>1 DEF TypeOK, walk, links, Pointer
  <1> QED BY <1>5, <1>6, <1>7, <1>12, <1>13, <1>14 DEF NodesInv

LEMMA NumberEndsKeeps ==
  ASSUME TypeOK, NEW s, NEW c, NodesInv(s, c), NumberEnds
  PROVE  TypeOK' /\ NodesInv(s, 1)'
  <1>0. /\ StackInv /\ ListInv(s) /\ PlaceInv(s, c) /\ PathInv(s) /\ OrderInv(s, c)
        /\ NumberInv(s, c) /\ PrintInv(s, c) /\ LiveInv(s, c)
    BY DEF NodesInv
  <1>1. /\ pc = "number" /\ pc' = "print" /\ tmp' = head /\ next[tmp] = NULL
        /\ UNCHANGED <<walk, node, old, links, data, swap, n, output, live, spare>>
    BY DEF NumberEnds, At
  <1>2. /\ StackInv' /\ ListInv(s)' /\ Created' = Created /\ ~Walking /\ ~Walking'
    BY <1>0, <1>1, AfterKept DEF BeyondWalk, Destroying, data
  <1>3. PathInv(s)' /\ Shown(s)' = Shown(s)
    BY <1>0, <1>1, <1>2, PathKept DEF data
  <1>4. 1 \in 1 .. Len(s) /\ head = s[1] /\ s[1] \in Created /\ s[1] \in Path /\ Len(s) \in Nat
    BY <1>0, <1>2, NotEmpty, NodeFacts
  <1>5. PlaceInv(s, 1)' /\ OrderInv(s, 1)'
    BY <1>0, <1>1, <1>3, <1>4 DEF PlaceInv, OrderInv
  <1>6. NumberInv(s, 1)'
    <2>1. c \in 1 .. Len(s) /\ tmp = s[c]
      BY <1>0, <1>1 DEF PlaceInv
    <2>2. \A k \in 1 .. Len(s) : /\ s[k] # NULL
                                 /\ next[s[k]] = IF k = Len(s) THEN NULL ELSE s[k + 1]
      BY <1>0, NodeFacts
    <2>3. c = Len(s)
      <3> SUFFICES ASSUME c # Len(s) PROVE FALSE
        OBVIOUS
      <3>1. c + 1 \in 1 .. Len(s)
        BY <2>1, <1>4
      <3> QED BY <1>1, <2>1, <2>2, <3>1
    <2>4. \A k \in 1 .. Len(s) : i[s[k]] = NumberAt(DepthsOf(s), k)
      BY <1>0, <1>1, <2>3 DEF NumberInv
    <2> QED BY <1>1, <1>2, <2>4 DEF NumberInv, data
  <1>7. PrintInv(s, 1)'
    <2>1. output = << >> /\ Len(output) = 0 /\ output \in Seq(Line)
      BY <1>0, <1>1 DEF PrintInv, Destroying
    <2>2. Len(Shown(s)) = Len(s)
      BY <1>0, NodeFacts, ShownFacts DEF TypeOK
    <2>3. LinesOf(output, Shown(s))
      BY <1>4, <2>1, <2>2 DEF LinesOf
    <2> QED BY <1>1, <1>2, <1>3, <2>1, <2>3 DEF PrintInv, Destroying
  <1>8. LiveInv(s, 1)'
    BY <1>0, <1>1, <1>2 DEF LiveInv, Destroying
  <1>9. TypeOK'
    BY <1>1, <1>4 DEF TypeOK, walk, links, data, Pointer
  <1> QED BY <1>2, <1>3, <1>5, <1>6, <1>7, <1>8, <1>9 DEF NodesInv

(* Where the loops of print_list and destroy_list go on.                    *)
LEMMA NextPlace ==
  ASSUME NEW s, NEW c, ListInv(s), PlaceInv(s, c), pc \in {"print", "destroy"}, tmp # NULL
  PROVE  /\ c \in 1 .. Len(s) /\ tmp = s[c] /\ tmp \in Path /\ Len(s) \in Nat
         /\ c + 1 \in 1 .. Len(s) + 1
         /\ next[tmp] = IF c + 1 <= Len(s) THEN s[c + 1] ELSE NULL
  <1>1. c \in 1 .. Len(s) + 1 /\ tmp = IF c <= Len(s) THEN s[c] ELSE NULL
    BY DEF PlaceInv
  <1>2. Len(s) \in Nat
    BY NodeFacts
  <1>3. c \in 1 .. Len(s) /\ tmp = s[c]
    BY <1>1, <1>2
  <1>4. tmp \in Path /\ next[tmp] = IF c = Len(s) THEN NULL ELSE s[c + 1]
    BY <1>3, NodeFacts
  <1>5. c = Len(s) <=> ~(c + 1 <= Len(s))
    BY <1>2, <1>3
  <1> QED BY <1>2, <1>3, <1>4, <1>5

LEMMA EndPlace ==
  ASSUME NEW s, NEW c, ListInv(s), PlaceInv(s, c), pc \in {"print", "destroy"}, tmp = NULL
  PROVE  c = Len(s) + 1 /\ Len(s) \in Nat
  <1>1. c \in 1 .. Len(s) + 1 /\ tmp = IF c <= Len(s) THEN s[c] ELSE NULL
    BY DEF PlaceInv
  <1>2. Len(s) \in Nat /\ \A k \in 1 .. Len(s) : s[k] # NULL
    BY NodeFacts
  <1> QED BY <1>1, <1>2

LEMMA PrintNodeKeeps ==
  ASSUME TypeOK, NEW s, NEW c, NodesInv(s, c), PrintNode
  PROVE  TypeOK' /\ NodesInv(s, c + 1)'
  <1>0. /\ StackInv /\ ListInv(s) /\ PlaceInv(s, c) /\ PathInv(s) /\ OrderInv(s, c)
        /\ NumberInv(s, c) /\ PrintInv(s, c) /\ LiveInv(s, c)
    BY DEF NodesInv
  <1> DEFINE r == [path |-> path[tmp], level |-> level[tmp], i |-> i[tmp]]
  <1>1. /\ pc = "print" /\ pc' = "print" /\ tmp # NULL /\ tmp' = next[tmp]
        /\ output' = Append(output, r)
        /\ UNCHANGED <<walk, node, old, links, data, swap, n, live, spare>>
    BY DEF PrintNode, At
  <1>2. /\ StackInv' /\ ListInv(s)' /\ Created' = Created /\ ~Walking /\ ~Walking'
    BY <1>0, <1>1, AfterKept DEF BeyondWalk, Destroying, data
  <1>3. PathInv(s)' /\ Shown(s)' = Shown(s)
    BY <1>0, <1>1, <1>2, PathKept DEF data
  <1>4. /\ c \in 1 .. Len(s) /\ tmp = s[c] /\ tmp \in Path /\ Len(s) \in Nat
        /\ c + 1 \in 1 .. Len(s) + 1
        /\ next[tmp] = IF c + 1 <= Len(s) THEN s[c + 1] ELSE NULL
    BY <1>0, <1>1, NextPlace
  <1>5. PlaceInv(s, c + 1)' /\ OrderInv(s, c + 1)'
    BY <1>0, <1>1, <1>3, <1>4 DEF PlaceInv, OrderInv
  <1>6. NumberInv(s, c + 1)' /\ LiveInv(s, c + 1)'
    BY <1>0, <1>1, <1>2 DEF NumberInv, LiveInv, data, Destroying
  <1>7. r \in Line /\ r.path = path[tmp] /\ r.level = level[tmp]
    BY <1>4 DEF TypeOK, Line
  <1>8. r.path = Shown(s)[c] /\ r.level = Depth[Shown(s)[c]]
    <2>1. Shown(s)[c] = path[s[c]]
      <3>1. s \in Seq(Path) /\ path \in [Path -> Path]
        BY <1>0, NodeFacts DEF TypeOK
      <3> QED BY <1>4, <3>1, ShownFacts
    <2>2. level[s[c]] = Depth[s[c]]
      BY <1>0, <1>4, NodeFacts
    <2>3. Depth[Shown(s)[c]] = Depth[s[c]]
      BY <1>0, <1>2, <1>4 DEF PathInv
    <2> QED BY <1>4, <1>7, <2>1, <2>2, <2>3
  <1> HIDE DEF r
  <1>9. /\ output \in Seq(Line) /\ Len(output) = c - 1
        /\ \A k \in 1 .. Len(output) : output[k].path = Shown(s)[k] /\ output[k].level = Depth[Shown(s)[k]]
    BY <1>0, <1>1 DEF PrintInv, LinesOf, Destroying
  <1>10. /\ output' \in Seq(Line) /\ Len(output') = c /\ output'[c] = r
         /\ \A k \in 1 .. c - 1 : output'[k] = output[k]
    BY <1>1, <1>4, <1>7, <1>9
  <1>11. PrintInv(s, c + 1)'
    <2>1. Len(Shown(s)) = Len(s)
      BY <1>0, NodeFacts, ShownFacts DEF TypeOK
    <2>2. \A k \in 1 .. c : /\ output'[k].path = Shown(s)[k]
                            /\ output'[k].level = Depth[Shown(s)[k]]
      <3> SUFFICES ASSUME NEW k \in 1 .. c
                   PROVE  /\ output'[k].path = Shown(s)[k]
                          /\ output'[k].level = Depth[Shown(s)[k]]
        OBVIOUS
      <3>1. k = c \/ k \in 1 .. c - 1
        BY <1>4
      <3> QED BY <3>1, <1>8, <1>9, <1>10
    <2>3. LinesOf(output', Shown(s))
      BY <1>4, <1>10, <2>1, <2>2 DEF LinesOf
    <2>4. Len(output') = (c + 1) - 1
      BY <1>4, <1>10
    <2> QED BY <1>1, <1>2, <1>3, <2>3, <2>4 DEF PrintInv, Destroying
  <1>12. TypeOK'
    <2>1. tmp' \in Pointer
      BY <1>1, <1>4 DEF TypeOK
    <2> QED BY <1>1, <1>10, <2>1 DEF TypeOK, walk, links, data, Line
  <1> QED BY <1>2, <1>3, <1>5, <1>6, <1>11, <1>12 DEF NodesInv

LEMMA PrintFaultsKeeps ==
  ASSUME TypeOK, NEW s, NEW c, NodesInv(s, c), PrintFaults
  PROVE  TypeOK' /\ NodesInv(s, c)'
  <1>0. /\ StackInv /\ ListInv(s) /\ PlaceInv(s, c) /\ PathInv(s) /\ OrderInv(s, c)
        /\ NumberInv(s, c) /\ PrintInv(s, c) /\ LiveInv(s, c)
    BY DEF NodesInv
  <1>1. /\ pc = "print" /\ pc' = "crashed" /\ tmp' = tmp
        /\ UNCHANGED <<walk, node, old, links, data, swap, n, output, live, spare>>
    BY DEF PrintFaults, At
  <1>2. /\ StackInv' /\ ListInv(s)' /\ Created' = Created /\ ~Walking /\ ~Walking'
    BY <1>0, <1>1, AfterKept DEF BeyondWalk, Destroying, data
  <1>3. PathInv(s)' /\ Shown(s)' = Shown(s)
    BY <1>0, <1>1, <1>2, PathKept DEF data
  <1>4. PlaceInv(s, c)' /\ OrderInv(s, c)' /\ NumberInv(s, c)' /\ PrintInv(s, c)' /\ LiveInv(s, c)'
    BY <1>0, <1>1, <1>2 DEF PlaceInv, OrderInv, NumberInv, PrintInv, LiveInv, Destroying
  <1>5. TypeOK'
    BY <1>1 DEF TypeOK, walk, links, data
  <1> QED BY <1>2, <1>3, <1>4, <1>5 DEF NodesInv

LEMMA PrintEndsKeeps ==
  ASSUME TypeOK, NEW s, NEW c, NodesInv(s, c), PrintEnds
  PROVE  TypeOK' /\ NodesInv(s, 1)'
  <1>0. /\ StackInv /\ ListInv(s) /\ PlaceInv(s, c) /\ PathInv(s) /\ OrderInv(s, c)
        /\ NumberInv(s, c) /\ PrintInv(s, c) /\ LiveInv(s, c)
    BY DEF NodesInv
  <1>1. /\ pc = "print" /\ pc' = "destroy" /\ tmp = NULL /\ tmp' = head
        /\ UNCHANGED <<walk, node, old, links, data, swap, n, output, live, spare>>
    BY DEF PrintEnds, At
  <1>2. /\ StackInv' /\ ListInv(s)' /\ Created' = Created /\ ~Walking /\ ~Walking' /\ ~Linking
    BY <1>0, <1>1, AfterKept DEF BeyondWalk, Destroying, data
  <1>3. PathInv(s)' /\ Shown(s)' = Shown(s)
    BY <1>0, <1>1, <1>2, PathKept DEF data
  <1>4. 1 \in 1 .. Len(s) /\ head = s[1] /\ s[1] \in Path /\ Len(s) \in Nat /\ DOMAIN s = 1 .. Len(s)
    BY <1>0, <1>2, NotEmpty, NodeFacts
  <1>5. PlaceInv(s, 1)' /\ OrderInv(s, 1)' /\ NumberInv(s, 1)'
    BY <1>1, <1>2, <1>4 DEF PlaceInv, OrderInv, NumberInv
  <1>6. PrintInv(s, 1)'
    <2> DEFINE w == Shown(s)
    <2>1. c = Len(s) + 1
      BY <1>0, <1>1, EndPlace
    <2>2. LinesOf(output, w) /\ Len(output) = c - 1 /\ Listing(w)
      BY <1>0, <1>1, <1>2 DEF PrintInv, PathInv, Destroying
    <2>3. Len(w) = Len(s)
      BY <1>0, NodeFacts, ShownFacts DEF TypeOK
    <2>4. Len(output) >= Len(w)
      BY <1>4, <2>1, <2>2, <2>3
    <2> HIDE DEF w
    <2>5. ToSet(w) \ PathsOf(output) = {}
      BY <2>2, <2>4, LastLine
    <2>6. ToSet(w) \subseteq PathsOf(output)
      BY <2>5
    <2> QED BY <1>1, <1>2, <1>3, <2>6 DEF PrintInv, w, Destroying
  <1>7. LiveInv(s, 1)'
    <2>1. live = Created /\ Created = ToSet(s) /\ spare = Created
      BY <1>0, <1>1, <1>2 DEF LiveInv, ListInv, Destroying
    <2>2. live = {s[k] : k \in 1 .. Len(s)}
      BY <1>4, <2>1 DEF ToSet
    <2> QED BY <1>1, <1>2, <2>1, <2>2 DEF LiveInv, Destroying
  <1>8. TypeOK'
    BY <1>1, <1>4 DEF TypeOK, walk, links, data, Pointer
  <1> QED BY <1>2, <1>3, <1>5, <1>6, <1>7, <1>8 DEF NodesInv

(* The three steps of destroy_list's loop.                                  *)
LEMMA TakeNodeKeeps ==
  ASSUME TypeOK, NEW s, NEW c, NodesInv(s, c), TakeNode
  PROVE  TypeOK' /\ NodesInv(s, c)'
  <1>0. /\ StackInv /\ ListInv(s) /\ PlaceInv(s, c) /\ PathInv(s) /\ PrintInv(s, c) /\ LiveInv(s, c)
    BY DEF NodesInv
  <1>1. /\ pc = "destroy" /\ pc' = "read_next" /\ tmp # NULL /\ tmp' = tmp /\ old' = tmp
        /\ UNCHANGED <<walk, node, links, data, swap, n, output, live, spare>>
    BY DEF TakeNode, Body
  <1>2. /\ StackInv' /\ ListInv(s)' /\ Created' = Created /\ ~Walking /\ ~Walking'
    BY <1>0, <1>1, AfterKept DEF BeyondWalk, Destroying, data
  <1>3. PathInv(s)' /\ Shown(s)' = Shown(s)
    BY <1>0, <1>1, <1>2, PathKept DEF data
  <1>4. c \in 1 .. Len(s) /\ tmp = s[c]
    BY <1>0, <1>1, NextPlace
  <1>5. PlaceInv(s, c)' /\ OrderInv(s, c)' /\ NumberInv(s, c)'
    BY <1>1, <1>2, <1>4 DEF PlaceInv, OrderInv, NumberInv
  <1>6. PrintInv(s, c)' /\ LiveInv(s, c)'
    BY <1>0, <1>1, <1>2, <1>3 DEF PrintInv, LiveInv, Destroying
  <1>7. TypeOK'
    BY <1>1 DEF TypeOK, walk, links, data
  <1> QED BY <1>2, <1>3, <1>5, <1>6, <1>7 DEF NodesInv

LEMMA ReadNextKeeps ==
  ASSUME TypeOK, NEW s, NEW c, NodesInv(s, c), ReadNext
  PROVE  TypeOK' /\ NodesInv(s, c)'
  <1>0. /\ StackInv /\ ListInv(s) /\ PlaceInv(s, c) /\ PathInv(s) /\ PrintInv(s, c) /\ LiveInv(s, c)
    BY DEF NodesInv
  <1>1. /\ pc = "read_next" /\ pc' = "free" /\ tmp' = next[tmp]
        /\ UNCHANGED <<walk, node, old, links, data, swap, n, output, live, spare>>
    BY DEF ReadNext, At, Behind, Body
  <1>2. /\ StackInv' /\ ListInv(s)' /\ Created' = Created /\ ~Walking /\ ~Walking'
    BY <1>0, <1>1, AfterKept DEF BeyondWalk, Destroying, data
  <1>3. PathInv(s)' /\ Shown(s)' = Shown(s)
    BY <1>0, <1>1, <1>2, PathKept DEF data
  <1>4. /\ c \in 1 .. Len(s) /\ old = s[c] /\ tmp = s[c] /\ Len(s) \in Nat /\ s[c] \in Path
        /\ next[tmp] = IF c = Len(s) THEN NULL ELSE s[c + 1]
    BY <1>0, <1>1, NodeFacts DEF PlaceInv
  <1>5. next[tmp] = IF c + 1 <= Len(s) THEN s[c + 1] ELSE NULL
    <2>1. c = Len(s) <=> ~(c + 1 <= Len(s))
      BY <1>4
    <2> QED BY <1>4, <2>1
  <1>6. PlaceInv(s, c)' /\ OrderInv(s, c)' /\ NumberInv(s, c)'
    BY <1>1, <1>2, <1>4, <1>5 DEF PlaceInv, OrderInv, NumberInv
  <1>7. PrintInv(s, c)' /\ LiveInv(s, c)'
    BY <1>0, <1>1, <1>2, <1>3 DEF PrintInv, LiveInv, Destroying
  <1>8. TypeOK'
    <2>1. tmp' \in Pointer
      BY <1>1, <1>4 DEF TypeOK
    <2> QED BY <1>1, <2>1 DEF TypeOK, walk, links, data
  <1> QED BY <1>2, <1>3, <1>6, <1>7, <1>8 DEF NodesInv

LEMMA FreeNodeKeeps ==
  ASSUME TypeOK, NEW s, NEW c, NodesInv(s, c), FreeNode
  PROVE  TypeOK' /\ NodesInv(s, c + 1)'
  <1>0. /\ StackInv /\ ListInv(s) /\ PlaceInv(s, c) /\ PathInv(s) /\ PrintInv(s, c) /\ LiveInv(s, c)
    BY DEF NodesInv
  <1>1. /\ pc = "free" /\ pc' = "destroy" /\ tmp' = tmp /\ live' = live \ {old}
        /\ UNCHANGED <<walk, node, old, links, data, swap, n, output, spare>>
    BY DEF FreeNode, At, Behind, Body
  <1>2. /\ StackInv' /\ ListInv(s)' /\ Created' = Created /\ ~Walking /\ ~Walking'
    BY <1>0, <1>1, AfterKept DEF BeyondWalk, Destroying, data
  <1>3. PathInv(s)' /\ Shown(s)' = Shown(s)
    BY <1>0, <1>1, <1>2, PathKept DEF data
  <1>4. /\ c \in 1 .. Len(s) /\ old = s[c] /\ Len(s) \in Nat /\ c + 1 \in 1 .. Len(s) + 1
        /\ tmp = IF c + 1 <= Len(s) THEN s[c + 1] ELSE NULL
    BY <1>0, <1>1, NodeFacts DEF PlaceInv
  <1>5. PlaceInv(s, c + 1)' /\ OrderInv(s, c + 1)' /\ NumberInv(s, c + 1)' /\ PrintInv(s, c + 1)'
    BY <1>0, <1>1, <1>2, <1>3, <1>4 DEF PlaceInv, OrderInv, NumberInv, PrintInv, Destroying
  <1>6. LiveInv(s, c + 1)'
    <2>1. live = {s[k] : k \in c .. Len(s)} /\ spare = Created
      BY <1>0, <1>1 DEF LiveInv, Destroying
    <2>2. \A j, k \in 1 .. Len(s) : s[j] = s[k] => j = k
      BY <1>0, NodeFacts
    <2>3. \A k \in c .. Len(s) : k \in 1 .. Len(s) /\ (k = c \/ k \in c + 1 .. Len(s))
      BY <1>4
    <2>4. \A k \in c + 1 .. Len(s) : k \in c .. Len(s) /\ k \in 1 .. Len(s) /\ s[k] # s[c]
      BY <1>4, <2>2
    <2>5. live' = {s[k] : k \in c + 1 .. Len(s)}
      BY <1>1, <1>4, <2>1, <2>3, <2>4
    <2> QED BY <1>1, <1>2, <2>1, <2>5 DEF LiveInv, Destroying
  <1>7. TypeOK'
    BY <1>1 DEF TypeOK, walk, links, data
  <1> QED BY <1>2, <1>3, <1>5, <1>6, <1>7 DEF NodesInv

LEMMA ExitKeeps ==
  ASSUME TypeOK, NEW s, NEW c, NodesInv(s, c), Exit
  PROVE  TypeOK' /\ NodesInv(s, c)'
  <1>0. /\ StackInv /\ ListInv(s) /\ PlaceInv(s, c) /\ PathInv(s) /\ OrderInv(s, c)
        /\ NumberInv(s, c) /\ PrintInv(s, c) /\ LiveInv(s, c)
    BY DEF NodesInv
  <1>1. /\ pc = "destroy" /\ pc' = "exited" /\ tmp = NULL /\ tmp' = tmp
        /\ UNCHANGED <<walk, node, old, links, data, swap, n, output, live, spare>>
    BY DEF Exit, At
  <1>2. /\ StackInv' /\ ListInv(s)' /\ Created' = Created /\ ~Walking /\ ~Walking'
    BY <1>0, <1>1, AfterKept DEF BeyondWalk, Destroying, data
  <1>3. PathInv(s)' /\ Shown(s)' = Shown(s)
    BY <1>0, <1>1, <1>2, PathKept DEF data
  <1>4. PlaceInv(s, c)' /\ OrderInv(s, c)' /\ NumberInv(s, c)' /\ PrintInv(s, c)'
    BY <1>1, <1>2 DEF PlaceInv, OrderInv, NumberInv, PrintInv, Destroying
  <1>5. LiveInv(s, c)'
    <2>1. c = Len(s) + 1 /\ Len(s) \in Nat
      BY <1>0, <1>1, EndPlace
    <2>2. live = {s[k] : k \in c .. Len(s)}
      BY <1>0, <1>1 DEF LiveInv, Destroying
    <2>3. c .. Len(s) = {}
      BY <2>1
    <2>4. live = {} /\ spare = Created
      BY <1>0, <1>1, <2>2, <2>3 DEF LiveInv
    <2> QED BY <1>1, <1>2, <2>4 DEF LiveInv, Destroying
  <1>6. TypeOK'
    BY <1>1 DEF TypeOK, walk, links, data
  <1> QED BY <1>2, <1>3, <1>4, <1>5, <1>6 DEF NodesInv

(* insert_sorted looks for the place of the node.                           *)
LEMMA InsertFirstKeeps ==
  ASSUME TypeOK, NEW s, NEW c, NodesInv(s, c), InsertFirst
  PROVE  TypeOK' /\ \E t : NodesInv(t, c)'
  <1>0. /\ StackInv /\ ListInv(s) /\ PathInv(s) /\ NumberInv(s, c) /\ PrintInv(s, c) /\ LiveInv(s, c)
    BY DEF NodesInv
  <1>t. PICK t : t = <<node>>
    OBVIOUS
  <1>1. /\ pc = "insert" /\ pc' = Inserted /\ head = NULL /\ head' = node /\ tail' = node
        /\ spare' = spare \cup {node}
        /\ UNCHANGED <<walk, node, tmp, old, next, prev, data, swap, n, output, live>>
    BY DEF InsertFirst, Malloc, At
  <1>2. Linking /\ Walking /\ Inserted \in {"opendir", "readdir"} /\ ~Linking' /\ Walking' /\ Created' = Created
    BY <1>1 DEF Linking, Walking, Inserted, Created, data
  <1>3. s = << >>
    <2> SUFFICES ASSUME s # << >> PROVE FALSE
      OBVIOUS
    <2>1. head = s[1] /\ 1 \in 1 .. Len(s)
      BY <1>0, NodeFacts
    <2> QED BY <2>1, <1>0, <1>1, NodeFacts
  <1>4. node \in Path /\ node \in Created /\ Created = {node}
    <2>1. ToSet(s) = {}
      BY <1>3 DEF ToSet
    <2> QED BY <1>0, <1>2, <2>1 DEF StackInv, ListInv, TypeOK
  <1>5. t \in Seq(Path) /\ Len(t) = 1 /\ t[1] = node /\ DOMAIN t = {1} /\ t # << >>
    BY <1>t, <1>4
  <1>6. Listing(t) /\ ToSet(t) = {node}
    BY <1>4, <1>5, DepthType DEF Listing, ToSet
  <1>7. Forward(t, node, next) /\ Backward(t, node, prev)
    BY <1>0, <1>2, <1>5 DEF ListInv, Forward, Backward
  <1>8. ListInv(t)'
    BY <1>0, <1>1, <1>2, <1>4, <1>6, <1>7 DEF ListInv, data
  <1>9. StackInv'
    BY <1>0, <1>1, <1>2 DEF StackInv, walk
  <1>10. PlaceInv(t, c)' /\ PathInv(t)' /\ OrderInv(t, c)' /\ NumberInv(t, c)' /\ PrintInv(t, c)' /\ LiveInv(t, c)'
    <2>1. pc' \in {"opendir", "readdir"} /\ pc = "insert"
      BY <1>1, <1>2
    <2>2. spare' = Created' /\ live' = Created'
      BY <1>0, <1>1, <1>2, <1>4 DEF LiveInv, Destroying
    <2> QED BY <1>0, <1>1, <1>2, <2>1, <2>2
         DEF PlaceInv, PathInv, OrderInv, NumberInv, PrintInv, LiveInv, data, Destroying
  <1>11. TypeOK'
    <2>1. pc' \in {"opendir", "readdir"}
      BY <1>1, <1>2
    <2> QED BY <1>1, <1>4, <2>1 DEF TypeOK, walk, data, Pointer
  <1> QED BY <1>8, <1>9, <1>10, <1>11 DEF NodesInv

LEMMA ScanFromHeadKeeps ==
  ASSUME TypeOK, NEW s, NEW c, NodesInv(s, c), ScanFromHead
  PROVE  TypeOK' /\ NodesInv(s, 1)'
  <1>0. /\ StackInv /\ ListInv(s) /\ PathInv(s) /\ NumberInv(s, c) /\ PrintInv(s, c) /\ LiveInv(s, c)
    BY DEF NodesInv
  <1>1. /\ pc = "insert" /\ pc' = "scan" /\ head # NULL /\ tmp' = head
        /\ spare' = spare \cup {node}
        /\ UNCHANGED <<walk, node, old, links, data, swap, n, output, live>>
    BY DEF ScanFromHead, Malloc, At
  <1>2. Linking /\ Walking /\ Linking' /\ Walking' /\ Created' = Created /\ Inserted' = Inserted
    BY <1>1 DEF Linking, Walking, Inserted, Created, data
  <1>3. s # << >>
    BY <1>0, <1>1 DEF ListInv, Forward
  <1>4. head = s[1] /\ 1 \in 1 .. Len(s) /\ s[1] \in Path /\ s[1] \in Created
    <2>1. 1 \in 1 .. Len(s) /\ head = s[1]
      BY <1>0, <1>3, NodeFacts
    <2> QED BY <1>0, <2>1, NodeFacts
  <1>5. ListInv(s)' /\ StackInv'
    BY <1>0, <1>1, <1>2 DEF ListInv, StackInv, links, data, walk
  <1>6. PlaceInv(s, 1)'
    BY <1>1, <1>4 DEF PlaceInv
  <1>7. PathInv(s)' /\ OrderInv(s, 1)' /\ NumberInv(s, 1)' /\ PrintInv(s, 1)' /\ LiveInv(s, 1)'
    <2>1. spare' = Created' /\ live' = Created'
      BY <1>0, <1>1, <1>2 DEF StackInv, LiveInv, Destroying
    <2> QED BY <1>0, <1>1, <1>2, <2>1
         DEF PathInv, OrderInv, NumberInv, PrintInv, LiveInv, data, Destroying
  <1>8. TypeOK'
    <2>1. live = Created
      BY <1>0, <1>1 DEF LiveInv, Destroying
    <2> QED BY <1>1, <1>4, <2>1 DEF TypeOK, walk, links, data, Pointer
  <1> QED BY <1>5, <1>6, <1>7, <1>8 DEF NodesInv

(* The node at tmp, the one behind it and the one to be linked.             *)
LEMMA ScanFacts ==
  ASSUME TypeOK, NEW s, NEW c, StackInv, ListInv(s), PlaceInv(s, c), pc = "scan"
  PROVE  /\ c \in 1 .. Len(s) /\ tmp = s[c] /\ Len(s) \in Nat
         /\ next[tmp] = IF c = Len(s) THEN NULL ELSE s[c + 1]
         /\ next[tmp] = NULL <=> c = Len(s)
         /\ node \in Path /\ node \in Created /\ level[node] = Depth[node] /\ Depth[node] \in Nat
         /\ node \notin ToSet(s) /\ level[tmp] = Depth[s[c]]
  <1>1. c \in 1 .. Len(s) /\ tmp = s[c]
    BY DEF PlaceInv
  <1>2. Len(s) \in Nat /\ level[tmp] = Depth[s[c]] /\ next[tmp] = IF c = Len(s) THEN NULL ELSE s[c + 1]
    BY <1>1, NodeFacts
  <1>3. c # Len(s) => c + 1 \in 1 .. Len(s)
    BY <1>1, <1>2
  <1>4. \A k \in 1 .. Len(s) : s[k] # NULL
    BY NodeFacts
  <1>5. node \in Path /\ node \in Created
    BY DEF StackInv, TypeOK, Linking
  <1>6. level[node] = Depth[node] /\ Depth[node] \in Nat /\ node \notin ToSet(s)
    BY <1>5, DepthType DEF ListInv, Linking
  <1> QED BY <1>1, <1>2, <1>3, <1>4, <1>5, <1>6

LEMMA ScanKeeps ==
  ASSUME TypeOK, NEW s, NEW c, NodesInv(s, c), Scan
  PROVE  TypeOK' /\ NodesInv(s, c + 1)'
  <1>0. /\ StackInv /\ ListInv(s) /\ PlaceInv(s, c) /\ PathInv(s) /\ NumberInv(s, c)
        /\ PrintInv(s, c) /\ LiveInv(s, c)
    BY DEF NodesInv
  <1>1. /\ pc = "scan" /\ pc' = "scan" /\ LessDeep /\ tmp' = next[tmp]
        /\ UNCHANGED <<walk, node, old, links, data, swap, n, output, live, spare>>
    BY DEF Scan, At
  <1>2. Linking /\ Walking /\ Linking' /\ Walking' /\ Created' = Created /\ Inserted' = Inserted
    BY <1>1 DEF Linking, Walking, Inserted, Created, data
  <1>3. /\ c \in 1 .. Len(s) /\ Len(s) \in Nat /\ level[node] = Depth[node]
        /\ c # Len(s) /\ next[tmp] = s[c + 1]
    BY <1>0, <1>1, ScanFacts DEF LessDeep
  <1>4. c + 1 \in 1 .. Len(s)
    BY <1>3
  <1>5. s[c + 1] \in Path /\ s[c + 1] \in Created /\ level[s[c + 1]] = Depth[s[c + 1]]
    BY <1>0, <1>4, NodeFacts
  <1>6. ListInv(s)' /\ StackInv'
    BY <1>0, <1>1, <1>2 DEF ListInv, StackInv, links, data, walk
  <1>7. PlaceInv(s, c + 1)'
    <2>1. Depth[s[c + 1]] < Depth[node]
      BY <1>1, <1>3, <1>5 DEF LessDeep
    <2>2. \A k \in 2 .. c : Depth[s[k]] < Depth[node]
      BY <1>0, <1>1 DEF PlaceInv
    <2>3. \A k \in 2 .. c + 1 : Depth[s[k]] < Depth[node]
      <3>1. \A k \in 2 .. c + 1 : k \in 2 .. c \/ k = c + 1
        BY <1>3
      <3> QED BY <2>1, <2>2, <3>1
    <2> QED BY <1>1, <1>3, <1>4, <2>3 DEF PlaceInv
  <1>8. PathInv(s)' /\ OrderInv(s, c + 1)' /\ NumberInv(s, c + 1)' /\ PrintInv(s, c + 1)' /\ LiveInv(s, c + 1)'
    BY <1>0, <1>1, <1>2 DEF PathInv, OrderInv, NumberInv, PrintInv, LiveInv, data, Destroying
  <1>9. TypeOK'
    <2>1. live = Created
      BY <1>0, <1>1 DEF LiveInv, Destroying
    <2> QED BY <1>1, <1>3, <1>5, <2>1 DEF TypeOK, walk, links, data, Pointer
  <1> QED BY <1>6, <1>7, <1>8, <1>9 DEF NodesInv

(* insert_sorted links the node in where the depths say it belongs, also in *)
(* the case that uses tail.                                                 *)
LEMMA LinkPlace ==
  ASSUME TypeOK, NEW s, NEW c, StackInv, ListInv(s), PlaceInv(s, c), pc = "scan", ~LessDeep
  PROVE  \E p \in 1 .. Len(s) + 1 :
           /\ \A k \in 1 .. Len(s) : k < p => Depth[s[k]] <= Depth[node]
           /\ \A k \in 1 .. Len(s) : k >= p => Depth[node] <= Depth[s[k]]
           /\ Before = BeforePlace(s, p) /\ After = AfterPlace(s, p)
  <1>1. /\ c \in 1 .. Len(s) /\ tmp = s[c] /\ Len(s) \in Nat
        /\ next[tmp] = IF c = Len(s) THEN NULL ELSE s[c + 1]
        /\ next[tmp] = NULL <=> c = Len(s)
        /\ level[node] = Depth[node] /\ Depth[node] \in Nat /\ level[tmp] = Depth[s[c]]
    BY ScanFacts
  <1>2. \A k \in 1 .. Len(s) : Depth[s[k]] \in Nat /\ level[s[k]] = Depth[s[k]]
    BY NodeFacts
  <1>3. \A j, k \in 1 .. Len(s) : j <= k => Depth[s[j]] <= Depth[s[k]]
    BY DEF ListInv, Listing
  <1>4. \A k \in 2 .. c : Depth[s[k]] < Depth[node]
    BY DEF PlaceInv
  <1>5. head = s[1] /\ tail = s[Len(s)]
    <2>1. s # << >>
      BY <1>1
    <2> QED BY <2>1 DEF ListInv, Forward, Backward
  <1>6. CASE level[node] < level[tmp]
    <2>1. Depth[node] < Depth[s[c]]
      BY <1>1, <1>6
    <2>2. c = 1
      BY <1>1, <1>2, <1>4, <2>1
    <2>3. 1 \in 1 .. Len(s) + 1 /\ 1 # Len(s) + 1
      BY <1>1
    <2>4. \A k \in 1 .. Len(s) : Depth[node] <= Depth[s[k]]
      BY <1>1, <1>2, <1>3, <2>1, <2>2
    <2>5. Before = NULL /\ After = s[1]
      BY <1>5, <1>6 DEF Before, After
    <2>6. Before = BeforePlace(s, 1) /\ After = AfterPlace(s, 1)
      BY <2>3, <2>5 DEF BeforePlace, AfterPlace
    <2>7. \A k \in 1 .. Len(s) : ~(k < 1)
      OBVIOUS
    <2> QED BY <2>3, <2>4, <2>6, <2>7
  <1>7. CASE ~(level[node] < level[tmp])
    <2>1. Depth[s[c]] <= Depth[node]
      BY <1>1, <1>2, <1>7
    <2>2. c + 1 \in 1 .. Len(s) + 1 /\ c + 1 # 1 /\ (c + 1) - 1 = c
      BY <1>1
    <2>3. ASSUME NEW k \in 1 .. Len(s), k < c + 1 PROVE Depth[s[k]] <= Depth[node]
      <3>1. k <= c
        BY <2>3, <1>1
      <3>2. Depth[s[k]] <= Depth[s[c]]
        BY <3>1, <1>1, <1>3
      <3> QED BY <3>2, <2>1, <1>1, <1>2
    <2>4. ASSUME NEW k \in 1 .. Len(s), k >= c + 1 PROVE Depth[node] <= Depth[s[k]]
      <3>1. c # Len(s) /\ c + 1 \in 1 .. Len(s)
        BY <2>4, <1>1
      <3>2. next[tmp] # NULL /\ next[tmp] = s[c + 1]
        BY <3>1, <1>1
      <3>3. Depth[node] <= Depth[s[c + 1]]
        BY <3>1, <3>2, <1>1, <1>2 DEF LessDeep
      <3>4. Depth[s[c + 1]] <= Depth[s[k]]
        BY <3>1, <2>4, <1>3
      <3> QED BY <3>1, <3>3, <3>4, <1>1, <1>2
    <2>5. Before = s[c]
      <3>1. CASE next[tmp] = NULL
        <4>1. Before = tail
          BY <1>7, <3>1 DEF Before
        <4> QED BY <4>1, <3>1, <1>1, <1>5
      <3>2. CASE next[tmp] # NULL
        <4>1. Before = tmp
          BY <1>7, <3>2 DEF Before
        <4> QED BY <4>1, <1>1
      <3> QED BY <3>1, <3>2
    <2>6. After = next[tmp]
      BY <1>7 DEF After
    <2>7. Before = BeforePlace(s, c + 1)
      BY <2>2, <2>5 DEF BeforePlace
    <2>8. After = AfterPlace(s, c + 1)
      <3>1. c = Len(s) <=> c + 1 = Len(s) + 1
        BY <1>1
      <3> QED BY <2>6, <3>1, <1>1 DEF AfterPlace
    <2> QED BY <2>2, <2>3, <2>4, <2>7, <2>8
  <1> QED BY <1>6, <1>7

LEMMA InsertSortedKeeps ==
  ASSUME TypeOK, NEW s, NEW c, NodesInv(s, c), insert_sorted
  PROVE  TypeOK' /\ \E t : NodesInv(t, c)'
  <1>0. /\ StackInv /\ ListInv(s) /\ PlaceInv(s, c) /\ PathInv(s) /\ NumberInv(s, c)
        /\ PrintInv(s, c) /\ LiveInv(s, c)
    BY DEF NodesInv
  <1>1. /\ pc = "scan" /\ ~LessDeep /\ pc' = Inserted /\ tmp' = tmp
        /\ next' = NextLinks(next, node, Before, After)
        /\ prev' = PrevLinks(prev, node, Before, After)
        /\ head' = IF Before = NULL THEN node ELSE head
        /\ tail' = IF After = NULL THEN node ELSE tail
        /\ UNCHANGED <<walk, node, old, data, swap, n, output, live, spare>>
    BY DEF insert_sorted, Link, At, NextLinks, PrevLinks
  <1>2. Linking /\ Walking /\ Inserted \in {"opendir", "readdir"} /\ ~Linking' /\ Walking' /\ Created' = Created
    BY <1>1 DEF Linking, Walking, Inserted, Created, data
  <1>3. PICK p \in 1 .. Len(s) + 1 :
           /\ \A k \in 1 .. Len(s) : k < p => Depth[s[k]] <= Depth[node]
           /\ \A k \in 1 .. Len(s) : k >= p => Depth[node] <= Depth[s[k]]
           /\ Before = BeforePlace(s, p) /\ After = AfterPlace(s, p)
    BY <1>0, <1>1, LinkPlace
  <1>4. node \in Path /\ node \in Created /\ node \notin ToSet(s) /\ Listing(s) /\ Len(s) \in Nat
    BY <1>0, <1>1, ScanFacts DEF ListInv
  <1>t. PICK t : t = InsertAt(s, p, node)
    OBVIOUS
  <1>5. Listing(t) /\ ToSet(t) = ToSet(s) \cup {node}
    BY <1>t, <1>3, <1>4, ListingInsertAt
  <1>6. /\ Before = NULL <=> p = 1
        /\ After = NULL <=> p = Len(s) + 1
        /\ Before \in Pointer /\ After \in Pointer
    <2>1. \A k \in 1 .. Len(s) : s[k] # NULL /\ s[k] \in Path
      BY <1>0, NodeFacts
    <2>2. p # 1 => p - 1 \in 1 .. Len(s)
      BY <1>4
    <2>3. p # Len(s) + 1 => p \in 1 .. Len(s)
      BY <1>4
    <2> QED BY <1>3, <2>1, <2>2, <2>3 DEF BeforePlace, AfterPlace, Pointer
  <1>7. Forward(t, head', next')
    <2>1. head' = IF p = 1 THEN node ELSE head
      BY <1>1, <1>6
    <2>2. next' = NextLinks(next, node, BeforePlace(s, p), AfterPlace(s, p))
      BY <1>1, <1>3
    <2>3. Forward(s, head, next)
      BY <1>0 DEF ListInv
    <2> QED BY <2>1, <2>2, <2>3, <1>t, <1>4, LinkForwardOK
  <1>8. Backward(t, tail', prev')
    <2>1. tail' = IF p = Len(s) + 1 THEN node ELSE tail
      BY <1>1, <1>6
    <2>2. prev' = PrevLinks(prev, node, BeforePlace(s, p), AfterPlace(s, p))
      BY <1>1, <1>3
    <2>3. Backward(s, tail, prev)
      BY <1>0 DEF ListInv
    <2> QED BY <2>1, <2>2, <2>3, <1>t, <1>4, LinkBackwardOK
  <1>9. ListInv(t)'
    <2>1. ToSet(s) = Created \ {node}
      BY <1>0, <1>2 DEF ListInv
    <2>2. ToSet(t) = Created'
      BY <2>1, <1>2, <1>4, <1>5
    <2>3. \A q \in Created' : level'[q] = Depth[q]
      BY <1>0, <1>1, <1>2 DEF ListInv, data
    <2> QED BY <1>2, <1>5, <1>7, <1>8, <2>2, <2>3 DEF ListInv
  <1>10. StackInv'
    BY <1>0, <1>1, <1>2 DEF StackInv, walk
  <1>11. PlaceInv(t, c)' /\ PathInv(t)' /\ OrderInv(t, c)' /\ NumberInv(t, c)' /\ PrintInv(t, c)' /\ LiveInv(t, c)'
    <2>1. pc' \in {"opendir", "readdir"} /\ pc = "scan"
      BY <1>1, <1>2
    <2> QED BY <1>0, <1>1, <1>2, <2>1
         DEF PlaceInv, PathInv, OrderInv, NumberInv, PrintInv, LiveInv, data, Destroying
  <1>12. TypeOK'
    <2>1. pc' \in {"opendir", "readdir"}
      BY <1>1, <1>2
    <2>2. next' \in [Path -> Pointer] /\ prev' \in [Path -> Pointer]
      <3>1. next \in [Path -> Pointer] /\ prev \in [Path -> Pointer] /\ node \in Pointer
        BY <1>4 DEF TypeOK, Pointer
      <3> QED BY <1>1, <1>6, <3>1 DEF NextLinks, PrevLinks
    <2>3. head' \in Pointer /\ tail' \in Pointer
      BY <1>1, <1>4 DEF TypeOK, Pointer
    <2> QED BY <1>1, <2>1, <2>2, <2>3 DEF TypeOK, walk, data
  <1> QED BY <1>9, <1>10, <1>11, <1>12 DEF NodesInv

(* The walk goes on with the list as it is.                                 *)
LEMMA ListKept ==
  ASSUME NEW s, NEW c, ListInv(s), PathInv(s), NumberInv(s, c), PrintInv(s, c), LiveInv(s, c),
         UNCHANGED <<links, data, n, output, live, spare>>,
         pc \in {"opendir", "readdir"}, pc' \in {"opendir", "readdir"}
  PROVE  /\ ListInv(s)' /\ PlaceInv(s, c)' /\ PathInv(s)' /\ OrderInv(s, c)' /\ NumberInv(s, c)'
         /\ PrintInv(s, c)' /\ LiveInv(s, c)' /\ Created' = Created
  <1>1. ~Linking /\ ~Linking' /\ Walking /\ Walking' /\ Created' = Created
    BY DEF Linking, Walking, Created, data
  <1>2. ListInv(s)'
    BY <1>1 DEF ListInv, links, data
  <1>3. /\ PlaceInv(s, c)' /\ PathInv(s)' /\ OrderInv(s, c)' /\ NumberInv(s, c)'
        /\ PrintInv(s, c)' /\ LiveInv(s, c)'
    BY <1>1 DEF PlaceInv, PathInv, OrderInv, NumberInv, PrintInv, LiveInv, data, Destroying
  <1> QED BY <1>1, <1>2, <1>3

LEMMA OpenDirKeeps ==
  ASSUME TypeOK, NEW s, NEW c, NodesInv(s, c), OpenDir
  PROVE  /\ TypeOK' /\ NodesInv(s, c)'
         /\ Last(stack).dir \in Reached(opened) /\ Last(stack).dir \notin opened
  <1>0. /\ StackInv /\ ListInv(s) /\ PathInv(s) /\ NumberInv(s, c) /\ PrintInv(s, c) /\ LiveInv(s, c)
    BY DEF NodesInv
  <1> DEFINE d == Last(stack).dir
  <1>1. /\ pc = "opendir" /\ pc' = "readdir" /\ stack' = OpenTop(stack) /\ opened' = opened \cup {d}
        /\ UNCHANGED <<links, data, node, tmp, old, swap, n, output, live, spare>>
    BY DEF OpenDir, Top, OpenTop
  <1>2. /\ ListInv(s)' /\ PlaceInv(s, c)' /\ PathInv(s)' /\ OrderInv(s, c)' /\ NumberInv(s, c)'
        /\ PrintInv(s, c)' /\ LiveInv(s, c)' /\ Created' = Created
    BY <1>0, <1>1, ListKept
  <1>3. Walk(stack, opened, Created) /\ stack # << >> /\ d \notin opened
    BY <1>0, <1>1 DEF StackInv, Walking
  <1>4. /\ d \in Reached(opened) /\ d \in Path
        /\ Walk(stack', opened', Created) /\ stack' # << >> /\ AllOpened(stack', opened')
    BY <1>1, <1>3, WalkOpen
  <1>5. StackInv'
    BY <1>0, <1>1, <1>2, <1>4 DEF StackInv, Walking, Linking
  <1>6. TypeOK'
    <2>1. stack' \in Seq([dir : Path, x : Nat, unread : SUBSET Path])
      BY <1>4 DEF Walk, Frame
    <2> QED BY <1>1, <1>4, <2>1 DEF TypeOK, links, data
  <1> QED BY <1>2, <1>3, <1>4, <1>5, <1>6 DEF NodesInv

LEMMA ReturnKeeps ==
  ASSUME TypeOK, NEW s, NEW c, NodesInv(s, c), OpenDirFails \/ CloseDir
  PROVE  TypeOK' /\ \E d : NodesInv(s, d)'
  <1>0. /\ StackInv /\ ListInv(s) /\ PathInv(s) /\ NumberInv(s, c) /\ PrintInv(s, c) /\ LiveInv(s, c)
    BY DEF NodesInv
  <1>1. /\ pc = "opendir" \/ (pc = "readdir" /\ Last(stack).unread = {})
        /\ stack' = Front(stack) /\ pc' = IF Len(stack) > 1 THEN "readdir" ELSE "sort"
        /\ tmp' = head
        /\ UNCHANGED <<links, data, node, old, swap, n, output, live, spare, opened>>
    BY DEF OpenDirFails, CloseDir, Return, Top
  <1>2. Walk(stack, opened, Created) /\ stack # << >> /\ Walking /\ ~Linking
    BY <1>0, <1>1 DEF StackInv, Walking, Linking
  <1>3. stack \in Seq(Frame) /\ Len(stack) \in Nat \ {0} /\ Last(stack) = stack[Len(stack)]
    BY <1>2, TopType DEF Walk
  <1>4. Last(stack).unread = {}
    <2>1. CASE pc = "opendir"
      <3>1. FrameOK(stack[Len(stack)], opened, Created) /\ Last(stack).dir \notin opened
        BY <1>0, <1>2, <1>3, <2>1 DEF Walk, StackInv
      <3> QED BY <3>1, <1>3 DEF FrameOK
    <2> QED BY <1>1, <2>1
  <1>5. Walk(stack', opened, Created) /\ Len(stack') = Len(stack) - 1 /\ AllOpened(stack', opened)
    BY <1>1, <1>2, <1>4, WalkClose
  <1>6. stack' \in Seq(Frame) /\ opened' = opened /\ head \in Pointer
    BY <1>1, <1>5 DEF Walk, TypeOK
  <1>7. stack' \in Seq([dir : Path, x : Nat, unread : SUBSET Path])
    BY <1>6 DEF Frame
  <1>8. CASE Len(stack) > 1
    <2>1. pc' = "readdir" /\ stack' # << >>
      BY <1>1, <1>3, <1>5, <1>6, <1>8
    <2>2. pc \in {"opendir", "readdir"}
      BY <1>1
    <2>3. /\ ListInv(s)' /\ PlaceInv(s, c)' /\ PathInv(s)' /\ OrderInv(s, c)' /\ NumberInv(s, c)'
          /\ PrintInv(s, c)' /\ LiveInv(s, c)' /\ Created' = Created
      BY <1>0, <1>1, <2>1, <2>2, ListKept
    <2>4. StackInv'
      BY <1>0, <1>5, <1>6, <2>1, <2>3 DEF StackInv, Walking, Linking
    <2>5. TypeOK'
      BY <1>1, <1>6, <1>7, <2>1 DEF TypeOK, links, data
    <2> QED BY <2>3, <2>4, <2>5 DEF NodesInv
  <1>9. CASE ~(Len(stack) > 1)
    <2>1. pc' = "sort" /\ stack' = << >>
      <3>1. Len(stack') = 0
        BY <1>3, <1>5, <1>9
      <3> QED BY <1>1, <1>6, <1>9, <3>1
    <2>2. ~Walking' /\ ~Linking' /\ Created' = Created
      BY <1>1, <2>1 DEF Walking, Linking, Created, data
    <2>3. StackInv'
      BY <1>0, <1>5, <1>6, <2>1, <2>2 DEF StackInv
    <2>4. ListInv(s)'
      BY <1>0, <1>1, <1>2, <2>2 DEF ListInv, links, data
    <2>5. s # << >> /\ 1 \in 1 .. Len(s) /\ head' = s[1]
      <3>1. ToSet(s) = Created /\ Root \in Created
        BY <1>0, <1>2 DEF ListInv, StackInv
      <3>2. s # << >>
        BY <3>1 DEF ToSet
      <3> QED BY <1>0, <1>1, <3>2, NodeFacts DEF links
    <2>6. PlaceInv(s, 1)'
      BY <1>1, <2>1, <2>5 DEF PlaceInv, links
    <2>7. PathInv(s)'
      <3>1. s \in Seq(Path) /\ DOMAIN s = 1 .. Len(s) /\ Listing(s) /\ \A k \in 1 .. Len(s) : s[k] \in Path
        BY <1>0, NodeFacts
      <3>2. \A k \in DOMAIN s : path'[s[k]] = s[k]
        BY <1>0, <1>1, <1>2, <3>1 DEF PathInv, data
      <3>3. Shown(s)' = [k \in DOMAIN s |-> s[k]]
        BY <3>2 DEF Shown
      <3>4. Shown(s)' = s
        BY <3>1, <3>3
      <3> QED BY <2>2, <3>1, <3>4 DEF PathInv
    <2>8. OrderInv(s, 1)'
      BY <2>1 DEF OrderInv
    <2>9. NumberInv(s, 1)' /\ PrintInv(s, 1)' /\ LiveInv(s, 1)'
      <3>1. pc \in {"opendir", "readdir"}
        BY <1>1
      <3> QED BY <1>0, <1>1, <1>2, <2>1, <2>2, <3>1 DEF NumberInv, PrintInv, LiveInv, data, Destroying
    <2>10. TypeOK'
      <3>1. live = Created /\ s[1] \in Created /\ s[1] \in Path
        <4>1. pc \in {"opendir", "readdir"}
          BY <1>1
        <4> QED BY <1>0, <2>5, <4>1, NodeFacts DEF LiveInv, Destroying
      <3>2. tmp' = s[1]
        BY <1>1, <2>5 DEF links
      <3> QED BY <1>1, <1>6, <1>7, <2>1, <3>1, <3>2 DEF TypeOK, links, data
    <2> QED BY <2>3, <2>4, <2>6, <2>7, <2>8, <2>9, <2>10 DEF NodesInv
  <1> QED BY <1>8, <1>9

LEMMA SkipEntryKeeps ==
  ASSUME TypeOK, NEW s, NEW c, NodesInv(s, c), NEW e \in Path, SkipEntry(e)
  PROVE  TypeOK' /\ NodesInv(s, c)'
  <1>0. /\ StackInv /\ ListInv(s) /\ PathInv(s) /\ NumberInv(s, c) /\ PrintInv(s, c) /\ LiveInv(s, c)
    BY DEF NodesInv
  <1>1. /\ pc = "readdir" /\ pc' = "readdir" /\ e \in Last(stack).unread /\ Kind[e] = "hidden"
        /\ stack' = ReadEntry(stack, e)
        /\ UNCHANGED <<links, data, node, tmp, old, swap, n, output, live, spare, opened>>
    BY DEF SkipEntry, Top, Rest, ReadEntry
  <1>2. /\ ListInv(s)' /\ PlaceInv(s, c)' /\ PathInv(s)' /\ OrderInv(s, c)' /\ NumberInv(s, c)'
        /\ PrintInv(s, c)' /\ LiveInv(s, c)' /\ Created' = Created
    BY <1>0, <1>1, ListKept
  <1>3. Walk(stack, opened, Created) /\ stack # << >> /\ AllOpened(stack, opened)
    BY <1>0, <1>1 DEF StackInv, Walking
  <1>4. Walk(stack', opened, Created) /\ stack' # << >> /\ AllOpened(stack', opened)
    BY <1>1, <1>3, WalkRead
  <1>5. StackInv'
    BY <1>0, <1>1, <1>2, <1>4 DEF StackInv, Walking, Linking
  <1>6. TypeOK'
    <2>1. stack' \in Seq([dir : Path, x : Nat, unread : SUBSET Path])
      BY <1>4 DEF Walk, Frame
    <2> QED BY <1>1, <2>1 DEF TypeOK, links, data
  <1> QED BY <1>2, <1>5, <1>6 DEF NodesInv

(* A new node is created, to be linked.                                     *)
LEMMA AddNodeKeeps ==
  ASSUME TypeOK, NEW s, NEW c, NodesInv(s, c), NEW e \in Path, AddNode(e)
  PROVE  TypeOK' /\ NodesInv(s, c)'
  <1>0. /\ StackInv /\ ListInv(s) /\ PathInv(s) /\ NumberInv(s, c) /\ PrintInv(s, c) /\ LiveInv(s, c)
    BY DEF NodesInv
  <1> DEFINE rest == ReadEntry(stack, e)
             x == Last(stack).x
  <1>1. /\ pc = "readdir" /\ pc' = "insert" /\ e \in Last(stack).unread /\ Kind[e] # "hidden"
        /\ stack' = IF Kind[e] = "dir" THEN Append(rest, [dir |-> e, x |-> x, unread |-> {}]) ELSE rest
        /\ path' = [path EXCEPT ![e] = e] /\ level' = [level EXCEPT ![e] = x]
        /\ i' = [i EXCEPT ![e] = 1]
        /\ next' = [next EXCEPT ![e] = NULL] /\ prev' = [prev EXCEPT ![e] = NULL]
        /\ node' = e /\ live' = live \cup {e}
        /\ UNCHANGED <<head, tail, tmp, old, swap, n, output, spare, opened>>
    BY DEF AddNode, create_node, Top, Rest, ReadEntry
  <1>2. Walk(stack, opened, Created) /\ stack # << >> /\ AllOpened(stack, opened)
    BY <1>0, <1>1 DEF StackInv, Walking
  <1>3. /\ e # Root /\ e \notin Created /\ e \notin opened /\ x = Depth[e]
        /\ rest \in Seq(Frame) /\ rest # << >> /\ AllOpened(rest, opened)
        /\ Walk(rest, opened, Created \cup {e})
    <2> DEFINE g == Created
    <2> HIDE DEF g
    <2>1. Walk(stack, opened, g) /\ e \in Last(stack).unread
      BY <1>1, <1>2 DEF g
    <2>2. /\ e # Root /\ e \notin g /\ e \notin opened /\ x = Depth[e]
          /\ rest \in Seq(Frame) /\ rest # << >> /\ AllOpened(rest, opened)
          /\ Walk(rest, opened, g \cup {e})
      BY <1>1, <1>2, <2>1, WalkRead
    <2> QED BY <2>2 DEF g
  <1> HIDE DEF rest, x
  <1>4. Depth[e] \in Nat /\ Depth[e] > 0
    BY DepthPositive
  <1>5. /\ level' \in [Path -> Nat] /\ level'[e] = Depth[e] /\ \A p \in Path : p # e => level'[p] = level[p]
    BY <1>1, <1>3, <1>4 DEF TypeOK
  <1>6. Created' = Created \cup {e}
    BY <1>4, <1>5 DEF Created
  <1>7. /\ next' \in [Path -> Pointer] /\ next'[e] = NULL /\ \A p \in Path : p # e => next'[p] = next[p]
        /\ prev' \in [Path -> Pointer] /\ prev'[e] = NULL /\ \A p \in Path : p # e => prev'[p] = prev[p]
    BY <1>1 DEF TypeOK, Pointer
  <1>8. /\ path' \in [Path -> Path] /\ path'[e] = e /\ \A p \in Path : p # e => path'[p] = path[p]
        /\ i' \in [Path -> Nat] /\ i'[e] = 1 /\ \A p \in Path : p # e => i'[p] = i[p]
    BY <1>1 DEF TypeOK
  <1>9. Linking' /\ Walking' /\ Walking /\ ~Linking
    BY <1>1 DEF Linking, Walking
  <1>10. Inserted' = IF Kind[e] = "dir" THEN "opendir" ELSE "readdir"
    BY <1>1, <1>3 DEF Inserted
  <1>11. Walk(stack', opened, Created \cup {e}) /\ stack' # << >>
         /\ (Kind[e] = "dir" => Last(stack').dir \notin opened)
         /\ (Kind[e] # "dir" => AllOpened(stack', opened))
    <2>1. CASE Kind[e] = "dir"
      <3> DEFINE g == Created \cup {e}
      <3>1. e \in g /\ Walk(rest, opened, g)
        BY <1>3
      <3> HIDE DEF g
      <3>2. stack' = Append(rest, [dir |-> e, x |-> x, unread |-> {}])
        BY <1>1, <2>1
      <3>3. Walk(stack', opened, g) /\ stack' # << >> /\ Last(stack').dir = e
        BY <3>1, <3>2, <1>3, WalkCall
      <3> QED BY <2>1, <3>3, <1>3 DEF g
    <2>2. CASE Kind[e] # "dir"
      BY <2>2, <1>1, <1>3
    <2> QED BY <2>1, <2>2
  <1>12. StackInv'
    BY <1>0, <1>1, <1>6, <1>9, <1>10, <1>11 DEF StackInv
  <1>13. ListInv(s)'
    <2>1. ToSet(s) = Created /\ Listing(s)
      BY <1>0, <1>9 DEF ListInv
    <2>2. ToSet(s) = Created' \ {node'}
      BY <1>1, <1>3, <1>6, <2>1
    <2>3. \A k \in 1 .. Len(s) : s[k] \in Path /\ s[k] # e
      BY <1>0, <1>3, NodeFacts
    <2>4. Forward(s, head', next') /\ Backward(s, tail', prev')
      <3>1. Forward(s, head, next) /\ Backward(s, tail, prev)
        BY <1>0 DEF ListInv
      <3> QED BY <3>1, <1>1, <1>7, <2>3 DEF Forward, Backward
    <2>5. \A p \in Created' : level'[p] = Depth[p]
      <3>1. \A p \in Created : level[p] = Depth[p] /\ p \in Path
        BY <1>0 DEF ListInv, Created
      <3> QED BY <3>1, <1>5, <1>6
    <2> QED BY <1>1, <1>7, <1>9, <2>1, <2>2, <2>4, <2>5 DEF ListInv
  <1>14. PlaceInv(s, c)' /\ PathInv(s)' /\ OrderInv(s, c)' /\ NumberInv(s, c)' /\ PrintInv(s, c)' /\ LiveInv(s, c)'
    <2>1. \A p \in Path : path'[p] = p /\ i'[p] = 1
      BY <1>0, <1>8, <1>9 DEF PathInv, NumberInv
    <2>2. n = 1 /\ output = << >> /\ live = Created /\ spare = Created
      BY <1>0, <1>1, <1>9 DEF NumberInv, PrintInv, LiveInv, Destroying
    <2>3. spare' = Created' \ {node'} /\ live' = Created'
      BY <1>1, <1>3, <1>6, <2>2
    <2> QED BY <1>1, <1>9, <2>1, <2>2, <2>3
         DEF PlaceInv, PathInv, OrderInv, NumberInv, PrintInv, LiveInv, Destroying
  <1>15. TypeOK'
    <2>1. stack' \in Seq([dir : Path, x : Nat, unread : SUBSET Path])
      BY <1>11 DEF Walk, Frame
    <2> QED BY <1>1, <1>5, <1>7, <1>8, <2>1 DEF TypeOK
  <1> QED BY <1>12, <1>13, <1>14, <1>15 DEF NodesInv

LEMMA DirListInit == Init => TypeOK /\ DirListInv
  <1> SUFFICES ASSUME Init PROVE TypeOK /\ DirListInv
    OBVIOUS
  <1> USE DEF Init
  <1>1. Root \in Path /\ level \in [Path -> Nat] /\ level[Root] = 1 /\ \A p \in Path : level[p] > 0 <=> p = Root
    BY TreeAssumption
  <1>2. Created = {Root}
    BY <1>1 DEF Created
  <1>3. Walk(stack, opened, Created) /\ stack \in Seq(Frame) /\ stack # << >> /\ Last(stack).dir = Root
    <2>1. Walk(stack, opened, Created)
      BY <1>2, WalkInit
    <2>2. stack \in Seq(Frame) /\ stack # << >> /\ Len(stack) = 1
      BY <2>1 DEF Walk
    <2> QED BY <2>1, <2>2 DEF Last
  <1>4. Linking /\ Walking /\ Inserted = "opendir"
    BY DEF Linking, Walking, Inserted
  <1>5. StackInv
    BY <1>2, <1>3, <1>4 DEF StackInv
  <1>6. PICK s : s = << >>
    OBVIOUS
  <1>7. s \in Seq(Path) /\ Len(s) = 0 /\ ToSet(s) = {} /\ 1 .. Len(s) = {}
    BY <1>6 DEF ToSet
  <1>8. Listing(s) /\ Forward(s, head, next) /\ Backward(s, tail, prev)
    BY <1>6, <1>7 DEF Listing, Forward, Backward
  <1>9. ListInv(s)
    <2>1. next[node] = NULL /\ prev[node] = NULL /\ Depth[Root] = 1
      BY <1>1, DepthType
    <2> QED BY <1>1, <1>2, <1>4, <1>7, <1>8, <2>1 DEF ListInv
  <1>10. /\ PlaceInv(s, 1) /\ PathInv(s) /\ OrderInv(s, 1) /\ NumberInv(s, 1) /\ PrintInv(s, 1)
         /\ LiveInv(s, 1)
    BY <1>2, <1>4 DEF PlaceInv, PathInv, OrderInv, NumberInv, PrintInv, LiveInv, Destroying
  <1>11. NodesInv(s, 1)
    BY <1>5, <1>9, <1>10 DEF NodesInv
  <1>12. TypeOK
    <2>1. stack \in Seq([dir : Path, x : Nat, unread : SUBSET Path])
      BY <1>3 DEF Frame
    <2>2. swap \in BOOLEAN
      BY Zenon
    <2>3. output \in Seq([path : Path, level : Nat, i : Nat])
      OBVIOUS
    <2>4. /\ path \in [Path -> Path] /\ i \in [Path -> Nat]
          /\ next \in [Path -> Pointer] /\ prev \in [Path -> Pointer]
          /\ head \in Pointer /\ tail \in Pointer /\ tmp \in Pointer /\ old \in Pointer
      BY DEF Pointer
    <2> QED BY <1>1, <2>1, <2>2, <2>3, <2>4 DEF TypeOK
  <1> QED BY <1>11, <1>12 DEF DirListInv

LEMMA DirListNext == TypeOK /\ DirListInv /\ [Next]_vars => (TypeOK /\ DirListInv)'
  <1> SUFFICES ASSUME TypeOK, DirListInv, [Next]_vars PROVE TypeOK' /\ DirListInv'
    OBVIOUS
  <1>1. PICK s, c : NodesInv(s, c)
    BY DEF DirListInv
  <1>2. CASE InsertFirst
    BY <1>1, <1>2, InsertFirstKeeps DEF DirListInv
  <1>3. CASE ScanFromHead
    BY <1>1, <1>3, ScanFromHeadKeeps DEF DirListInv
  <1>4. CASE Scan
    BY <1>1, <1>4, ScanKeeps DEF DirListInv
  <1>5. CASE insert_sorted
    BY <1>1, <1>5, InsertSortedKeeps DEF DirListInv
  <1>6. CASE OpenDir
    BY <1>1, <1>6, OpenDirKeeps DEF DirListInv
  <1>7. CASE OpenDirFails \/ CloseDir
    BY <1>1, <1>7, ReturnKeeps DEF DirListInv
  <1>8. CASE \E e \in Path : SkipEntry(e) \/ AddNode(e)
    BY <1>1, <1>8, SkipEntryKeeps, AddNodeKeeps DEF DirListInv
  <1>9. CASE KeepOrder
    BY <1>1, <1>9, KeepOrderKeeps DEF DirListInv
  <1>10. CASE SwapPaths
    BY <1>1, <1>10, SwapPathsKeeps DEF DirListInv
  <1>11. CASE PassAgain
    BY <1>1, <1>11, PassAgainKeeps DEF DirListInv
  <1>12. CASE SortEnds
    BY <1>1, <1>12, SortEndsKeeps DEF DirListInv
  <1>13. CASE sub_level
    BY <1>1, <1>13, SubLevelKeeps DEF DirListInv
  <1>14. CASE NumberEnds
    BY <1>1, <1>14, NumberEndsKeeps DEF DirListInv
  <1>15. CASE PrintNode
    BY <1>1, <1>15, PrintNodeKeeps DEF DirListInv
  <1>16. CASE PrintFaults
    BY <1>1, <1>16, PrintFaultsKeeps DEF DirListInv
  <1>17. CASE PrintEnds
    BY <1>1, <1>17, PrintEndsKeeps DEF DirListInv
  <1>18. CASE TakeNode
    BY <1>1, <1>18, TakeNodeKeeps DEF DirListInv
  <1>19. CASE ReadNext
    BY <1>1, <1>19, ReadNextKeeps DEF DirListInv
  <1>20. CASE FreeNode
    BY <1>1, <1>20, FreeNodeKeeps DEF DirListInv
  <1>21. CASE Exit
    BY <1>1, <1>21, ExitKeeps DEF DirListInv
  <1>22. CASE UNCHANGED vars
    <2>1. /\ pc' = pc /\ stack' = stack /\ opened' = opened /\ next' = next /\ prev' = prev
          /\ head' = head /\ tail' = tail /\ path' = path /\ level' = level /\ i' = i
          /\ node' = node /\ tmp' = tmp /\ swap' = swap /\ n' = n /\ output' = output /\ live' = live
          /\ old' = old /\ spare' = spare
      BY <1>22 DEF vars, walk, links, data
    <2>2. Linking' = Linking /\ Walking' = Walking /\ Created' = Created /\ Inserted' = Inserted
          /\ Shown(s)' = Shown(s)
      BY <2>1 DEF Linking, Walking, Created, Inserted, Shown
    <2>3. StackInv' /\ ListInv(s)' /\ PlaceInv(s, c)' /\ PathInv(s)'
      BY <1>1, <2>1, <2>2 DEF NodesInv, StackInv, ListInv, PlaceInv, PathInv
    <2>4. OrderInv(s, c)' /\ NumberInv(s, c)' /\ PrintInv(s, c)' /\ LiveInv(s, c)'
      BY <1>1, <2>1, <2>2 DEF NodesInv, OrderInv, NumberInv, PrintInv, LiveInv, Destroying
    <2>5. NodesInv(s, c)'
      BY <2>3, <2>4 DEF NodesInv
    <2>6. TypeOK'
      BY <2>1 DEF TypeOK
    <2> QED BY <2>5, <2>6 DEF DirListInv
  <1> QED BY <1>2, <1>3, <1>4, <1>5, <1>6, <1>7, <1>8, <1>9, <1>10, <1>11, <1>12, <1>13, <1>14,
             <1>15, <1>16, <1>17, <1>18, <1>19, <1>20, <1>21, <1>22 DEF Next

LEMMA DirListInvCorrect == Spec => [](TypeOK /\ DirListInv)
  BY DirListInit, DirListNext, PTL DEF Spec

-----------------------------------------------------------------------------
(* The type invariant: the loops over the list read through tmp only where  *)
(* there is an allocated node, for every tree.                              *)
THEOREM TypeCorrect == Spec => []TypeOK
  BY DirListInvCorrect, PTL

(* insert_sorted keeps the list whole: read by next from the head it is     *)
(* what is read by prev from the tail, it has every node created once, and  *)
(* the nodes go from depth to depth.                                        *)
THEOREM LinkedCorrect == Spec => []Linked
  <1>1. TypeOK /\ DirListInv => Linked
    <2> SUFFICES ASSUME TypeOK, DirListInv PROVE Linked
      OBVIOUS
    <2>1. PICK s, c : NodesInv(s, c)
      BY DEF DirListInv
    <2>2. ListInv(s)
      BY <2>1 DEF NodesInv
    <2>3. /\ s \in Seq(Path) /\ Len(s) \in Nat /\ \A j, k \in 1 .. Len(s) : s[j] = s[k] => j = k
          /\ \A k \in 1 .. Len(s) : level[s[k]] = Depth[s[k]]
      BY <2>2, NodeFacts
    <2>4. Chain(head, next) = s
      BY <2>2, <2>3, ChainIs DEF ListInv
    <2>5. Chain(tail, prev) = Reverse(s) /\ Reverse(Reverse(s)) = s
      <3>1. Backward(s, tail, prev)
        BY <2>2 DEF ListInv
      <3>2. Forward(Reverse(s), tail, prev)
        BY <2>3, <3>1, BackwardIsForward
      <3> DEFINE r == Reverse(s)
      <3>3. /\ r \in Seq(Path) /\ \A j, k \in 1 .. Len(r) : r[j] = r[k] => j = k
            /\ Reverse(r) = s
        BY <2>3, ReverseIs
      <3> HIDE DEF r
      <3>4. Forward(r, tail, prev)
        BY <3>2 DEF r
      <3>5. Chain(tail, prev) = r
        BY <3>3, <3>4, ChainIs
      <3> QED BY <3>3, <3>5 DEF r
    <2>6. Cardinality(ToSet(s)) = Len(s)
      BY <2>3, LengthOfSet
    <2>7. \A k \in 1 .. Len(s) - 1 : level[s[k]] <= level[s[k + 1]]
      <3> SUFFICES ASSUME NEW k \in 1 .. Len(s) - 1 PROVE level[s[k]] <= level[s[k + 1]]
        OBVIOUS
      <3>1. k \in 1 .. Len(s) /\ k + 1 \in 1 .. Len(s) /\ k <= k + 1
        BY <2>3
      <3>2. Depth[s[k]] <= Depth[s[k + 1]]
        BY <2>2, <3>1 DEF ListInv, Listing
      <3> QED BY <2>3, <3>1, <3>2
    <2>8. ToSet(s) = IF pc \in {"insert", "scan"} THEN Created \ {node} ELSE Created
      BY <2>2 DEF ListInv, Linking
    <2> QED BY <2>4, <2>5, <2>6, <2>7, <2>8 DEF Linked
  <1> QED BY <1>1, DirListInvCorrect, PTL

(* destroy_list reads and frees only nodes that are not yet freed, and      *)
(* frees the whole list; what stays allocated is the node that each call of *)
(* insert_sorted allocates for itself.                                      *)
THEOREM ReleasedCorrect == Spec => []Released
  <1>1. TypeOK /\ DirListInv => Released
    <2> SUFFICES ASSUME TypeOK, DirListInv PROVE Released
      OBVIOUS
    <2>1. PICK s, c : NodesInv(s, c)
      BY DEF DirListInv
    <2>2. PlaceInv(s, c) /\ LiveInv(s, c) /\ Len(s) \in Nat
      BY <2>1, NodeFacts DEF NodesInv
    <2>3. pc = "exited" => live = {} /\ spare = Created
      BY <2>2 DEF LiveInv
    <2>4. ASSUME pc \in Destroying, c \in 1 .. Len(s) PROVE s[c] \in live
      <3>1. c \in c .. Len(s)
        BY <2>2, <2>4
      <3> QED BY <2>2, <2>4, <3>1 DEF LiveInv
    <2>5. ASSUME pc = "destroy" PROVE tmp \in live \cup {NULL}
      <3>1. c \in 1 .. Len(s) + 1 /\ tmp = IF c <= Len(s) THEN s[c] ELSE NULL
        BY <2>2, <2>5 DEF PlaceInv
      <3>2. c <= Len(s) => c \in 1 .. Len(s)
        BY <2>2, <3>1
      <3> QED BY <2>4, <2>5, <3>1, <3>2 DEF Destroying
    <2>6. pc = "read_next" => tmp \in live
      BY <2>2, <2>4 DEF PlaceInv, Destroying
    <2>7. pc = "free" => old \in live
      BY <2>2, <2>4 DEF PlaceInv, Destroying
    <2> QED BY <2>3, <2>5, <2>6, <2>7 DEF Released
  <1> QED BY <1>1, DirListInvCorrect, PTL

-----------------------------------------------------------------------------
(* The refinement of Lister.                                                *)
LEMMA SameTree ==
  /\ L!Depth = Depth /\ \A o : L!Reached(o) = Reached(o)
  /\ \A p, q : L!Precedes(p, q) <=> ComesBefore(p, q)
  BY DEF L!Depth, Depth, L!Reached, Reached, L!Precedes, ComesBefore

LEMMA SameCardinality == \A S : L!Cardinality(S) = Cardinality(S)
  BY DEF L!Cardinality, Cardinality

LEMMA RefinesInit == Init => L!Init
  BY DEF Init, L!Init

(* Beyond the walk the paths shown are what was reached.                    *)
LEMMA ShownIsReached ==
  ASSUME NEW s, StackInv, ListInv(s), PathInv(s), ~Walking
  PROVE  Reached(opened) = ToSet(Shown(s))
  <1>1. stack = << >> /\ Walk(stack, opened, Created)
    BY DEF StackInv
  <1>2. Reached(opened) = Created
    BY <1>1, WalkDone
  <1> QED BY <1>2 DEF ListInv, PathInv, Walking

LEMMA PrintRefines ==
  ASSUME TypeOK, NEW s, NEW c, NodesInv(s, c), PrintNode
  PROVE  L!Next
  <1>0. /\ StackInv /\ ListInv(s) /\ PlaceInv(s, c) /\ PathInv(s) /\ OrderInv(s, c)
        /\ NumberInv(s, c) /\ PrintInv(s, c)
    BY DEF NodesInv
  <1>1. /\ pc = "print" /\ pc' = "print" /\ tmp # NULL /\ opened' = opened
        /\ output' = Append(output, [path |-> path[tmp], level |-> level[tmp], i |-> i[tmp]])
    BY DEF PrintNode, At, walk
  <1>2. ~Walking
    BY <1>1 DEF Walking, Linking
  <1>3. c \in 1 .. Len(s) /\ tmp = s[c] /\ Len(s) \in Nat /\ s \in Seq(Path) /\ path \in [Path -> Path]
    BY <1>0, <1>1, NextPlace, NodeFacts DEF TypeOK
  <1>4. PICK w : w = Shown(s)
    OBVIOUS
  <1>5. /\ Listing(w) /\ NeighboursInOrder(w) /\ LinesOf(output, w) /\ Len(output) = c - 1
        /\ \A k \in 1 .. Len(s) : Depth[w[k]] = Depth[s[k]]
    BY <1>0, <1>1, <1>2, <1>4 DEF PathInv, OrderInv, PrintInv, Destroying
  <1>6. Len(w) = Len(s) /\ DOMAIN w = 1 .. Len(s) /\ w[c] = path[tmp] /\ DOMAIN s = 1 .. Len(s)
    BY <1>3, <1>4, ShownFacts
  <1>7. c = Len(output) + 1 /\ c <= Len(w)
    BY <1>3, <1>5, <1>6
  <1>8. PICK p : p = w[c]
    OBVIOUS
  <1>9. /\ p \in ToSet(w) \ PathsOf(output)
        /\ \A q \in (ToSet(w) \ PathsOf(output)) \ {p} : ComesBefore(p, q)
        /\ NumberAt(DepthsOf(w), c) = 1 + Cardinality(SameDepth(output, Depth[p]))
    BY <1>5, <1>7, <1>8, NextLine
  <1>10. level[tmp] = Depth[p] /\ i[tmp] = NumberAt(DepthsOf(w), c)
    <2>1. level[tmp] = Depth[s[c]]
      BY <1>0, <1>3, NodeFacts
    <2>2. i[tmp] = NumberAt(DepthsOf(s), c)
      BY <1>0, <1>1, <1>3 DEF NumberInv
    <2>3. DepthsOf(w) = DepthsOf(s)
      <3>1. DepthsOf(w) = [k \in 1 .. Len(s) |-> Depth[w[k]]]
            /\ DepthsOf(s) = [k \in 1 .. Len(s) |-> Depth[s[k]]]
        BY <1>6 DEF DepthsOf
      <3> QED BY <3>1, <1>5, Zenon
    <2> QED BY <1>3, <1>5, <1>8, <2>1, <2>2, <2>3
  <1>11. output' = Append(output, [path |-> p, level |-> Depth[p],
                                   i |-> 1 + Cardinality(SameDepth(output, Depth[p]))])
    BY <1>1, <1>6, <1>8, <1>9, <1>10, Zenon
  <1>12. L!Waiting = ToSet(w) \ PathsOf(output)
    <2>1. Reached(opened) = ToSet(w)
      BY <1>0, <1>2, <1>4, ShownIsReached
    <2> QED BY <2>1, SameTree DEF L!Waiting, L!Printed, PathsOf
  <1>13. \A q \in L!Waiting \ {p} : L!Precedes(p, q)
    BY <1>9, <1>12, SameTree
  <1>14. SameDepth(output, Depth[p]) = {k \in DOMAIN output : output[k].level = L!Depth[p]}
    BY SameTree DEF SameDepth
  <1>15. output' = Append(output, [path |-> p, level |-> L!Depth[p],
           i |-> 1 + L!Cardinality({k \in DOMAIN output : output[k].level = L!Depth[p]})])
    BY <1>11, <1>14, SameTree, SameCardinality, Zenon
  <1>16. /\ (IF pc = "exited" THEN "exited" ELSE IF pc = "crashed" THEN "failed" ELSE "running") = "running"
         /\ (IF pc' = "exited" THEN "exited" ELSE IF pc' = "crashed" THEN "failed" ELSE "running") = "running"
    BY <1>1
  <1>17. L!List(p)
    BY <1>1, <1>13, <1>15, <1>16, Zenon DEF L!List
  <1> QED BY <1>9, <1>12, <1>17 DEF L!Next

LEMMA RefinesNext == TypeOK /\ DirListInv /\ [Next]_vars => [L!Next]_(L!vars)
  <1> SUFFICES ASSUME TypeOK, DirListInv, [Next]_vars PROVE [L!Next]_(L!vars)
    OBVIOUS
  <1>0. PICK s, c : NodesInv(s, c)
    BY DEF DirListInv
  <1>1. CASE OpenDir
    <2> DEFINE d == Last(stack).dir
    <2>1. /\ pc = "opendir" /\ pc' = "readdir" /\ opened' = opened \cup {d}
          /\ Kind[d] \in {"dir", "dirlink"} /\ output' = output
      BY <1>1 DEF OpenDir, Top
    <2>2. d \in Reached(opened) /\ d \notin opened
      BY <1>0, <1>1, OpenDirKeeps
    <2>3. output = << >>
      BY <1>0, <2>1 DEF NodesInv, PrintInv, Walking, Destroying
    <2>4. L!Open(d)
      BY <2>1, <2>3 DEF L!Open
    <2> QED BY <2>2, <2>4, SameTree DEF L!Next
  <1>2. CASE PrintNode
    BY <1>0, <1>2, PrintRefines
  <1>3. CASE Exit
    <2>1. pc = "destroy" /\ pc' = "exited" /\ UNCHANGED <<opened, output>>
      BY <1>3 DEF Exit, At, walk
    <2>2. ~Walking /\ StackInv /\ ListInv(s) /\ PathInv(s) /\ PrintInv(s, c)
      BY <1>0, <2>1 DEF NodesInv, Walking, Linking
    <2>3. Reached(opened) \subseteq PathsOf(output)
      BY <2>1, <2>2, ShownIsReached DEF PrintInv, Destroying
    <2>4. L!Waiting = {}
      BY <2>3, SameTree DEF L!Waiting, L!Printed, PathsOf
    <2> QED BY <2>1, <2>4 DEF L!Next, L!Finish
  <1>4. CASE PrintFaults
    <2>1. pc = "print" /\ pc' = "crashed" /\ UNCHANGED <<opened, output>>
      BY <1>4 DEF PrintFaults, At, walk
    <2> QED BY <2>1 DEF L!Next, L!Fail
  <1>5. CASE \/ InsertFirst \/ ScanFromHead \/ Scan \/ insert_sorted \/ OpenDirFails \/ CloseDir
             \/ (\E e \in Path : SkipEntry(e) \/ AddNode(e))
             \/ KeepOrder \/ SwapPaths \/ PassAgain \/ SortEnds \/ sub_level \/ NumberEnds
             \/ PrintEnds \/ TakeNode \/ ReadNext \/ FreeNode
    <2>1. /\ pc \notin {"exited", "crashed"} /\ pc' \notin {"exited", "crashed"}
          /\ UNCHANGED <<opened, output>>
      BY <1>5 DEF InsertFirst, ScanFromHead, Scan, insert_sorted, Link, Inserted, OpenDirFails,
           CloseDir, Return, SkipEntry, AddNode, KeepOrder, KeepOrderTo, SwapPaths, PassAgain,
           PassWith, SortEnds, sub_level, NumberWith, NumberEnds, PrintEnds, TakeNode, ReadNext,
           FreeNode, Body, Behind, At, walk
    <2> QED BY <2>1 DEF L!vars
  <1>6. CASE UNCHANGED vars
    BY <1>6 DEF vars, walk, L!vars
  <1> QED BY <1>1, <1>2, <1>3, <1>4, <1>5, <1>6 DEF Next

(* The program prints the listing of Lister, line by line, for every tree   *)
(* and every order of readdir: the nodes stay in the order of the depths,   *)
(* an exchange keeps each path at its depth, and a pass that exchanges      *)
(* nothing leaves all paths in order.                                       *)
THEOREM ListerRefined == Spec => IsLister
  BY RefinesInit, RefinesNext, DirListInvCorrect, PTL DEF Spec, IsLister, L!Spec
=============================================================================
