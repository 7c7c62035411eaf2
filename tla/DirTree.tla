------------------------------ MODULE DirTree ------------------------------
(***************************************************************************)
(* What the directory listers share: the tree they walk, the search of one  *)
(* file, and the list of nodes sorted by depth.  The names are those of     *)
(* Lin/pardirlist/pardirlist.c; Project2-5243528/pardirlist.c has the same  *)
(* in search_test, AddPath and NumberChildren.                              *)
(***************************************************************************)
EXTENDS Integers, Sequences, FiniteSets, SequencesExt

CONSTANTS
  Path,      \* the paths of the tree
  Root,      \* argv[1]
  Entries,   \* Entries[d]: what readdir returns for d
  Kind,      \* what opendir, fopen and d_type say of a path
  Text,      \* Text[p]: the lines of p, each one the sequence of its words
  Word,
  Keyword,   \* argv[2]
  Rank       \* Rank[p] > Rank[q]: strcmp(p, q) > 0

PathKind == {"hidden", "dir", "dirlink", "unreadable", "file"}

(* Finitely many paths; each has one parent, and the root is above them all. *)
ASSUME TreeAssumption ==
  /\ IsFiniteSet(Path) /\ Root \in Path
  /\ Kind \in [Path -> PathKind] /\ Entries \in [Path -> SUBSET (Path \ {Root})]
  /\ \A d, e \in Path : d # e => Entries[d] \cap Entries[e] = {}
  /\ \A S \in SUBSET (Path \ {Root}) : S # {} => \E d \in Path \ S : Entries[d] \cap S # {}
  /\ Text \in [Path -> Seq(Seq(Word))]
  /\ Rank \in [Path -> Nat] /\ \A p, q \in Path : Rank[p] = Rank[q] => p = q

-----------------------------------------------------------------------------
(* The words of p equal to the keyword, each known by its line and place.   *)
Matches(p) ==
  UNION {{k} \X {w \in DOMAIN Text[p][k] : Text[p][k][w] = Keyword} : k \in DOMAIN Text[p]}

(* What keyword_search returns for p: 0 for what opendir accepts, -1 for    *)
(* what fopen refuses, else the number of matches.  The search's opendir    *)
(* accepts every directory, also one that the walk's has refused.           *)
keyword_search(p) ==
  CASE Kind[p] \in {"dir", "dirlink"} -> 0
    [] Kind[p] = "unreadable"         -> -1
    [] OTHER                          -> Cardinality(Matches(p))

(* Where insert_sorted puts a node of depth x into a list with these        *)
(* depths: it goes on from the head while the next node is less deep, then  *)
(* inserts behind that node, or in front of the head.                       *)
Passed(levels, x) == {k \in DOMAIN levels : \A j \in 2 .. k : levels[j] < x}

PlaceOf(levels, x) ==
  LET tmp == Cardinality(Passed(levels, x))
  IN  IF levels = << >> \/ x < levels[tmp] THEN 1 ELSE tmp + 1

(* The number sub_level gives to the k-th node: it counts from 1 in every   *)
(* run of nodes of one depth.                                               *)
NumberAt(levels, k) == Cardinality({j \in 1 .. k : \A m \in j .. k : levels[m] = levels[k]})

-----------------------------------------------------------------------------
(* The root and the visible entries of the opened directories.              *)
Reached(opened) == {Root} \cup {e \in UNION {Entries[d] : d \in opened} : Kind[e] # "hidden"}

(* How deep in the tree a path is.                                          *)
Depth[p \in Path] ==
  IF p = Root THEN 1 ELSE 1 + Depth[CHOOSE d \in Path : p \in Entries[d]]
=============================================================================
