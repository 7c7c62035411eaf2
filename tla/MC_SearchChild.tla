--------------------------- MODULE MC_SearchChild ---------------------------
(* Small instances of SearchChild for TLC: two files that hold the keyword, *)
(* one line of the first twice, an entry openDir skips and one search_test  *)
(* returns from.                                                            *)
EXTENDS SearchChild, TLC

CONSTANTS f1, f2, l1, h1, key, other

MCEntry == {f1, f2, l1, h1}
MCKind  == f1 :> "file" @@ f2 :> "file" @@ l1 :> "dirlink" @@ h1 :> "hidden"
MCText  == f1 :> << <<key, other, key>>, <<other>>, <<key>> >>
        @@ f2 :> << << >>, <<other, key>> >>
        @@ l1 :> << <<key>> >>
        @@ h1 :> << <<key>> >>
MCWord  == {key, other}
=============================================================================
