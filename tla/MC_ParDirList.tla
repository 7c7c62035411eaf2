--------------------------- MODULE MC_ParDirList ---------------------------
(* A small tree for ParDirList: a root with a file that holds the keyword   *)
(* twice, one that cannot be opened and a subdirectory with a hidden entry. *)
(* The three have different counts, and of the orders in which readdir may  *)
(* return them node_swap has to change all but one.                         *)
EXTENDS ParDirList, TLC

CONSTANTS top, sub, f1, f2, h1, key, other

MCPath    == {top, sub, f1, f2, h1}
MCEntries == [p \in MCPath |-> CASE p = top -> {sub, f1, f2}
                                 [] p = sub -> {h1}
                                 [] OTHER   -> {}]
MCKind    == top :> "dir" @@ sub :> "dir" @@ f1 :> "file" @@ f2 :> "unreadable" @@ h1 :> "hidden"
MCText    == [p \in MCPath |-> IF p = f1 THEN << <<key, other>>, << >>, <<key>> >> ELSE << >>]
MCWord    == {key, other}
MCRank    == top :> 1 @@ sub :> 3 @@ f1 :> 2 @@ f2 :> 4 @@ h1 :> 5
=============================================================================
