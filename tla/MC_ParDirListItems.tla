------------------------- MODULE MC_ParDirListItems -------------------------
(* A small tree for ParDirListItems: a root with a subdirectory and two files, *)
(* one of which cannot be opened and one of which holds the keyword twice,  *)
(* below the subdirectory a file, a link to a directory and a hidden entry; *)
(* of the orders in which readdir may return them SortHelper has to change  *)
(* all but one.                                                             *)
EXTENDS ParDirListItems, TLC

CONSTANTS top, sub, f1, f2, f3, ln, h1, key, other

MCPath    == {top, sub, f1, f2, f3, ln, h1}
MCEntries == [p \in MCPath |-> CASE p = top -> {sub, f1, f2}
                                 [] p = sub -> {f3, ln, h1}
                                 [] OTHER   -> {}]
MCKind    == top :> "dir" @@ sub :> "dir" @@ f1 :> "file" @@ f2 :> "unreadable"
          @@ f3 :> "file" @@ ln :> "dirlink" @@ h1 :> "hidden"
MCText    == [p \in MCPath |-> CASE p = f1 -> << <<key, other, key>> >>
                                 [] p = f3 -> << << >>, <<other, key>> >>
                                 [] OTHER  -> << >>]
MCWord    == {key, other}
MCRank    == top :> 1 @@ sub :> 3 @@ f1 :> 2 @@ f2 :> 4 @@ f3 :> 6 @@ ln :> 5 @@ h1 :> 7
=============================================================================
