----------------------------- MODULE MC_DirList -----------------------------
(* A root with a file, a hidden entry and two subdirectories, of which the  *)
(* one that sorts first has the file that sorts last: depths alternate in   *)
(* the walk, and node_swap needs several passes for most orders of readdir. *)
EXTENDS DirList, TLC

CONSTANTS top, d1, d2, f1, f2, f3, ln, h1

MCPath    == {top, d1, d2, f1, f2, f3, ln, h1}
MCEntries == [p \in MCPath |-> CASE p = top -> {d1, d2, f1, h1}
                                 [] p = d1  -> {f2, ln}
                                 [] p = d2  -> {f3}
                                 [] OTHER   -> {}]
MCKind    == top :> "dir" @@ d1 :> "dir" @@ d2 :> "dir" @@ f1 :> "file" @@ f2 :> "file"
          @@ f3 :> "unreadable" @@ ln :> "dirlink" @@ h1 :> "hidden"
MCText    == [p \in MCPath |-> << >>]
MCRank    == top :> 1 @@ d1 :> 2 @@ d2 :> 4 @@ f1 :> 3 @@ f2 :> 7 @@ f3 :> 6 @@ ln :> 5 @@ h1 :> 8
=============================================================================
