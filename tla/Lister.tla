------------------------------- MODULE Lister -------------------------------
(***************************************************************************)
(* What every directory lister of the repository promises, whatever its     *)
(* list is made of and whoever counts the keyword: directories are opened   *)
(* from the root down, and once the first line is printed the lines come in *)
(* order, each with its depth and its number within the depth, until every  *)
(* path that was reached is printed or the program fails.                   *)
(***************************************************************************)
EXTENDS DirTree

VARIABLES
  opened,   \* the directories that could be opened
  lines,    \* the lines printed so far, without the counts
  status    \* "running", "exited" or "failed"

vars == <<opened, lines, status>>

Printed == {lines[k].path : k \in DOMAIN lines}
Waiting == Reached(opened) \ Printed

(* The order of the listing: by depth, then by strcmp.                      *)
Precedes(p, q) == Depth[p] < Depth[q] \/ (Depth[p] = Depth[q] /\ Rank[p] < Rank[q])

-----------------------------------------------------------------------------
Init == opened = {} /\ lines = << >> /\ status = "running"

Open(d) ==
  /\ status = "running" /\ lines = << >> /\ Kind[d] \in {"dir", "dirlink"}
  /\ opened' = opened \cup {d}
  /\ UNCHANGED <<lines, status>>

List(p) ==
  /\ status = "running" /\ \A q \in Waiting \ {p} : Precedes(p, q)
  /\ lines' = Append(lines, [path |-> p, level |-> Depth[p],
       i |-> 1 + Cardinality({k \in DOMAIN lines : lines[k].level = Depth[p]})])
  /\ UNCHANGED <<opened, status>>

Finish == status = "running" /\ Waiting = {} /\ status' = "exited" /\ UNCHANGED <<opened, lines>>

Fail == status = "running" /\ status' = "failed" /\ UNCHANGED <<opened, lines>>

Next ==
  \/ \E d \in Reached(opened) \ opened : Open(d)
  \/ \E p \in Waiting : List(p)
  \/ Finish \/ Fail

Spec == Init /\ [][Next]_vars
=============================================================================
