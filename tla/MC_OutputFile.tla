---------------------------- MODULE MC_OutputFile ----------------------------
(* Two children with a file each, one of which has two lines to write.      *)
EXTENDS OutputFile, TLC

CONSTANTS c1, c2, a, b

Files == (a :> c1) @@ (b :> c2)
Lines == (a :> 1) @@ (b :> 2)
=============================================================================
