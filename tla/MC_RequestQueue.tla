-------------------------- MODULE MC_RequestQueue --------------------------
(* Small instances of RequestQueue for TLC.                                 *)
EXTENDS RequestQueue, TLC

CONSTANTS r1, r2, c1, c2, d1, d2

MCRequest == {r1, r2}
MCDir     == {d1, d2}
OneDir    == {d1}
MCClient  == {c1, c2}

(* One directory for both requests, or one for each.                        *)
SameDir   == r1 :> d1 @@ r2 :> d1
OtherDir  == r1 :> d1 @@ r2 :> d2

(* A client with the two requests and one that only sends "exit".           *)
ExitScript == c1 :> <<r1, r2>> @@ c2 :> <<ExitReq>>

(* A request for each client.                                               *)
PlainScript == c1 :> <<r1>> @@ c2 :> <<r2>>
=============================================================================
