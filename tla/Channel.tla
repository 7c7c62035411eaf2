------------------------------ MODULE Channel ------------------------------
(***************************************************************************)
(* What the ring of a child and the request segment promise: a bounded      *)
(* first-in first-out channel that loses, repeats and reorders nothing.     *)
(***************************************************************************)
EXTENDS Naturals, Sequences

CONSTANTS Msg,      \* what is sent
          Capacity  \* how many may be on the way

VARIABLES chan,       \* on the way
          delivered   \* received, in order

ChanInit == chan = << >> /\ delivered = << >>

Send(m) ==
  /\ Len(chan) < Capacity
  /\ chan' = Append(chan, m)
  /\ UNCHANGED delivered

Receive ==
  /\ chan # << >>
  /\ delivered' = Append(delivered, Head(chan))
  /\ chan' = Tail(chan)

ChanNext == (\E m \in Msg : Send(m)) \/ Receive

ChanSpec == ChanInit /\ [][ChanNext]_<<chan, delivered>>
=============================================================================
