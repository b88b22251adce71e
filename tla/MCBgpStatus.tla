----------------------------- MODULE MCBgpStatus -----------------------------
(* One user through every kind of trouble, and two users of two namespaces  *)
(* that share a queue with a single place.                                  *)
EXTENDS BgpStatus, TLC

CONSTANTS u1, u2

MCNetns == u1 :> "ns1" @@ u2 :> "ns2"

Alone == [users |-> {u1}, moves |-> 3, faults |-> 2, sure |-> TRUE, restart |-> TRUE]
Unsure == [Alone EXCEPT !.sure = FALSE]
Two == [users |-> {u1, u2}, moves |-> 2, faults |-> 1, sure |-> TRUE, restart |-> FALSE]
SoundModes == {Alone, Unsure, Two}
==============================================================================
