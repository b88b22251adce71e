------------------------ MODULE MCLivenessScheduler ------------------------
(* LivenessScheduler with a peer that comes Up, goes Down and goes silent.  *)
EXTENDS LivenessScheduler

MCCfg == [detectMult |-> 2, txMin |-> 1, rxMin |-> 1,
          minTxFloor |-> 1, maxTxCeil |-> 1, backoffMax |-> 2]
Pkt(state, echo) ==
  [state |-> state, localDiscr |-> 2, peerDiscr |-> echo,
   txMin |-> 1, rxMin |-> 1, passive |-> FALSE]

Any == [packets |-> {Pkt(Down, 1), Pkt(Init_, 1), Pkt(Up, 1)}, callers |-> TRUE,
        maxEvents |-> 0, maxTime |-> 4]
\* A full queue; nothing but Up packets, for long enough to time out twice.
Full == [Any EXCEPT !.packets = {Pkt(Up, 1)}, !.maxEvents = 1]
Silent == [Any EXCEPT !.packets = {Pkt(Up, 1)}, !.callers = FALSE, !.maxTime = 8]

\* Silence when the detect event has been dropped.
Dropped == [Silent EXCEPT !.maxEvents = 1]

Scenarios == {Any, Full, Silent, Dropped}
=============================================================================
