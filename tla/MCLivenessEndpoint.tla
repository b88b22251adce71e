------------------------- MODULE MCLivenessEndpoint -------------------------
(* A model of LivenessEndpoint: a peer that restarts (two discriminators)  *)
(* and advertises intervals below the floor, in range and above the ceiling. *)
EXTENDS LivenessEndpoint

MCCfg == [detectMult |-> 2, txMin |-> 1, rxMin |-> 1,
          minTxFloor |-> 1, maxTxCeil |-> 2, backoffMax |-> 5]
=============================================================================
