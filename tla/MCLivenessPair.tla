--------------------------- MODULE MCLivenessPair ---------------------------
(* LivenessPair with the proportions of the default configuration (300ms,  *)
(* three missed packets, backoff to 1s): the longest backoff exceeds the   *)
(* detect time.  SmallCfg is for the scenario in which sessions restart.   *)
EXTENDS LivenessPair, TLC

CONSTANTS a, b

MCHost == {a, b}
MCCfg == [detectMult |-> 3, txMin |-> 1, rxMin |-> 1,
          minTxFloor |-> 1, maxTxCeil |-> 1, backoffMax |-> 4]
SmallCfg == [MCCfg EXCEPT !.detectMult = 2, !.backoffMax = 2]
OneLife == a :> <<1>> @@ b :> <<2>>
TwoLives == a :> <<1>> @@ b :> <<2, 3>>

\* The network becomes stable, delivering to both hosts or to one only.
Stable == [cfg |-> MCCfg, discrs |-> OneLife, maxNet |-> 1,
           cuts |-> {{}, {a}}, admin |-> TRUE]

\* It never does, holds two packets, and one host restarts.
Lossy == [cfg |-> SmallCfg, discrs |-> TwoLives, maxNet |-> 2,
          cuts |-> {}, admin |-> TRUE]

MCScenario == {Stable}
LossyScenario == {Lossy}
=============================================================================
