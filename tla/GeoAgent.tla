------------------------------- MODULE GeoAgent -------------------------------
(***************************************************************************)
(* How the agent of one probe follows the targets on the ledger.  Every    *)
(* interval one goroutine reads the probe's account, for its update count, *)
(* and then scans all users, unless the count is the one it last acted on; *)
(* every RefreshEvery-th time it scans in any case.  What changed is       *)
(* handed to the measurement loop through a channel of one per kind.       *)
(*                                                                         *)
(* Either read may fail.  A later read is at least as recent.  Resolving   *)
(* the parent devices, which the same tick does, is left out.              *)
(***************************************************************************)
EXTENDS Geolocation

CONSTANTS
  Me,             \* the agent's probe
  Kinds,          \* the kinds of target, each with its channel
  RefreshEvery    \* targetDiscoveryFullRefreshEvery

VARIABLE agent

Nothing == [n |-> [h \in Hosts |-> 0], dest |-> [h \in Hosts |-> NoKey]]
NoUpdate == [n |-> <<>>, dest |-> <<>>]   \* an empty channel

NewAgent ==
  [pc |-> "wait", tick |-> 0, count |-> 0, lastSeen |-> 0,
   cached |-> [k \in Kinds |-> Nothing],    \* what discovery last sent, or tried to
   ch |-> [k \in Kinds |-> NoUpdate],
   run |-> [k \in Kinds |-> Nothing],       \* what the measurement loop works with
   sure |-> FALSE]   \* history: nothing but counted changes since the last scan

\* The targets of kind k at host h that paying users have for this probe.
Mine(k, h) ==
  {e \in GeoUsers \X (1..MaxTargets) :
     /\ guser[e[1]].paid /\ e[2] <= Len(guser[e[1]].targets)
     /\ LET t == guser[e[1]].targets[e[2]] IN t.probe = Me /\ t.kind = k /\ t.host = h}

\* Addresses are listed as often as they occur, keys once.
Listed(k) ==
  [h \in Hosts |-> LET n == Cardinality(Mine(k, h)) IN IF k = "Inbound" /\ n > 1 THEN 1 ELSE n]

\* Where results for h may go: the users come in no particular order and the
\* last one with a destination wins.
Overrides(k, h) ==
  LET d == {guser[e[1]].dest : e \in Mine(k, h)} \ {NoKey}
  IN  IF d = {} \/ k = "Inbound" THEN {NoKey} ELSE d

Scans(k) ==
  {[n |-> Listed(k), dest |-> f] :
     f \in {g \in [Hosts -> Dests \cup {NoKey}] : \A h \in Hosts : g[h] \in Overrides(k, h)}}

ReadProbe(ok) ==
  /\ agent.pc = "wait"
  /\ agent' = [agent EXCEPT !.pc = "scan",
                            !.count = IF ok /\ Live(probe[Me]) THEN probe[Me].updates ELSE @]

Forced == agent.tick = 0
Ticked == [agent EXCEPT !.pc = "wait", !.tick = (@ + 1) % RefreshEvery]

SkipScan ==
  /\ agent.pc = "scan" /\ ~Forced /\ agent.count = agent.lastSeen
  /\ agent' = Ticked

\* The count is remembered before the users are fetched.
ScanFails ==
  /\ agent.pc = "scan" /\ (Forced \/ agent.count # agent.lastSeen)
  /\ agent' = [Ticked EXCEPT !.lastSeen = IF Forced THEN @ ELSE agent.count,
                             !.sure = @ /\ Forced]

\* The count may still be one of an earlier account of this probe.
\* A scan that finds no target of any kind is taken for one that was skipped.
\* An update that finds its channel full is dropped, but cached all the same;
\* careful: the measurement loop takes an update within the interval.
Scan ==
  /\ agent.pc = "scan" /\ (Forced \/ agent.count # agent.lastSeen)
  /\ mode.careful => \A k \in Kinds : agent.ch[k] = NoUpdate
  /\ \E v \in {f \in [Kinds -> UNION {Scans(k) : k \in Kinds}] : \A k \in Kinds : f[k] \in Scans(k)} :
       LET found == \E k \in Kinds : v[k].n # Nothing.n
           after == [Ticked EXCEPT !.lastSeen = agent.count,
                                   !.sure = agent.count <= probe[Me].updates]
       IN agent' = IF ~found THEN after
                   ELSE [after EXCEPT
                          !.cached = v,
                          !.ch = [k \in Kinds |->
                                    IF v[k] # agent.cached[k] /\ agent.ch[k] = NoUpdate
                                    THEN v[k] ELSE agent.ch[k]]]

\* measurementLoop.run: the targets of the update replace the ones before.
TakeUpdate(k) ==
  /\ agent.ch[k] # NoUpdate
  /\ agent' = [agent EXCEPT !.run[k] = agent.ch[k], !.ch[k] = NoUpdate]

RestartAgent == agent # NewAgent /\ agent' = NewAgent

\* Payments are not counted, and a probe created again counts from zero.
Uncounted == agent' = [agent EXCEPT !.sure = FALSE]
=============================================================================
