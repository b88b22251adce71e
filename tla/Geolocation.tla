----------------------------- MODULE Geolocation -----------------------------
(***************************************************************************)
(* The geolocation program: probes, placed at an exchange and below parent *)
(* devices of the serviceability ledger, and users with the targets each   *)
(* of their probes is to measure.  One action per instruction, as in       *)
(* Registry.  Accounts of both kinds are derived from their code, so a     *)
(* deleted one can be created again.                                       *)
(*                                                                         *)
(* Left out: addresses, ports, token accounts and billing, which nothing   *)
(* here depends on, the user status, which no instruction changes, and who *)
(* may sign.                                                               *)
(***************************************************************************)
EXTENDS Registry, SequencesExt

CONSTANTS
  GeoUsers, Probes,
  Hosts,          \* what targets name: an address or, Inbound, a key
  Dests,          \* result destinations
  MaxParents,     \* MAX_PARENT_DEVICES
  MaxTargets      \* MAX_TARGETS

VARIABLES probe, guser

geolocation == <<probe, guser>>

NoProbe == [st |-> "none", exch |-> NoKey, refs |-> 0, updates |-> 0, parents |-> {}]
NoGeoUser == [st |-> "none", paid |-> FALSE, targets |-> <<>>, dest |-> NoKey]

\* A target is identified for removal by kind, probe and host; alt stands for
\* the field of the other kind of target (target_pk, ip_address), which only
\* the test for duplicates compares.
Target(kind, host, alt, p) == [kind |-> kind, host |-> host, alt |-> alt, probe |-> p]

-----------------------------------------------------------------------------

CreateGeoProbe(p, x) ==
  /\ probe[p].st = "none"
  /\ exchange[x].st = "Activated"
  /\ probe' = [probe EXCEPT ![p] = [NoProbe EXCEPT !.st = "Activated", !.exch = x]]
  /\ UNCHANGED guser

DeleteGeoProbe(p) ==
  /\ Live(probe[p]) /\ probe[p].refs = 0
  /\ probe' = [probe EXCEPT ![p] = NoProbe]
  /\ UNCHANGED guser

AddParentDevice(p, d) ==
  /\ Live(probe[p]) /\ device[d].st = "Activated"
  /\ d \notin probe[p].parents /\ Cardinality(probe[p].parents) < MaxParents
  /\ probe' = [probe EXCEPT ![p].parents = @ \cup {d}]
  /\ UNCHANGED guser

\* The device itself is not looked at: it may have been deleted meanwhile.
RemoveParentDevice(p, d) ==
  /\ Live(probe[p]) /\ d \in probe[p].parents
  /\ probe' = [probe EXCEPT ![p].parents = @ \ {d}]
  /\ UNCHANGED guser

CreateGeoUser(u) ==
  /\ guser[u].st = "none"
  /\ guser' = [guser EXCEPT ![u].st = "Activated"]
  /\ UNCHANGED probe

DeleteGeoUser(u) ==
  /\ Live(guser[u]) /\ guser[u].targets = <<>>
  /\ guser' = [guser EXCEPT ![u] = NoGeoUser]
  /\ UNCHANGED probe

UpdatePaymentStatus(u, paid) ==
  /\ Live(guser[u])
  /\ guser' = [guser EXCEPT ![u].paid = paid]
  /\ UNCHANGED probe

\* target_update_count tells the agent of probe p that its targets changed.
Bumped(rec, by) == [rec EXCEPT !.refs = by, !.updates = @ + 1]

AddTarget(u, t) ==
  LET p == t.probe IN
  /\ Live(guser[u]) /\ Live(probe[p])
  /\ Len(guser[u].targets) < MaxTargets
  /\ ~Contains(guser[u].targets, t)
  /\ guser' = [guser EXCEPT ![u].targets = Append(@, t)]
  /\ probe' = [probe EXCEPT ![p] = Bumped(@, @.refs + 1)]

\* TargetsCursor::find_match: the first target that agrees, 0 if none does.
FindMatch(s, kind, host, p) ==
  SelectInSeq(s, LAMBDA t : t.kind = kind /\ t.host = host /\ t.probe = p)

\* swap_remove_target_bytes: the last target takes the place of the one removed.
SwapRemove(s, i) == Front(ReplaceAt(s, i, Last(s)))

RemoveTarget(u, kind, host, p) ==
  LET s == guser[u].targets
      i == FindMatch(s, kind, host, p)
  IN /\ Live(guser[u]) /\ Live(probe[p]) /\ i # 0
     /\ guser' = [guser EXCEPT ![u].targets = SwapRemove(@, i)]
     /\ probe' = [probe EXCEPT ![p] = Bumped(@, Less(@.refs))]

\* The probes supplied must be exactly those the targets name.
ProbesOf(u) == {guser[u].targets[i].probe : i \in DOMAIN guser[u].targets}

\* The destination is changed and no probe told of it.
SetResultDestinationUncounted(u, dest) ==
  /\ Live(guser[u])
  /\ \A p \in ProbesOf(u) : Live(probe[p])
  /\ guser' = [guser EXCEPT ![u].dest = dest]
  /\ UNCHANGED probe

SetResultDestination(u, dest) ==
  /\ Live(guser[u])
  /\ \A p \in ProbesOf(u) : Live(probe[p])
  /\ guser' = [guser EXCEPT ![u].dest = dest]
  /\ probe' = [p \in Probes |-> IF p \in ProbesOf(u) THEN Bumped(probe[p], probe[p].refs)
                                ELSE probe[p]]
=============================================================================
