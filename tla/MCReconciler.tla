---------------------------- MODULE MCReconciler ----------------------------
(* Environments for model-checking the reconciler.                            *)
EXTENDS Reconciler

CONSTANTS e1, e2

Uni(kind, e) == [kind |-> kind, ep |-> e, pub |-> {}, sub |-> {}]
Multi(e, p, s) == [kind |-> "multicast", ep |-> e, pub |-> p, sub |-> s]

Bounds(chg, cmd, http, crash) ==
    [w \in {"chain", "cmd", "http", "crash"} |->
        CASE w = "chain" -> chg [] w = "cmd" -> cmd
          [] w = "http" -> http [] w = "crash" -> crash]

Disjoint == {Multi(e1, x[1], x[2]) :
                x \in {y \in (SUBSET Group) \X (SUBSET Group) :
                          y[1] \cap y[2] = {} /\ y[1] \cup y[2] # {}}}

\* Groups come, go and change roles; one move to another endpoint.
GroupMode ==
    [uni |-> {}, multi |-> Disjoint \cup {Multi(e2, {}, Group)},
     patient |-> TRUE, apart |-> TRUE, left |-> Bounds(3, 1, 0, 0), faults |-> 0]

\* Both services, direct provision and remove calls beside the loop.
BothMode ==
    [uni |-> {Uni("ibrl", e1), Uni("edge", e2)}, multi |-> {Multi(e1, {}, Group)},
     patient |-> TRUE, apart |-> TRUE, left |-> Bounds(3, 1, 1, 0), faults |-> 0]

\* Direct calls for a multicast service whose groups and role change.
ServeMode ==
    [uni |-> {}, multi |-> {Multi(e1, {}, {g}) : g \in Group} \cup {Multi(e1, Group, {})},
     patient |-> TRUE, apart |-> TRUE, left |-> Bounds(2, 0, 2, 0), faults |-> 0]

\* A unicast tunnel under failing calls, crashes and restarts.
FlakyMode ==
    [uni |-> {Uni("ibrl", e1)}, multi |-> {},
     patient |-> TRUE, apart |-> TRUE, left |-> Bounds(3, 1, 0, 1), faults |-> 2]

\* A subscriber whose tunnel fails to be removed once.
StuckMode ==
    [uni |-> {}, multi |-> {Multi(e1, {}, Group)},
     patient |-> TRUE, apart |-> TRUE, left |-> Bounds(2, 0, 0, 0), faults |-> 1]

\* Commands given while the loop is busy or another command is pending.
HastyMode ==
    [uni |-> {Uni("ibrl", e1)}, multi |-> {},
     patient |-> FALSE, apart |-> FALSE, left |-> Bounds(1, 2, 0, 0), faults |-> 0]

\* A group may be published and subscribed at once.
OverlapMode ==
    [uni |-> {}, multi |-> Disjoint \cup {Multi(e1, Group, {g}) : g \in Group},
     patient |-> TRUE, apart |-> TRUE, left |-> Bounds(2, 0, 0, 0), faults |-> 0]

AllModes == {GroupMode, BothMode, ServeMode, FlakyMode, StuckMode, HastyMode, OverlapMode}
=============================================================================
