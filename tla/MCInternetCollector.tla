------------------------ MODULE MCInternetCollector ------------------------
(***************************************************************************)
(* RIPE Atlas: two locations (one wanted measurement) with faults, or      *)
(* three locations (two, the first with two sources) without.  Location 1  *)
(* has an anchor and a fallback probe, location 2 two anchors.             *)
(* Wheresitup: two locations, or three of which the first and the third    *)
(* share a source.                                                         *)
(***************************************************************************)
EXTENDS InternetCollector

MCNear == << <<11>>, <<21, 22>>, <<31>> >>
MCFallback == << <<12>>, <<>>, <<>> >>
MCWNear == << <<"a", "b">>, <<"c">>, <<"d", "a">> >>

\* Locations, hours, results, failed calls, crashes, expired marks.
Env(l, h, a, f, c, e, ordered, late) ==
    [locs |-> l, hours |-> h, answers |-> a, faults |-> f, crashes |-> c,
     expiries |-> e, ordered |-> ordered, late |-> late, calm |-> l > 2]

MCMode == {
    Env(2, 1, 1, 2, 0, 0, TRUE, FALSE),     \* two calls fail
    Env(2, 1, 1, 1, 1, 0, TRUE, FALSE),     \* a crash, and a call fails
    Env(2, 2, 1, 0, 1, 0, TRUE, FALSE),     \* a crash, an hour passes
    Env(2, 3, 1, 0, 0, 1, TRUE, FALSE),     \* a probe falls silent, its mark expires
    Env(2, 2, 2, 1, 0, 0, TRUE, TRUE),      \* results, some late, and a failure
    Env(2, 1, 1, 1, 0, 0, FALSE, FALSE),    \* measurements listed in any order
    Env(3, 3, 2, 0, 0, 0, TRUE, FALSE)}     \* one of two sources falls silent

\* Locations, jobs, hours, failed calls, crashes.
WEnv(l, j, h, f, c) ==
    [locs |-> l, jobs |-> j, hours |-> h, faults |-> f, crashes |-> c]

MCWMode == {
    WEnv(2, 2, 3, 1, 0),        \* jobs reach their age, and a call fails
    WEnv(2, 2, 3, 0, 1),        \* jobs reach their age, and a crash
    WEnv(2, 2, 1, 2, 0),        \* two calls fail
    WEnv(3, 3, 1, 1, 0)}        \* three pairs, and a call fails
=============================================================================
