------------------------- MODULE MCLatencySubmitter -------------------------
(* Both agents with calls that fail until the attempts are used up, and with *)
(* a restart; an account that fills up with duplicates while the buffer      *)
(* fills up as well.                                                         *)
EXTENDS LatencySubmitter

Env(kind, a, f, l, n) ==
  [kind |-> kind, attempts |-> a, faults |-> f, lives |-> l, samples |-> n]

Agents ==
  UNION {{Env(kind, 2, 2, 0, 3), Env(kind, 2, 0, 1, 3)} : kind \in {"device", "internet"}}
    \cup {Env("device", 1, 2, 0, 4)}
=============================================================================
