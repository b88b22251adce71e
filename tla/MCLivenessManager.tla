------------------------- MODULE MCLivenessManager -------------------------
(* LivenessManager with sessions that come and go.                         *)
EXTENDS LivenessManager

CONSTANTS k1, k2

Plain == [passiveMode |-> FALSE, honorPassive |-> FALSE, noUninstall |-> FALSE,
          serial |-> FALSE, mayFail |-> FALSE, mayAdmin |-> FALSE, routes |-> {k1}]

\* Callbacks that overlap and kernel calls that fail, with and without
\* PassiveMode; routes that stay in the kernel; two routes whose callbacks do not overlap.
Overlap == [Plain EXCEPT !.honorPassive = TRUE, !.mayFail = TRUE, !.mayAdmin = TRUE]
Passive == [Plain EXCEPT !.passiveMode = TRUE, !.mayFail = TRUE, !.mayAdmin = TRUE]
Kept == [Overlap EXCEPT !.noUninstall = TRUE, !.honorPassive = FALSE, !.mayFail = FALSE]
Serial == [Plain EXCEPT !.serial = TRUE, !.mayAdmin = TRUE, !.routes = {k1, k2}]

AllModes == {Overlap, Passive, Kept, Serial}
=============================================================================
