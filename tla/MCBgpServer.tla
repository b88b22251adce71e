----------------------------- MODULE MCBgpServer -----------------------------
(* One plugin through two sessions; a deleted and a new one; AddPeer for a   *)
(* peer that exists; a deletion that overtakes a timeout.                    *)
EXTENDS BgpServer

Twice == [again |-> FALSE, hasty |-> FALSE, adds |-> 1, ups |-> 2]
Anew == [again |-> FALSE, hasty |-> FALSE, adds |-> 2, ups |-> 1]
Again == [again |-> TRUE, hasty |-> FALSE, adds |-> 2, ups |-> 1]
Hasty == [again |-> FALSE, hasty |-> TRUE, adds |-> 1, ups |-> 2]
AllModes == {Twice, Anew, Again, Hasty}
==============================================================================
