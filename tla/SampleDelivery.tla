--------------------------- MODULE SampleDelivery ---------------------------
(***************************************************************************)
(* What the latency agents promise of the samples they collect: a sample   *)
(* is given up only once it is on the ledger or for a stated reason, and   *)
(* none is held for ever.  Accounts on the ledger only grow.               *)
(***************************************************************************)
EXTENDS Naturals, Sequences, FiniteSets, Functions

CONSTANTS
  Sample,       \* samples: <<partition, number>>; a partition is an epoch
  Room,         \* samples an account has room for
  Batch,        \* samples in one transaction
  Capacity      \* samples a partition of the buffer has room for

VARIABLES
  running,      \* the agent runs
  sheds,        \* the agent gives up samples when its buffer is full
  epoch,        \* the current epoch
  held,         \* samples the agent is responsible for
  ledger        \* partition -> samples on its account, in order

vars == <<running, sheds, epoch, held, ledger>>

HeldOf(k) == {s \in held : s[1] = k}

\* A sample may be given up when it is recorded, when its account cannot take
\* another batch, when its epoch is over, or when the buffer is full.
MayGo(s) ==
  \/ s \in Range(ledger[s[1]])
  \/ Len(ledger[s[1]]) + Batch > Room
  \/ s[1] < epoch
  \/ sheds /\ Cardinality(HeldOf(s[1])) >= Capacity

Init ==
  /\ running = TRUE /\ sheds \in BOOLEAN
  /\ epoch = 1
  /\ held = {} /\ \A k \in DOMAIN ledger : ledger[k] = <<>>

\* The agent takes over, keeps or gives up samples.
Hold ==
  /\ running /\ running'
  /\ held' \subseteq Sample /\ \A s \in held \ held' : MayGo(s)
  /\ UNCHANGED <<sheds, epoch, ledger>>

\* A transaction with one batch lands.
Record ==
  /\ DOMAIN ledger' = DOMAIN ledger
  /\ \E k \in DOMAIN ledger :
       /\ \A j \in DOMAIN ledger \ {k} : ledger'[j] = ledger[j]
       /\ Len(ledger'[k]) \in Len(ledger[k]) .. Len(ledger[k]) + Batch /\ Len(ledger'[k]) <= Room
       /\ SubSeq(ledger'[k], 1, Len(ledger[k])) = ledger[k]
       /\ \A i \in DOMAIN ledger'[k] : ledger'[k][i][1] = k
  /\ UNCHANGED <<running, sheds, epoch, held>>

\* A crash or the end of the agent loses what it holds.
Die == ~running' /\ held' = {} /\ UNCHANGED <<sheds, epoch, ledger>>

Revive == ~running /\ running' /\ UNCHANGED <<sheds, epoch, held, ledger>>

EpochEnds == epoch' = epoch + 1 /\ UNCHANGED <<running, sheds, held, ledger>>

Next == Hold \/ Record \/ Die \/ Revive \/ EpochEnds

Safety == Init /\ [][Next]_vars

\* Nothing is held for ever.
AllReleased == \A s \in Sample : []<>(s \notin held)

Spec == Safety /\ AllReleased
=============================================================================
