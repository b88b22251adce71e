--------------------------- MODULE StreamDelivery ---------------------------
(***************************************************************************)
(* What a consumer of a Kafka topic that feeds a database promises: every  *)
(* row a record yields is stored, perhaps more than once, or given up      *)
(* explicitly; the group's offset passes a record only after that, and a   *)
(* record behind the offset is never touched again.                        *)
(***************************************************************************)
EXTENDS Naturals, Sequences

CONSTANTS
  Table,    \* destination tables
  MaxLog    \* bound on the records of the topic

VARIABLES
  log,      \* the topic: per record, the tables it yields rows for
  acked,    \* records the group has committed
  copies,   \* record -> table -> rows stored
  gave      \* <<record, table>> the consumer gave up on

Offset == 1 .. MaxLog

Due(o, t) == o \in acked + 1 .. Len(log) /\ t \in log[o]
Handled(o, t) == copies[o][t] > 0 \/ <<o, t>> \in gave

Init ==
  /\ log = <<>>
  /\ acked = 0
  /\ copies = [o \in Offset |-> [t \in Table |-> 0]]
  /\ gave = {}

Publish ==
  /\ Len(log) < MaxLog
  /\ \E r \in SUBSET Table : log' = Append(log, r)
  /\ UNCHANGED <<acked, copies, gave>>

\* Some rows of records the offset has not passed are stored or given up.
Handle ==
  /\ copies' \in [Offset -> [Table -> Nat]]
  /\ gave \subseteq gave' /\ gave' \subseteq Offset \X Table
  /\ \A o \in Offset, t \in Table :
       /\ copies'[o][t] \in {copies[o][t], copies[o][t] + 1}
       /\ copies'[o][t] # copies[o][t] => Due(o, t)
       /\ <<o, t>> \in gave' \ gave => Due(o, t)
  /\ UNCHANGED <<log, acked>>

Ack ==
  \E n \in acked + 1 .. Len(log) :
    /\ \A o \in acked + 1 .. n : \A t \in log[o] : Handled(o, t)
    /\ acked' = n
    /\ UNCHANGED <<log, copies, gave>>

Next == Publish \/ Handle \/ Ack

Safety == Init /\ [][Next]_<<log, acked, copies, gave>>

\* Whatever is in the log, where it stays, is handled in the end.
AllHandled ==
  \A o \in Offset, t \in Table :
    []<>(o <= Len(log) /\ t \in log[o] => Handled(o, t))

Spec == Safety /\ AllHandled
=============================================================================
