---------------------------- MODULE StreamWriter ----------------------------
(***************************************************************************)
(* The loop that moves a Kafka topic into ClickHouse: Enricher.Run of      *)
(* flow-enricher ("flow") and Processor.Run of gnmi-writer ("gnmi").       *)
(*                                                                         *)
(* Polling advances the position of the client in memory; the offset of    *)
(* the group, from which a restarted consumer reads on, moves on a commit. *)
(* Neither consumer disables franz-go's automatic commit, which commits    *)
(* what was polled before the latest poll.                                 *)
(***************************************************************************)
EXTENDS Naturals, Sequences

CONSTANTS
  Table,        \* tables rows are written to (flow: one)
  MaxLog,       \* bound on the records of the topic
  MaxPoll,      \* bound on the records one poll returns
  MaxRestarts,  \* bound on crashes and restarts
  MaxFaults,    \* bound on failing calls
  Consumers     \* which of "flow", "gnmi" are looked at

VARIABLES
  who,          \* the consumer of this behaviour
  log,          \* the topic: per record, the tables it yields rows for;
                \* {} for one that does not decode or yields nothing
  committed,    \* offset of the group: records committed
  head,         \* position before the latest poll
  pos,          \* position after it
  pc,           \* "poll", "write", "commit", "skip" or "down"
  todo,         \* tables of the batch still to be written
  stored,       \* record -> table -> rows in ClickHouse
  failed,       \* history: <<record, table>> whose write failed, to be retried
  skipped,      \* history: <<record, table>> left out: a row that cannot be
                \* appended, a table that does not exist
  restarts,
  faults

writerVars == <<who, committed, head, pos, pc, todo, stored, failed, skipped,
                restarts, faults>>
vars == <<writerVars, log>>

ASSUME StreamAssumption ==
  /\ MaxLog \in Nat /\ MaxPoll \in Nat \ {0}
  /\ MaxRestarts \in Nat /\ MaxFaults \in Nat
  /\ Consumers \subseteq {"flow", "gnmi"}
  /\ Table # {}

Offset == 1 .. MaxLog

Init ==
  /\ who \in Consumers
  /\ log = <<>>
  /\ committed = 0 /\ head = 0 /\ pos = 0
  /\ pc = "poll" /\ todo = {}
  /\ stored = [o \in Offset |-> [t \in Table |-> 0]]
  /\ failed = {} /\ skipped = {}
  /\ restarts = 0 /\ faults = 0

\* flow-enricher writes to a single table.
Tables == IF who = "flow" THEN {CHOOSE t \in Table : TRUE} ELSE Table

Publish ==
  /\ Len(log) < MaxLog
  /\ \E r \in SUBSET Tables : log' = Append(log, r)
  /\ UNCHANGED writerVars

Batch == head + 1 .. pos

\* Mutant: the latest record is left for a later poll.
PollLeavesLast ==
  /\ pc = "poll"
  /\ \E n \in pos + 1 .. Len(log) - 1 :
       /\ n <= pos + MaxPoll
       /\ head' = pos /\ pos' = n
       /\ todo' = UNION {log[o] : o \in pos + 1 .. n}
       /\ pc' = IF todo' = {} THEN "poll" ELSE "write"
  /\ UNCHANGED <<who, log, committed, stored, failed, skipped, restarts, faults>>

\* ConsumeFlowRecords / Consume and processNotifications: a batch without a
\* single row is passed over, and not committed.
Poll ==
  /\ pc = "poll" /\ pos < Len(log)
  /\ \E n \in pos + 1 .. Len(log) :
       /\ n <= pos + MaxPoll
       /\ head' = pos /\ pos' = n
       /\ todo' = UNION {log[o] : o \in pos + 1 .. n}
       /\ pc' = IF todo' = {} THEN "poll" ELSE "write"
  /\ UNCHANGED <<who, log, committed, stored, failed, skipped, restarts, faults>>

\* The rows of the batch for t.
Rows(t) == {x \in Batch \X {t} : t \in log[x[1]]}

Undone == UNION {Rows(t) : t \in todo}

Store(S) ==
  stored' = [o \in Offset |-> [t \in Table |->
               IF <<o, t>> \in S THEN stored[o][t] + 1 ELSE stored[o][t]]]

\* Mutant: the offsets are committed after the first table.
WriteTableCommitsEarly(t) ==
  /\ pc = "write" /\ t \in todo
  /\ Store(Rows(t))
  /\ todo' = {} /\ pc' = "commit"
  /\ UNCHANGED <<who, log, committed, head, pos, failed, skipped, restarts, faults>>

\* writeGeneric and sendBatch for one table, or BatchInsert.  BatchInsert only
\* logs a row that cannot be appended and sends the others.
WriteTable(t) ==
  /\ pc = "write" /\ t \in todo
  /\ \E bad \in SUBSET Rows(t) :
       /\ bad # {} => who = "flow" /\ faults < MaxFaults
       /\ Store(Rows(t) \ bad)
       /\ skipped' = skipped \cup bad
       /\ faults' = IF bad = {} THEN faults ELSE faults + 1
  /\ todo' = todo \ {t}
  /\ pc' = IF todo' = {} THEN "commit" ELSE "write"
  /\ UNCHANGED <<who, log, committed, head, pos, failed, restarts>>

\* The write of a table fails, the tables after it are not tried.  Send or
\* Close may fail after the server has taken the rows.  The loop polls on; only
\* gnmi-writer commits first, when the table is unknown.
WriteFails(t) ==
  /\ pc = "write" /\ t \in todo /\ faults < MaxFaults
  /\ faults' = faults + 1
  /\ \/ /\ Store({}) \/ Store(Rows(t))
        /\ failed' = failed \cup Undone
        /\ pc' = "poll"
        /\ UNCHANGED skipped
     \/ /\ who = "gnmi"
        /\ Store({})
        /\ skipped' = skipped \cup Undone
        /\ pc' = "skip"
        /\ UNCHANGED failed
  /\ todo' = {}
  /\ UNCHANGED <<who, log, committed, head, pos, restarts>>

\* CommitUncommittedOffsets: everything polled.
Commit ==
  /\ pc \in {"commit", "skip"}
  /\ \/ committed' = pos /\ UNCHANGED faults
     \/ /\ faults < MaxFaults
        /\ faults' = faults + 1
        /\ UNCHANGED committed
  /\ pc' = "poll"
  /\ UNCHANGED <<who, log, head, pos, todo, stored, failed, skipped, restarts>>

\* franz-go's periodic commit, also made when the client is closed.
AutoCommit ==
  /\ pc # "down" /\ committed < head
  /\ committed' = head
  /\ UNCHANGED <<who, log, head, pos, pc, todo, stored, failed, skipped, restarts, faults>>

\* The process ends between any two steps, by a crash or a cancelled context.
Stop ==
  /\ pc # "down" /\ restarts < MaxRestarts
  /\ pc' = "down" /\ todo' = {}
  /\ restarts' = restarts + 1
  /\ UNCHANGED <<who, log, committed, head, pos, stored, failed, skipped, faults>>

\* NewKafkaFlowConsumer / NewKafkaConsumer join the group again.
Start ==
  /\ pc = "down"
  /\ pc' = "poll"
  /\ head' = committed /\ pos' = committed
  /\ UNCHANGED <<who, log, committed, todo, stored, failed, skipped, restarts, faults>>

Write == \E t \in Table : WriteTable(t) \/ WriteFails(t)

WriterNext == Poll \/ Write \/ Commit \/ AutoCommit \/ Stop \/ Start

Next == Publish \/ WriterNext

Fairness ==
  /\ WF_vars(Poll) /\ WF_vars(Write) /\ WF_vars(Commit) /\ WF_vars(Start)

Spec == Init /\ [][Next]_vars /\ Fairness
-----------------------------------------------------------------------------
TypeOK ==
  /\ who \in Consumers
  /\ log \in Seq(SUBSET Table) /\ Len(log) <= MaxLog
  /\ committed \in 0 .. Len(log) /\ head \in 0 .. pos /\ pos \in 0 .. Len(log)
  /\ pc \in {"poll", "write", "commit", "skip", "down"}
  /\ todo \subseteq Table /\ (pc = "write" <=> todo # {})
  /\ stored \in [Offset -> [Table -> Nat]]
  /\ failed \subseteq Offset \X Table /\ skipped \subseteq Offset \X Table
  /\ restarts \in 0 .. MaxRestarts /\ faults \in 0 .. MaxFaults

\* Whatever crashes, failing calls and automatic commits do, the offset of the
\* group passes a record only once each of its rows was stored or its write was
\* seen to fail: no record is skipped because the process died.
CommittedHandled ==
  \A o \in 1 .. committed : \A t \in log[o] :
    stored[o][t] > 0 \/ <<o, t>> \in failed \cup skipped

\* The loop implements at-least-once delivery of what it does not give up.
Delivery == INSTANCE StreamDelivery WITH
              acked <- committed, copies <- stored, gave <- failed \cup skipped
DeliversAtLeastOnce == Delivery!Spec
=============================================================================
