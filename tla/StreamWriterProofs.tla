------------------------- MODULE StreamWriterProofs -------------------------
(***************************************************************************)
(* For any number of records, tables, restarts and failing calls, the      *)
(* offset of the group never passes a row that was neither stored nor      *)
(* given up (CommittedHandled), and the loop implements the safety part of *)
(* StreamDelivery.                                                         *)
(*                                                                         *)
(* CommittedHandled is not inductive: a commit publishes the position, an  *)
(* automatic commit the position before the latest poll, so what both have *)
(* behind them must be handled before they are published.                  *)
(*                                                                         *)
(* The same holds behind the flow-ingest server, for any number of workers *)
(* and any size of its channel, and the server never sends on the channel  *)
(* it has closed (NoSendOnClosed).                                         *)
(***************************************************************************)
EXTENDS FlowIngest, TLAPS

Handled(o, t) == stored[o][t] > 0 \/ <<o, t>> \in failed \cup skipped

HandledUpTo(n) == \A o \in 1 .. n : \A t \in log[o] : Handled(o, t)

\* The strengthening of CommittedHandled.
IInv ==
  /\ TypeOK
  /\ HandledUpTo(committed)
  /\ pc # "down" => HandledUpTo(head)
  /\ pc \in {"poll", "commit", "skip"} => HandledUpTo(pos)
  /\ pc # "down" => committed <= pos
  /\ pc \in {"write", "commit", "skip"} => committed <= head
  /\ pc = "write" => \A o \in head + 1 .. pos : \A t \in log[o] : t \in todo \/ Handled(o, t)

-----------------------------------------------------------------------------
\* The tables a record may name are tables.
LEMMA TablesAreTables == Tables \subseteq Table
  BY StreamAssumption DEF Tables

\* Records within the log name tables and are offsets.
LEMMA RecordType ==
  ASSUME TypeOK, NEW o \in 1 .. Len(log)
  PROVE  o \in Offset /\ log[o] \subseteq Table
  BY StreamAssumption DEF TypeOK, Offset

\* A batch lies within the log, and so do its rows.
LEMMA RowsType ==
  ASSUME TypeOK, NEW t \in Table
  PROVE  Rows(t) \subseteq Offset \X Table
<1>1. SUFFICES ASSUME NEW x \in Rows(t) PROVE x \in Offset \X Table
  OBVIOUS
<1>2. PICK o \in Batch : x = <<o, t>>
  BY DEF Rows
<1>3. o \in 1 .. Len(log)
  BY DEF TypeOK, Batch
<1> QED BY <1>2, <1>3, RecordType

\* Storing rows types, loses no copy and leaves one of each row stored.
LEMMA StoreAdds ==
  ASSUME stored \in [Offset -> [Table -> Nat]], NEW S, Store(S)
  PROVE  /\ stored' \in [Offset -> [Table -> Nat]]
         /\ \A o \in Offset, t \in Table :
              /\ stored[o][t] > 0 => stored'[o][t] > 0
              /\ <<o, t>> \in S => stored'[o][t] > 0
<1>1. \A o \in Offset, t \in Table :
        stored[o][t] \in Nat /\ stored'[o][t] = (IF <<o, t>> \in S THEN stored[o][t] + 1 ELSE stored[o][t])
  BY DEF Store
<1>2. stored' \in [Offset -> [Table -> Nat]]
  BY DEF Store
<1> QED BY <1>1, <1>2

\* No copy is lost, nothing given up is forgotten.
Grows ==
  /\ \A o \in Offset, t \in Table : stored[o][t] > 0 => stored'[o][t] > 0
  /\ failed \subseteq failed' /\ skipped \subseteq skipped'

\* What is handled stays handled while the log is only appended to.
LEMMA HandledStays ==
  ASSUME TypeOK, Grows, NEW o \in 1 .. Len(log), NEW t \in log[o], Handled(o, t)
  PROVE  Handled(o, t)'
<1>1. o \in Offset /\ t \in Table
  BY RecordType
<1> QED BY <1>1 DEF Grows, Handled

\* So does everything up to a position.
LEMMA PrefixStays ==
  ASSUME TypeOK, Grows, NEW n \in 0 .. Len(log), HandledUpTo(n),
         \A o \in 1 .. Len(log) : log'[o] = log[o]
  PROVE  \A o \in 1 .. n : \A t \in log'[o] : Handled(o, t)'
<1>1. SUFFICES ASSUME NEW o \in 1 .. n, NEW t \in log'[o] PROVE Handled(o, t)'
  OBVIOUS
<1>2. o \in 1 .. Len(log) /\ t \in log[o]
  BY DEF TypeOK
<1>3. Handled(o, t)
  BY <1>2 DEF HandledUpTo
<1> QED BY <1>2, <1>3, HandledStays

-----------------------------------------------------------------------------
\* The first state has the invariant.
LEMMA InitIInv == Init => IInv
<1> SUFFICES ASSUME Init PROVE IInv
  OBVIOUS
<1>1. TypeOK
  BY StreamAssumption DEF Init, TypeOK
<1> QED BY <1>1 DEF Init, IInv, HandledUpTo

\* A new record lies behind every position.
LEMMA PublishStep == IInv /\ Publish => IInv'
<1> SUFFICES ASSUME IInv, Publish PROVE IInv'
  OBVIOUS
<1>0. TypeOK
  BY DEF IInv
<1>1. PICK r \in SUBSET Tables : log' = Append(log, r)
  BY DEF Publish
<1>2. r \subseteq Table
  BY TablesAreTables
<1>3. /\ log' \in Seq(SUBSET Table) /\ Len(log') = Len(log) + 1
      /\ \A o \in 1 .. Len(log) : log'[o] = log[o]
  BY <1>0, <1>1, <1>2 DEF TypeOK
<1>4. UNCHANGED writerVars /\ Len(log) < MaxLog
  BY DEF Publish
<1>5. TypeOK'
  BY <1>0, <1>3, <1>4, StreamAssumption DEF TypeOK, writerVars
<1>6. Grows
  BY <1>4 DEF Grows, writerVars
<1>7. \A n \in 0 .. Len(log) : HandledUpTo(n) => \A o \in 1 .. n : \A t \in log'[o] : Handled(o, t)'
  BY <1>0, <1>3, <1>6, PrefixStays
<1>8. committed \in 0 .. Len(log) /\ head \in 0 .. Len(log) /\ pos \in 0 .. Len(log)
  BY <1>0 DEF TypeOK
<1>9. HandledUpTo(committed)' /\ (pc' # "down" => HandledUpTo(head)')
      /\ (pc' \in {"poll", "commit", "skip"} => HandledUpTo(pos)')
  BY <1>4, <1>7, <1>8 DEF IInv, HandledUpTo, writerVars
<1>10. ASSUME pc = "write", NEW o \in head + 1 .. pos, NEW t \in log'[o]
       PROVE  t \in todo \/ Handled(o, t)'
  <2>1. o \in 1 .. Len(log) /\ t \in log[o]
    BY <1>0, <1>3 DEF TypeOK
  <2>2. t \in todo \/ Handled(o, t)
    BY <1>10, <2>1 DEF IInv
  <2> QED BY <1>0, <1>6, <2>1, <2>2, HandledStays
<1> QED BY <1>4, <1>5, <1>9, <1>10 DEF IInv, writerVars

\* Polling starts a batch behind which everything is handled.
LEMMA PollStep == IInv /\ Poll => IInv'
<1> SUFFICES ASSUME IInv, Poll PROVE IInv'
  OBVIOUS
<1>0. TypeOK /\ pc = "poll" /\ HandledUpTo(committed) /\ HandledUpTo(pos) /\ committed <= pos
  BY DEF IInv, Poll
<1>1. PICK n \in pos + 1 .. Len(log) :
        /\ head' = pos /\ pos' = n
        /\ todo' = UNION {log[o] : o \in pos + 1 .. n}
        /\ pc' = IF todo' = {} THEN "poll" ELSE "write"
  BY DEF Poll
<1>2. UNCHANGED <<who, log, committed, stored, failed, skipped, restarts, faults>>
  BY DEF Poll
<1>3. \A o \in pos + 1 .. n : o \in 1 .. Len(log) /\ log[o] \subseteq todo'
  BY <1>0, <1>1 DEF TypeOK
<1>4. todo' \subseteq Table
  <2>1. \A o \in pos + 1 .. n : log[o] \subseteq Table
    BY <1>0, <1>3, RecordType
  <2> QED BY <1>1, <2>1
<1>5. TypeOK'
  <2>1. pos \in 0 .. Len(log) /\ Len(log) \in Nat
    BY <1>0 DEF TypeOK
  <2>2. head' \in 0 .. pos' /\ pos' \in 0 .. Len(log)
    BY <1>1, <2>1
  <2>3. pc' \in {"poll", "write"} /\ (pc' = "write" <=> todo' # {})
    BY <1>1
  <2> QED BY <1>0, <1>2, <1>4, <2>2, <2>3 DEF TypeOK
<1>6. HandledUpTo(committed)' /\ HandledUpTo(head)'
  BY <1>0, <1>1, <1>2 DEF HandledUpTo, Handled
<1>7. pc' = "poll" => HandledUpTo(pos)'
  <2> SUFFICES ASSUME pc' = "poll", NEW o \in 1 .. n, NEW t \in log[o] PROVE Handled(o, t)
    BY <1>1, <1>2 DEF HandledUpTo, Handled
  <2>1. todo' = {}
    BY <1>1
  <2>2. o \in 1 .. pos
    BY <1>0, <1>3, <2>1 DEF TypeOK
  <2> QED BY <1>0, <2>2 DEF HandledUpTo
<1>8. \A o \in head' + 1 .. pos' : \A t \in log'[o] : t \in todo'
  BY <1>1, <1>2, <1>3
<1>9. pc' \in {"poll", "write"} /\ committed' <= head' /\ head' <= pos'
  BY <1>0, <1>1, <1>2 DEF TypeOK
<1>10. committed' <= pos'
  BY <1>5, <1>9 DEF TypeOK
<1> QED BY <1>5, <1>6, <1>7, <1>8, <1>9, <1>10 DEF IInv

\* What every write has in common: it stores or gives up rows of the batch.
LEMMA WriteKeeps ==
  ASSUME IInv, pc = "write", TypeOK', Grows,
         UNCHANGED <<log, committed, head, pos>>, pc' \in {"poll", "write", "commit", "skip"},
         \A o \in head + 1 .. pos : \A t \in log[o] \cap todo : t \in todo' \/ Handled(o, t)'
  PROVE  IInv'
<1>0. TypeOK /\ HandledUpTo(committed) /\ HandledUpTo(head) /\ committed <= head
  BY DEF IInv
<1>1. committed \in 0 .. Len(log) /\ head \in 0 .. Len(log) /\ head <= pos /\ pos \in 0 .. Len(log)
  BY <1>0 DEF TypeOK
<1>2. \A n \in 0 .. Len(log) : HandledUpTo(n) => \A o \in 1 .. n : \A t \in log[o] : Handled(o, t)'
  BY <1>0, PrefixStays
<1>3. HandledUpTo(committed)' /\ HandledUpTo(head)'
  BY <1>0, <1>1, <1>2 DEF HandledUpTo
<1>4. ASSUME NEW o \in head + 1 .. pos, NEW t \in log[o]
      PROVE  t \in todo' \/ Handled(o, t)'
  <2>1. o \in 1 .. Len(log)
    BY <1>1
  <2>2. t \in todo \/ Handled(o, t)
    BY DEF IInv
  <2>3. CASE t \in todo
    BY <2>3
  <2>4. CASE Handled(o, t)
    BY <1>0, <2>1, <2>4, HandledStays
  <2> QED BY <2>2, <2>3, <2>4
<1>5. pc' # "write" => HandledUpTo(pos)'
  <2> SUFFICES ASSUME pc' # "write", NEW o \in 1 .. pos, NEW t \in log[o] PROVE Handled(o, t)'
    BY DEF HandledUpTo
  <2>1. todo' = {}
    BY DEF TypeOK
  <2>2. CASE o \in 1 .. head
    BY <1>0, <1>1, <1>2, <2>2
  <2>3. CASE o \in head + 1 .. pos
    BY <1>4, <2>1, <2>3
  <2> QED BY <1>1, <2>2, <2>3
<1>6. committed' <= head' /\ committed' <= pos'
  BY <1>0, <1>1
<1> QED BY <1>3, <1>4, <1>5, <1>6 DEF IInv

\* The table of a successful write is done with: stored, or given up row by row.
LEMMA WriteTableStep == ASSUME IInv, NEW t \in Table, WriteTable(t) PROVE IInv'
<1>0. TypeOK /\ pc = "write" /\ t \in todo
  BY DEF IInv, WriteTable
<1>1. PICK bad \in SUBSET Rows(t) :
        /\ bad # {} => who = "flow" /\ faults < MaxFaults
        /\ Store(Rows(t) \ bad)
        /\ skipped' = skipped \cup bad
        /\ faults' = IF bad = {} THEN faults ELSE faults + 1
  BY DEF WriteTable
<1>2. /\ todo' = todo \ {t} /\ pc' = IF todo' = {} THEN "commit" ELSE "write"
      /\ UNCHANGED <<who, log, committed, head, pos, failed, restarts>>
  BY DEF WriteTable
<1>3. /\ stored' \in [Offset -> [Table -> Nat]]
      /\ \A o \in Offset, s \in Table :
           /\ stored[o][s] > 0 => stored'[o][s] > 0
           /\ <<o, s>> \in Rows(t) \ bad => stored'[o][s] > 0
  BY <1>0, <1>1, StoreAdds DEF TypeOK
<1>4. skipped' \subseteq Offset \X Table
  BY <1>0, <1>1, RowsType DEF TypeOK
<1>5. faults' \in 0 .. MaxFaults
  BY <1>0, <1>1, StreamAssumption DEF TypeOK
<1>6. TypeOK'
  BY <1>0, <1>2, <1>3, <1>4, <1>5 DEF TypeOK
<1>7. Grows
  BY <1>1, <1>2, <1>3 DEF Grows
<1>8. ASSUME NEW o \in head + 1 .. pos, NEW s \in log[o] \cap todo
      PROVE  s \in todo' \/ Handled(o, s)'
  <2>1. CASE s # t
    BY <1>2, <2>1
  <2>2. CASE s = t
    <3>1. o \in 1 .. Len(log)
      BY <1>0 DEF TypeOK
    <3>2. o \in Offset
      BY <1>0, <3>1, RecordType
    <3>3. <<o, t>> \in Rows(t)
      BY <2>2 DEF Rows, Batch
    <3> QED BY <1>1, <1>3, <2>2, <3>2, <3>3 DEF Handled
  <2> QED BY <2>1, <2>2
<1> QED BY <1>0, <1>2, <1>6, <1>7, <1>8, WriteKeeps

\* Every row of the batch still to be written is given up when a write fails.
LEMMA WriteFailsStep == ASSUME IInv, NEW t \in Table, WriteFails(t) PROVE IInv'
<1>0. TypeOK /\ pc = "write" /\ t \in todo /\ faults < MaxFaults /\ faults' = faults + 1
  BY DEF IInv, WriteFails
<1>1. todo' = {} /\ UNCHANGED <<who, log, committed, head, pos, restarts>> /\ pc' \in {"poll", "skip"}
  BY DEF WriteFails
<1>2. /\ failed \subseteq failed' /\ skipped \subseteq skipped'
      /\ failed' \cup skipped' = failed \cup skipped \cup Undone
  BY DEF WriteFails
<1>3. Undone \subseteq Offset \X Table
  <2>1. \A s \in todo : Rows(s) \subseteq Offset \X Table
    BY <1>0, RowsType DEF TypeOK
  <2> QED BY <2>1 DEF Undone
<1>4. Store({}) \/ Store(Rows(t))
  BY DEF WriteFails
<1>5. /\ stored' \in [Offset -> [Table -> Nat]]
      /\ \A o \in Offset, s \in Table : stored[o][s] > 0 => stored'[o][s] > 0
  <2>1. stored \in [Offset -> [Table -> Nat]]
    BY <1>0 DEF TypeOK
  <2>2. CASE Store({})
    BY <2>1, <2>2, StoreAdds
  <2>3. CASE Store(Rows(t))
    BY <2>1, <2>3, StoreAdds
  <2> QED BY <1>4, <2>2, <2>3
<1>6. failed' \subseteq Offset \X Table /\ skipped' \subseteq Offset \X Table
  BY <1>0, <1>2, <1>3 DEF TypeOK
<1>7. faults' \in 0 .. MaxFaults
  BY <1>0, StreamAssumption DEF TypeOK
<1>8. TypeOK'
  BY <1>0, <1>1, <1>5, <1>6, <1>7 DEF TypeOK
<1>9. Grows
  BY <1>2, <1>5 DEF Grows
<1>10. ASSUME NEW o \in head + 1 .. pos, NEW s \in log[o] \cap todo
       PROVE  Handled(o, s)'
  <2>1. <<o, s>> \in Undone
    BY DEF Undone, Rows, Batch
  <2> QED BY <1>2, <2>1 DEF Handled
<1> QED BY <1>0, <1>1, <1>8, <1>9, <1>10, WriteKeeps

\* A commit publishes a position behind which everything is handled.
LEMMA CommitStep == IInv /\ Commit => IInv'
<1> SUFFICES ASSUME IInv, Commit PROVE IInv'
  OBVIOUS
<1>0. /\ TypeOK /\ HandledUpTo(committed) /\ HandledUpTo(head) /\ HandledUpTo(pos)
      /\ committed <= pos
  BY DEF IInv, Commit
<1>1. /\ UNCHANGED <<who, log, head, pos, todo, stored, failed, skipped, restarts>>
      /\ pc' = "poll" /\ pc # "write"
  BY DEF Commit
<1>2. committed' \in {committed, pos} /\ faults' \in 0 .. MaxFaults
  BY <1>0, StreamAssumption DEF Commit, TypeOK
<1>3. committed' \in 0 .. Len(log) /\ committed' <= pos
  BY <1>0, <1>2 DEF TypeOK
<1>4. TypeOK'
  BY <1>0, <1>1, <1>2, <1>3 DEF TypeOK
<1>5. HandledUpTo(committed)' /\ HandledUpTo(head)' /\ HandledUpTo(pos)'
  BY <1>0, <1>1, <1>2 DEF HandledUpTo, Handled
<1> QED BY <1>1, <1>3, <1>4, <1>5 DEF IInv

\* An automatic commit publishes the position before the latest poll.
LEMMA AutoCommitStep == IInv /\ AutoCommit => IInv'
<1> SUFFICES ASSUME IInv, AutoCommit PROVE IInv'
  OBVIOUS
<1>0. TypeOK /\ pc # "down" /\ HandledUpTo(head) /\ committed' = head
  BY DEF IInv, AutoCommit
<1>1. UNCHANGED <<who, log, head, pos, pc, todo, stored, failed, skipped, restarts, faults>>
  BY DEF AutoCommit
<1>2. committed' \in 0 .. Len(log) /\ committed' <= head' /\ committed' <= pos'
  BY <1>0, <1>1 DEF TypeOK
<1>3. TypeOK'
  BY <1>0, <1>1, <1>2 DEF TypeOK
<1>4. \A o, t : Handled(o, t)' <=> Handled(o, t)
  BY <1>1 DEF Handled
<1>5. HandledUpTo(committed)' /\ HandledUpTo(head)'
  BY <1>0, <1>1, <1>4 DEF HandledUpTo
<1>6. pc' \in {"poll", "commit", "skip"} => HandledUpTo(pos)'
  BY <1>1, <1>4 DEF IInv, HandledUpTo
<1>7. pc' = "write" => \A o \in head' + 1 .. pos' : \A t \in log'[o] : t \in todo' \/ Handled(o, t)'
  BY <1>1, <1>4 DEF IInv
<1> QED BY <1>2, <1>3, <1>5, <1>6, <1>7 DEF IInv

\* A stopped loop forgets its positions; a started one reads on from the offset.
LEMMA RestartStep == IInv /\ (Stop \/ Start) => IInv'
<1> SUFFICES ASSUME IInv, Stop \/ Start PROVE IInv'
  OBVIOUS
<1>0. TypeOK /\ HandledUpTo(committed)
  BY DEF IInv
<1>1. UNCHANGED <<who, log, committed, stored, failed, skipped, faults>>
  BY DEF Stop, Start
<1>2. HandledUpTo(committed)'
  BY <1>0, <1>1 DEF HandledUpTo, Handled
<1>3. CASE Stop
  <2>1. TypeOK' /\ pc' = "down"
    BY <1>0, <1>1, <1>3, StreamAssumption DEF Stop, TypeOK
  <2> QED BY <1>2, <2>1 DEF IInv
<1>4. CASE Start
  <2>1. pc' = "poll" /\ head' = committed' /\ pos' = committed'
    BY <1>1, <1>4 DEF Start
  <2>2. TypeOK'
    BY <1>0, <1>1, <1>4 DEF Start, TypeOK
  <2>3. HandledUpTo(head)' /\ HandledUpTo(pos)' /\ committed' <= pos'
    BY <1>2, <2>1, <2>2 DEF HandledUpTo, TypeOK
  <2> QED BY <1>2, <2>1, <2>2, <2>3 DEF IInv
<1> QED BY <1>3, <1>4

\* Every step of the topic and of the loop keeps the invariant.
LEMMA NextIInv == IInv /\ [Next]_vars => IInv'
<1> SUFFICES ASSUME IInv, [Next]_vars PROVE IInv'
  OBVIOUS
<1>1. CASE Publish
  BY <1>1, PublishStep
<1>2. CASE Poll
  BY <1>2, PollStep
<1>3. CASE Write
  <2>1. PICK t \in Table : WriteTable(t) \/ WriteFails(t)
    BY <1>3 DEF Write
  <2> QED BY <2>1, WriteTableStep, WriteFailsStep
<1>4. CASE Commit
  BY <1>4, CommitStep
<1>5. CASE AutoCommit
  BY <1>5, AutoCommitStep
<1>6. CASE Stop \/ Start
  BY <1>6, RestartStep
<1>7. CASE UNCHANGED vars
  BY <1>7 DEF IInv, TypeOK, HandledUpTo, Handled, vars, writerVars
<1> QED BY <1>1, <1>2, <1>3, <1>4, <1>5, <1>6, <1>7 DEF Next, WriterNext

\* The strengthening holds in every state of every behaviour.
THEOREM StreamInvariant == Spec => []IInv
  BY InitIInv, NextIInv, PTL DEF Spec

\* The offset that Commit and the automatic commit of the client move never
\* passes a row that is neither in ClickHouse nor given up, whatever writes and
\* commits fail and wherever the loop is restarted.
THEOREM StreamCommittedHandled == Spec => []CommittedHandled
<1>1. IInv => CommittedHandled
  BY DEF IInv, HandledUpTo, Handled, CommittedHandled
<1> QED BY <1>1, StreamInvariant, PTL

-----------------------------------------------------------------------------
\* The rows still to be written belong to records the offset has not passed.
LEMMA UndoneDue ==
  ASSUME IInv, pc = "write", NEW o, NEW t, <<o, t>> \in Undone
  PROVE  o \in Offset /\ t \in Table /\ Delivery!Due(o, t)
<1>1. PICK u \in todo : <<o, t>> \in Rows(u)
  BY DEF Undone
<1>2. o \in head + 1 .. pos /\ t \in log[o]
  BY <1>1 DEF Rows, Batch
<1>3. o \in committed + 1 .. Len(log) /\ o \in 1 .. Len(log)
  BY <1>2 DEF IInv, TypeOK
<1>4. o \in Offset /\ log[o] \subseteq Table
  BY <1>3, RecordType DEF IInv
<1> QED BY <1>2, <1>3, <1>4 DEF Delivery!Due

\* Storing some of those rows and giving up others is one abstract step.
LEMMA HandleStep ==
  ASSUME IInv, pc = "write", NEW S, S \subseteq Undone, Store(S),
         NEW G, G \subseteq Undone, failed' \cup skipped' = failed \cup skipped \cup G,
         UNCHANGED <<log, committed>>
  PROVE  Delivery!Handle
<1>0. TypeOK /\ stored \in [Offset -> [Table -> Nat]]
  BY DEF IInv, TypeOK
<1>1. stored' \in [Offset -> [Table -> Nat]]
  BY <1>0, StoreAdds
<1>2. \A o, t : <<o, t>> \in Undone => Delivery!Due(o, t)
  BY UndoneDue
<1>3. Undone \subseteq Offset \X Table
  <2>1. \A t \in todo : Rows(t) \subseteq Offset \X Table
    BY <1>0, RowsType DEF TypeOK
  <2> QED BY <2>1 DEF Undone
<1>4. failed' \cup skipped' \subseteq Offset \X Table
  BY <1>0, <1>3 DEF TypeOK
<1>5. ASSUME NEW o \in Offset, NEW t \in Table
      PROVE  /\ stored'[o][t] \in {stored[o][t], stored[o][t] + 1}
             /\ stored'[o][t] # stored[o][t] => <<o, t>> \in Undone
  BY DEF Store
<1>6. \A o \in Offset, t \in Table :
        <<o, t>> \in (failed' \cup skipped') \ (failed \cup skipped) => <<o, t>> \in Undone
  OBVIOUS
<1>7. \A o \in Offset, t \in Table :
        /\ stored'[o][t] \in {stored[o][t], stored[o][t] + 1}
        /\ stored'[o][t] # stored[o][t] => Delivery!Due(o, t)
        /\ <<o, t>> \in (failed' \cup skipped') \ (failed \cup skipped) => Delivery!Due(o, t)
  BY <1>2, <1>5, <1>6
<1>8. Delivery!Offset = Offset
  BY DEF Delivery!Offset, Offset
<1> QED BY <1>1, <1>4, <1>7, <1>8 DEF Delivery!Handle

\* A move of the offset over handled records is an abstract acknowledgement.
LEMMA AckStep ==
  ASSUME IInv, NEW n \in 0 .. Len(log), committed < n, HandledUpTo(n), committed' = n,
         UNCHANGED <<log, stored, failed, skipped>>
  PROVE  Delivery!Ack
<1>1. committed \in 0 .. Len(log)
  BY DEF IInv, TypeOK
<1>2. n \in committed + 1 .. Len(log)
  BY <1>1
<1>3. \A o \in committed + 1 .. n : \A t \in log[o] : Delivery!Handled(o, t)
  <2> SUFFICES ASSUME NEW o \in committed + 1 .. n, NEW t \in log[o] PROVE Delivery!Handled(o, t)
    OBVIOUS
  <2>1. o \in 1 .. n
    BY <1>1
  <2>2. Handled(o, t)
    BY <2>1 DEF HandledUpTo
  <2> QED BY <2>2 DEF Handled, Delivery!Handled
<1> QED BY <1>2, <1>3 DEF Delivery!Ack

deliveryVars == <<log, committed, stored, failed \cup skipped>>

\* A write of a table, failed or not, handles rows that are due.
LEMMA WriteRefines == IInv /\ Write => Delivery!Handle
<1> SUFFICES ASSUME IInv, Write PROVE Delivery!Handle
  OBVIOUS
<1>1. PICK t \in Table : WriteTable(t) \/ WriteFails(t)
  BY DEF Write
<1>2. pc = "write" /\ t \in todo /\ UNCHANGED <<log, committed>>
  BY <1>1 DEF WriteTable, WriteFails
<1>3. Rows(t) \subseteq Undone
  BY <1>2 DEF Undone
<1>4. CASE WriteTable(t)
  <2>1. PICK bad \in SUBSET Rows(t) : Store(Rows(t) \ bad) /\ skipped' = skipped \cup bad
    BY <1>4 DEF WriteTable
  <2>2. failed' = failed
    BY <1>4 DEF WriteTable
  <2>3. failed' \cup skipped' = failed \cup skipped \cup bad
    BY <2>1, <2>2
  <2>4. Rows(t) \ bad \subseteq Undone /\ bad \subseteq Undone
    BY <1>3, <2>1
  <2> QED BY <1>2, <2>1, <2>3, <2>4, HandleStep
<1>5. CASE WriteFails(t)
  <2>1. PICK S \in {{}, Rows(t)} : Store(S)
    BY <1>5 DEF WriteFails
  <2>2. failed' \cup skipped' = failed \cup skipped \cup Undone
    BY <1>5 DEF WriteFails
  <2>3. S \subseteq Undone
    BY <1>3, <2>1
  <2> QED BY <1>2, <2>1, <2>2, <2>3, HandleStep
<1> QED BY <1>1, <1>4, <1>5

\* A commit acknowledges what lies behind the position, or nothing.
LEMMA CommitRefines == IInv /\ Commit => Delivery!Ack \/ UNCHANGED deliveryVars
<1> SUFFICES ASSUME IInv, Commit PROVE Delivery!Ack \/ UNCHANGED deliveryVars
  OBVIOUS
<1>1. UNCHANGED <<log, stored, failed, skipped>> /\ committed' \in {committed, pos}
  BY DEF Commit
<1>2. pos \in 0 .. Len(log) /\ committed \in Nat /\ committed <= pos /\ HandledUpTo(pos)
  BY DEF IInv, TypeOK, Commit
<1>3. CASE committed' = committed
  BY <1>1, <1>3 DEF deliveryVars
<1>4. CASE committed' = pos /\ committed < pos
  BY <1>1, <1>2, <1>4, AckStep
<1> QED BY <1>1, <1>2, <1>3, <1>4

\* Every step of the loop is a step of the abstract consumer or invisible to it.
LEMMA NextRefines == IInv /\ [Next]_vars => [Delivery!Next]_deliveryVars
<1> SUFFICES ASSUME IInv, [Next]_vars PROVE Delivery!Next \/ UNCHANGED deliveryVars
  OBVIOUS
<1>1. CASE Publish
  <2>1. PICK r \in SUBSET Tables : log' = Append(log, r)
    BY <1>1 DEF Publish
  <2>2. r \in SUBSET Table
    BY TablesAreTables
  <2>3. Len(log) < MaxLog /\ UNCHANGED <<committed, stored, failed, skipped>>
    BY <1>1 DEF Publish, writerVars
  <2> QED BY <2>1, <2>2, <2>3 DEF Delivery!Next, Delivery!Publish
<1>2. CASE Write
  BY <1>2, WriteRefines DEF Delivery!Next
<1>3. CASE Commit
  BY <1>3, CommitRefines DEF Delivery!Next
<1>4. CASE AutoCommit
  <2>1. /\ committed < head /\ committed' = head /\ HandledUpTo(head)
        /\ UNCHANGED <<log, stored, failed, skipped>>
    BY <1>4 DEF AutoCommit, IInv
  <2>2. head \in 0 .. Len(log)
    BY DEF IInv, TypeOK
  <2> QED BY <2>1, <2>2, AckStep DEF Delivery!Next
<1>5. CASE Poll \/ Stop \/ Start
  BY <1>5 DEF Poll, Stop, Start, deliveryVars
<1>6. CASE UNCHANGED vars
  BY <1>6 DEF vars, writerVars, deliveryVars
<1> QED BY <1>1, <1>2, <1>3, <1>4, <1>5, <1>6 DEF Next, WriterNext

\* The loops of flow-enricher and gnmi-writer implement the consumer of
\* StreamDelivery: rows are stored or given up only while the offset has not
\* passed their record, and the offset passes only handled records.
THEOREM StreamImplementsDelivery == Spec => Delivery!Safety
<1>1. Init => Delivery!Init
  BY DEF Init, Delivery!Init, Offset, Delivery!Offset
<1>2. IInv /\ [Next]_vars => [Delivery!Next]_<<log, committed, stored, failed \cup skipped>>
  BY NextRefines DEF deliveryVars
<1> QED BY <1>1, <1>2, StreamInvariant, PTL DEF Spec, Delivery!Safety

-----------------------------------------------------------------------------
(* Behind the flow-ingest server *)

Bit(b) == IF b THEN 1 ELSE 0

\* What is on its way to the topic.  Every packet read is in one place at a
\* time, so the topic cannot outgrow the packets read; the channel is closed
\* by Run only after it has seen both loops end, and they do not start again.
IngestInv ==
  /\ feed \in Feeds
  /\ reader \in {"read", "send", "backoff", "done"}
  /\ hand \in SUBSET Tables
  /\ queue \in Seq(SUBSET Tables) /\ inflight \in Seq(SUBSET Tables)
  /\ received \in 0 .. MaxLog
  /\ feed # "server" => inflight = <<>>
  /\ feed = "server" =>
       Len(log) + Len(inflight) + Len(queue) + Bit(reader = "send") <= received
  /\ chanClosed => main \in {"drain", "stopped"}
  /\ main \in {"drain", "stopped"} => reader = "done"

\* The server starts with nothing on its way.
LEMMA InitIngestInv == InitIngest => IInv /\ IngestInv
<1> SUFFICES ASSUME InitIngest PROVE IInv /\ IngestInv
  OBVIOUS
<1>1. CASE feed = "external"
  BY <1>1, InitIInv, StreamAssumption DEF InitIngest, Init, IngestInv, Bit
<1>2. CASE feed # "external"
  <2>1. TypeOK
    BY <1>2, StreamAssumption, IngestAssumption DEF InitIngest, TypeOK
  <2>2. IInv
    BY <1>2, <2>1 DEF InitIngest, IInv, HandledUpTo
  <2>3. IngestInv
    BY <1>2, StreamAssumption DEF InitIngest, IngestInv, Bit
  <2>. QED  BY <2>2, <2>3
<1>. QED  BY <1>1, <1>2

\* The client of the broker hands over a record the server has read: to the
\* consumer a record is published, or nothing happens.
LEMMA ProducedPublishes ==
  ASSUME IInv, IngestInv, Produced
  PROVE  Publish \/ UNCHANGED vars
<1>1. feed = "server" /\ inflight # <<>>
  BY DEF Produced, IngestInv
<1>2. Len(inflight) > 0 /\ Head(inflight) \in SUBSET Tables
  BY <1>1 DEF IngestInv
<1>3. Len(log) < MaxLog
  <2>1. Len(log) \in Nat /\ Len(queue) \in Nat /\ Len(inflight) \in Nat /\ MaxLog \in Nat
    BY StreamAssumption DEF IInv, TypeOK, IngestInv
  <2>. QED  BY <1>1, <1>2, <2>1 DEF IngestInv, Bit
<1>. QED  BY <1>2, <1>3 DEF Produced, Publish, vars

\* To the consumer every step of the whole is one of its own, the arrival of
\* a record, or nothing.
LEMMA IngestStepIsStreamStep ==
  IInv /\ IngestInv /\ [NextIngest]_allVars => [Next]_vars
BY ProducedPublishes DEF NextIngest, Next, allVars

\* Sequences of packets: what appending and taking off do to their length.
LEMMA PacketSeqs ==
  ASSUME NEW S, NEW q \in Seq(S)
  PROVE  /\ Len(q) \in Nat
         /\ \A x \in S : Append(q, x) \in Seq(S) /\ Len(Append(q, x)) = Len(q) + 1
         /\ q # <<>> => /\ Head(q) \in S /\ Tail(q) \in Seq(S)
                        /\ Len(Tail(q)) = Len(q) - 1 /\ Len(q) > 0
OBVIOUS

\* Every step keeps the order in which the server shuts down and its count of
\* packets.
LEMMA NextIngestInv == IInv /\ IngestInv /\ [NextIngest]_allVars => IngestInv'
<1> SUFFICES ASSUME IInv, IngestInv, [NextIngest]_allVars PROVE IngestInv'
  OBVIOUS
<1>0. Len(log) \in Nat /\ MaxLog \in Nat /\ IngestInv
  BY StreamAssumption DEF IInv, TypeOK
<1>1. ASSUME UNCHANGED vars PROVE Tables' = Tables /\ log' = log
  BY <1>1 DEF vars, writerVars, Tables
<1>2. ASSUME UNCHANGED serverVars, Tables' = Tables, feed = "server" => log' = log
      PROVE  IngestInv'
  BY <1>2 DEF serverVars, IngestInv
<1>3. CASE WriterNext /\ UNCHANGED serverVars
  <2>1. who' = who /\ log' = log
    BY <1>3 DEF WriterNext, Poll, Write, WriteTable, WriteFails, Commit, AutoCommit, Stop, Start
  <2>. QED  BY <1>2, <1>3, <2>1 DEF Tables
<1>4. CASE feed = "external" /\ Publish /\ UNCHANGED serverVars
  BY <1>2, <1>4 DEF Publish, writerVars, Tables
<1>5. CASE Produced
  <2>1. Tables' = Tables /\ feed = "server" /\ inflight # <<>>
    BY <1>0, <1>5 DEF Produced, writerVars, Tables, IngestInv
  <2>2. /\ inflight' \in Seq(SUBSET Tables) /\ Len(inflight') = Len(inflight) - 1
        /\ Len(inflight) \in Nat /\ Len(queue) \in Nat
    BY <1>0, <1>5, <2>1, PacketSeqs DEF Produced, IngestInv
  <2>3. Len(log') \in {Len(log), Len(log) + 1}
    BY <1>5 DEF Produced, IInv, TypeOK
  <2>. QED  BY <1>0, <1>5, <2>1, <2>2, <2>3 DEF Produced, IngestInv, Bit
<1>6. ASSUME feed = "server", Server, UNCHANGED vars PROVE IngestInv'
  <2>0. /\ Tables' = Tables /\ log' = log
        /\ Len(queue) \in Nat /\ Len(inflight) \in Nat
    BY <1>0, <1>1, <1>6, PacketSeqs DEF IngestInv
  <2>1. CASE Read
    BY <1>0, <2>0, <2>1 DEF Read, IngestInv, Bit
  <2>2. CASE ReadFails \/ ReadBackoff
    BY <1>0, <2>0, <2>2 DEF ReadFails, ReadBackoff, IngestInv, Bit
  <2>3. CASE Send
    <3>1. /\ queue' \in Seq(SUBSET Tables) /\ Len(queue') \in Nat
          /\ Len(queue') + Bit(reader' = "send") <= Len(queue) + Bit(reader = "send")
      <4>1. CASE queue' = Append(queue, hand) /\ reader' = "read"
        <5>1. queue' \in Seq(SUBSET Tables) /\ Len(queue') = Len(queue) + 1
          BY <1>0, <4>1, PacketSeqs DEF IngestInv
        <5>. QED  BY <2>0, <2>3, <4>1, <5>1 DEF Send, Bit
      <4>2. CASE queue' = queue /\ reader' = "done"
        BY <1>0, <2>0, <2>3, <4>2 DEF Send, IngestInv, Bit
      <4>. QED  BY <2>3, <4>1, <4>2 DEF Send
    <3>. QED  BY <1>0, <2>0, <2>3, <3>1 DEF Send, IngestInv, Bit
  <2>4. CASE HealthLoop
    BY <1>0, <2>0, <2>4 DEF HealthLoop, Accept, HealthBackoff, IngestInv
  <2>5. CASE Cancel \/ CloseListeners
    BY <1>0, <2>0, <2>5 DEF Cancel, CloseListeners, IngestInv
  <2>6. CASE Run
    BY <1>0, <2>0, <2>6 DEF Run, Ended, IngestInv
  <2>7. ASSUME NEW w \in Worker, Ingest(w) PROVE IngestInv'
    <3>1. /\ queue' \in Seq(SUBSET Tables) /\ Len(queue') = Len(queue) - 1
          /\ inflight' \in Seq(SUBSET Tables)
          /\ Len(inflight') \in {Len(inflight), Len(inflight) + 1}
      BY <1>0, <2>0, <2>7, PacketSeqs DEF Ingest, IngestInv
    <3>2. UNCHANGED <<feed, reader, hand, received, chanClosed, main>>
      BY <2>7 DEF Ingest
    <3>3. Len(log') + Len(inflight') + Len(queue') + Bit(reader' = "send") <= received'
      BY <1>0, <1>6, <2>0, <3>1, <3>2 DEF IngestInv, Bit
    <3>. QED  BY <1>0, <1>6, <2>0, <3>1, <3>2, <3>3 DEF IngestInv
  <2>8. ASSUME NEW w \in Worker, WorkerExit(w) PROVE IngestInv'
    BY <1>0, <2>0, <2>8 DEF WorkerExit, IngestInv
  <2>. QED  BY <1>6, <2>1, <2>2, <2>3, <2>4, <2>5, <2>6, <2>7, <2>8
            DEF Server, ReadLoop, WorkerStep
<1>7. CASE UNCHANGED allVars
  BY <1>1, <1>2, <1>7 DEF allVars
<1>. QED  BY <1>3, <1>4, <1>5, <1>6, <1>7 DEF NextIngest

\* Both invariants hold of the server, the topic and the consumer together.
THEOREM IngestInvariant == SpecIngest => [](IInv /\ IngestInv)
BY InitIngestInv, NextIngestInv, IngestStepIsStreamStep, NextIInv, PTL DEF SpecIngest

\* Run closes the channel only after readLoop has returned, whatever ends
\* first and however the loops back off: no send can hit the closed channel.
THEOREM IngestNoSendOnClosed == SpecIngest => []NoSendOnClosed
<1>1. IngestInv => NoSendOnClosed
  BY DEF IngestInv, NoSendOnClosed
<1>. QED  BY <1>1, IngestInvariant, PTL

\* Behind the server, too, the offset of the group passes no row that was
\* neither stored nor seen to fail.
THEOREM IngestCommittedHandled == SpecIngest => []CommittedHandled
<1>1. IInv => CommittedHandled
  BY DEF IInv, CommittedHandled, HandledUpTo, Handled
<1>. QED  BY <1>1, IngestInvariant, PTL

\* The server, the topic and the consumer together implement the safety part
\* of at-least-once delivery.
THEOREM IngestImplementsDelivery == SpecIngest => Delivery!Safety
<1>1. InitIngest => Delivery!Init
  BY DEF InitIngest, Init, Delivery!Init, Offset, Delivery!Offset
<1>2. IInv /\ IngestInv /\ [NextIngest]_allVars
        => [Delivery!Next]_<<log, committed, stored, failed \cup skipped>>
  BY IngestStepIsStreamStep, NextRefines DEF deliveryVars
<1>. QED  BY <1>1, <1>2, IngestInvariant, PTL DEF SpecIngest, Delivery!Safety
=============================================================================
