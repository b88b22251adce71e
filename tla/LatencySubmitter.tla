-------------------------- MODULE LatencySubmitter --------------------------
(***************************************************************************)
(* The path of a latency sample: the pinger (or the exporter of the        *)
(* internet latency collector) adds it to a partitioned buffer, the        *)
(* submitter takes whole partitions and writes them, in batches, to an     *)
(* account of the telemetry program.  One link; a partition is an epoch.   *)
(*                                                                         *)
(* A transaction whose sender has given up may still land (loose).         *)
(***************************************************************************)
EXTENDS Naturals, Sequences, FiniteSets, Functions

CONSTANTS
  MaxEpoch, MaxSample,  \* bounds on the epochs and on the samples
  Room,                 \* MAX_DEVICE_LATENCY_SAMPLES
  Batch,                \* MaxDeviceLatencySamplesPerBatch
  Capacity,             \* capacity of a partition of the buffer
  MaxConcurrency,
  Mode,                 \* environments, see mode
  None

VARIABLES
  mode,         \* kind: "device" or "internet"; attempts: MaxAttempts;
                \* faults, lives, samples: bounds of this behaviour
  life,         \* the agent: "up", "stopping", "last" (the final tick), "down"
  epoch,        \* current epoch of the ledger
  made,         \* samples measured so far
  adder,        \* the goroutine that measures and adds
  buf,          \* partition -> its buffer, or None
  worker,       \* partition -> the submitter's goroutine of this tick
  chain,        \* partition -> samples on its account, or None
  loose,        \* <<partition, batch>>: transactions nobody waits for
  faults, lives

vars == <<mode, life, epoch, made, adder, buf, worker, chain, loose, faults, lives>>

Key == 1 .. MaxEpoch
Sample == Key \X (1 .. MaxSample)
Device == mode.kind = "device"

ASSUME SubmitterAssumption ==
  /\ {MaxEpoch, Capacity, Batch, Room, MaxConcurrency} \subseteq Nat \ {0}
  /\ MaxSample \in Nat
  /\ \A m \in Mode : m.samples \in 0 .. MaxSample /\ m.attempts \in Nat \ {0}
  /\ None \notin Seq(Sample)

NoAdder == [pc |-> "idle", smp |-> <<1, 0>>, into |-> "map"]
NoWorker == [pc |-> "none", tmp |-> <<>>, at |-> 0, try |-> 0]

Init ==
  /\ mode \in Mode
  /\ life = "up" /\ epoch = 1 /\ made = 0
  /\ adder = NoAdder
  /\ buf = [k \in Key |-> None]
  /\ worker = [k \in Key |-> NoWorker]
  /\ chain = [k \in Key |-> None]
  /\ loose = {}
  /\ faults = 0 /\ lives = 0

\* A call fails: within the bound, or because its context is cancelled.
Fails ==
  IF life = "stopping" THEN UNCHANGED faults
  ELSE faults < mode.faults /\ faults' = faults + 1

Account(k) == IF chain[k] = None THEN <<>> ELSE chain[k]
-----------------------------------------------------------------------------
\* The pinger's tick: the epoch is read, then the peer is probed.
Measure ==
  /\ life = "up" /\ adder.pc = "idle" /\ made < mode.samples
  /\ made' = made + 1
  /\ adder' = [pc |-> "probing", smp |-> <<epoch, made + 1>>, into |-> "map"]
  /\ UNCHANGED <<mode, life, epoch, buf, worker, chain, loose, faults, lives>>

\* MemoryPartitionedBuffer.Add: the partition is looked up or created.
LookUp ==
  /\ adder.pc = "probing"
  /\ adder' = [adder EXCEPT !.pc = "adding"]
  /\ buf' = [buf EXCEPT ![adder.smp[1]] = IF @ = None THEN <<>> ELSE @]
  /\ UNCHANGED <<mode, life, epoch, made, worker, chain, loose, faults, lives>>

\* MemoryBuffer.Add: waits for room.  The partition may have been removed
\* since; then it is room in a buffer nobody reads any more.
Add ==
  LET k == adder.smp[1] IN
  /\ adder.pc = "adding" /\ adder.into # "full"
  /\ IF adder.into = "map"
     THEN Len(buf[k]) < Capacity /\ buf' = [buf EXCEPT ![k] = Append(@, adder.smp)]
     ELSE UNCHANGED buf
  /\ adder' = NoAdder
  /\ UNCHANGED <<mode, life, epoch, made, worker, chain, loose, faults, lives>>

\* MemoryPartitionedBuffer.Remove
RemovePartition(k) ==
  /\ buf' = [buf EXCEPT ![k] = None]
  /\ adder' = IF adder.pc = "adding" /\ adder.smp[1] = k /\ adder.into = "map"
                 /\ buf[k] # None
              THEN [adder EXCEPT !.into = IF Len(buf[k]) < Capacity THEN "gone" ELSE "full"]
              ELSE adder
-----------------------------------------------------------------------------
SetWorker(k, w) == worker' = [worker EXCEPT ![k] = w]
Ended(k) == SetWorker(k, NoWorker)

\* Mutant: only the partition of the current epoch is flushed.
TickCurrent ==
  /\ life \in {"up", "stopping"} /\ \A k \in Key : worker[k] = NoWorker
  /\ buf[epoch] # None
  /\ worker' = [worker EXCEPT ![epoch].pc = "queued"]
  /\ life' = IF life = "stopping" THEN "last" ELSE life
  /\ UNCHANGED <<mode, epoch, made, adder, buf, chain, loose, faults, lives>>

\* Tick: a goroutine for every partition, once those of the last are done.
Tick ==
  /\ life \in {"up", "stopping"} /\ \A k \in Key : worker[k] = NoWorker
  /\ \E k \in Key : buf[k] # None
  /\ worker' = [k \in Key |-> IF buf[k] = None THEN NoWorker
                              ELSE [NoWorker EXCEPT !.pc = "queued"]]
  /\ life' = IF life = "stopping" THEN "last" ELSE life
  /\ UNCHANGED <<mode, epoch, made, adder, buf, chain, loose, faults, lives>>

\* CopyAndReset
CopyAndReset(k) ==
  /\ worker[k].pc = "queued"
  /\ Cardinality({j \in Key : worker[j].pc \notin {"none", "queued"}}) < MaxConcurrency
  /\ IF buf[k] \in {None, <<>>}
     THEN SetWorker(k, [NoWorker EXCEPT !.pc = "epoch"]) /\ UNCHANGED buf
     ELSE /\ SetWorker(k, [pc |-> "write", tmp |-> buf[k], at |-> 0, try |-> 1])
          /\ buf' = [buf EXCEPT ![k] = <<>>]
  /\ UNCHANGED <<mode, life, epoch, made, adder, chain, loose, faults, lives>>

\* An empty partition of a past epoch is removed.
CheckEpoch(k) ==
  /\ worker[k].pc = "epoch"
  /\ \/ /\ life # "stopping" /\ UNCHANGED faults
        /\ IF k < epoch THEN RemovePartition(k) ELSE UNCHANGED <<buf, adder>>
     \/ Fails /\ UNCHANGED <<buf, adder>>
  /\ Ended(k)
  /\ UNCHANGED <<mode, life, epoch, made, chain, loose, lives>>

\* The batch the worker is at.
Part(k) == SubSeq(worker[k].tmp, worker[k].at + 1,
                  IF worker[k].at + Batch < Len(worker[k].tmp)
                  THEN worker[k].at + Batch ELSE Len(worker[k].tmp))
Fits(k, b) == chain[k] # None /\ Len(chain[k]) + Len(b) <= Room

\* WriteDeviceLatencySamples up to the sending, with the preflight against the
\* program: no account, account full, or sent.
Write(k) ==
  /\ worker[k].pc \in {"write", "rewrite"} /\ life # "stopping"
  /\ CASE chain[k] = None ->
            /\ SetWorker(k, [worker[k] EXCEPT !.pc = IF @ = "write" THEN "init" ELSE "failed"])
            /\ UNCHANGED <<buf, adder>>
       [] chain[k] # None /\ ~Fits(k, Part(k)) -> RemovePartition(k) /\ Ended(k)
       [] Fits(k, Part(k)) ->
            SetWorker(k, [worker[k] EXCEPT !.pc = "sent"]) /\ UNCHANGED <<buf, adder>>
  /\ UNCHANGED <<mode, life, epoch, made, chain, loose, faults, lives>>

\* The account is initialised.  A transaction that failed on the ledger is
\* not told from one that succeeded; one reported as failed may have landed.
Initialize(k) ==
  /\ worker[k].pc = "init"
  /\ \/ /\ life # "stopping" /\ UNCHANGED faults
        /\ chain' = [chain EXCEPT ![k] = Account(k)]
        /\ SetWorker(k, [worker[k] EXCEPT !.pc = "rewrite"])
     \/ /\ Fails /\ UNCHANGED chain
        /\ \E p \in {"rewrite", "failed"} : SetWorker(k, [worker[k] EXCEPT !.pc = p])
     \/ /\ Fails
        /\ chain' = [chain EXCEPT ![k] = Account(k)]
        /\ SetWorker(k, [worker[k] EXCEPT !.pc = "failed"])
  /\ UNCHANGED <<mode, life, epoch, made, adder, buf, loose, lives>>

\* The transaction is executed: process_write_device_latency_samples.
Execute(k) ==
  /\ worker[k].pc = "sent"
  /\ SetWorker(k, [worker[k] EXCEPT !.pc = "executed"])
  /\ chain' = IF Fits(k, Part(k)) THEN [chain EXCEPT ![k] = @ \o Part(k)] ELSE chain
  /\ UNCHANGED <<mode, life, epoch, made, adder, buf, loose, faults, lives>>

\* It is seen to be final, whether it succeeded or not: the next batch.
Confirm(k) ==
  LET next == worker[k].at + Batch IN
  /\ worker[k].pc = "executed"
  /\ IF next >= Len(worker[k].tmp) THEN Ended(k)
     ELSE SetWorker(k, [worker[k] EXCEPT !.pc = "write", !.at = next])
  /\ UNCHANGED <<mode, life, epoch, made, adder, buf, chain, loose, faults, lives>>

\* The call fails before sending, or while it waits for the transaction, which
\* may be lost, have been executed or be executed later.
CallFails(k) ==
  /\ worker[k].pc \in {"write", "rewrite", "sent", "executed"} /\ Fails
  /\ \/ UNCHANGED loose
     \/ worker[k].pc = "sent" /\ loose' = loose \cup {<<k, Part(k)>>}
  /\ SetWorker(k, [worker[k] EXCEPT !.pc = "failed"])
  /\ UNCHANGED <<mode, life, epoch, made, adder, buf, chain, lives>>

\* A transaction nobody waits for lands, fails or expires.
Late(t) ==
  /\ loose' = loose \ {t}
  /\ chain' \in {chain, IF Fits(t[1], t[2]) THEN [chain EXCEPT ![t[1]] = @ \o t[2]] ELSE chain}
  /\ UNCHANGED <<mode, life, epoch, made, adder, buf, worker, faults, lives>>

\* Mutant: after the last attempt the samples are dropped.
RetryDrops(k) ==
  LET w == worker[k] IN
  /\ w.pc = "failed"
  /\ \/ w.try < mode.attempts /\ life # "stopping"
        /\ SetWorker(k, [w EXCEPT !.pc = "write", !.at = 0, !.try = @ + 1])
     \/ w.try = mode.attempts /\ Ended(k)
  /\ UNCHANGED <<mode, life, epoch, made, adder, buf, chain, loose, faults, lives>>

\* The backoff: all batches again, or the end of the attempts.
Retry(k) ==
  LET w == worker[k] IN
  /\ w.pc = "failed"
  /\ \/ w.try < mode.attempts /\ life # "stopping"
        /\ SetWorker(k, [w EXCEPT !.pc = "write", !.at = 0, !.try = @ + 1])
     \/ (w.try = mode.attempts \/ life = "stopping" \/ (life = "last" /\ Device))
        /\ SetWorker(k, [w EXCEPT !.pc = IF Device THEN "room" ELSE "prepend"])
  /\ UNCHANGED <<mode, life, epoch, made, adder, buf, chain, loose, faults, lives>>

\* Mutant: room is not checked.
CheckRoomNever(k) ==
  /\ worker[k].pc = "room"
  /\ SetWorker(k, [worker[k] EXCEPT !.pc = "prepend"])
  /\ UNCHANGED <<mode, life, epoch, made, adder, buf, chain, loose, faults, lives>>

\* The device agent gives the samples up when the buffer cannot take them.
CheckRoom(k) ==
  LET len == IF buf[k] = None THEN 0 ELSE Len(buf[k]) IN
  /\ worker[k].pc = "room"
  /\ IF len + Len(worker[k].tmp) >= Capacity THEN Ended(k)
     ELSE SetWorker(k, [worker[k] EXCEPT !.pc = "prepend"])
  /\ UNCHANGED <<mode, life, epoch, made, adder, buf, chain, loose, faults, lives>>

\* Mutant: the samples are put back behind those added since.
PriorityPrependBehind(k) ==
  /\ worker[k].pc = "prepend"
  /\ buf' = [buf EXCEPT ![k] = (IF @ = None THEN <<>> ELSE @) \o worker[k].tmp]
  /\ Ended(k)
  /\ UNCHANGED <<mode, life, epoch, made, adder, chain, loose, faults, lives>>

\* The samples go back in front, whatever the capacity.
PriorityPrepend(k) ==
  /\ worker[k].pc = "prepend"
  /\ buf' = [buf EXCEPT ![k] = worker[k].tmp \o (IF @ = None THEN <<>> ELSE @)]
  /\ Ended(k)
  /\ UNCHANGED <<mode, life, epoch, made, adder, chain, loose, faults, lives>>
-----------------------------------------------------------------------------
EpochEnds ==
  /\ epoch < MaxEpoch
  /\ epoch' = epoch + 1
  /\ UNCHANGED <<mode, life, made, adder, buf, worker, chain, loose, faults, lives>>

\* The context is cancelled; a last tick flushes the buffer.
Stop ==
  /\ life = "up" /\ lives < mode.lives
  /\ life' = "stopping"
  /\ UNCHANGED <<mode, epoch, made, adder, buf, worker, chain, loose, faults, lives>>

\* The transactions of the running calls are abandoned.
Die ==
  /\ life' = "down"
  /\ adder' = NoAdder
  /\ buf' = [k \in Key |-> None]
  /\ worker' = [k \in Key |-> NoWorker]
  /\ loose' = loose \cup {<<k, Part(k)>> : k \in {j \in Key : worker[j].pc = "sent"}}
  /\ lives' = lives + 1
  /\ UNCHANGED <<mode, epoch, made, chain, faults>>

\* Run returns after the final tick.
Exit ==
  /\ \/ life = "last"
     \/ life = "stopping" /\ \A k \in Key : buf[k] = None
  /\ \A k \in Key : worker[k] = NoWorker
  /\ Die

Crash == life # "down" /\ lives < mode.lives /\ Die

Restart ==
  /\ life = "down" /\ life' = "up"
  /\ UNCHANGED <<mode, epoch, made, adder, buf, worker, chain, loose, faults, lives>>

Adder == LookUp \/ Add
Submit(k) ==
  \/ CopyAndReset(k) \/ CheckEpoch(k) \/ Write(k) \/ Initialize(k) \/ Execute(k)
  \/ Confirm(k) \/ CallFails(k) \/ Retry(k) \/ CheckRoom(k) \/ PriorityPrepend(k)

Next ==
  \/ Measure \/ Adder
  \/ Tick \/ \E k \in Key : Submit(k)
  \/ \E t \in loose : Late(t)
  \/ EpochEnds \/ Stop \/ Exit \/ Crash \/ Restart

\* Goroutines are scheduled, the ticker ticks, an epoch ends, a transaction
\* that somebody waits for is executed; failures are bounded.
Fairness ==
  /\ WF_vars(Adder) /\ WF_vars(Tick) /\ WF_vars(EpochEnds) /\ WF_vars(Exit) /\ WF_vars(Restart)
  /\ \A k \in Key : WF_vars(Submit(k))

Spec == Init /\ [][Next]_vars /\ Fairness
-----------------------------------------------------------------------------
InBuffer == UNION {IF buf[k] = None THEN {} ELSE Range(buf[k]) : k \in Key}
InHand == UNION {Range(worker[k].tmp) : k \in Key}
Held == InBuffer \cup InHand
        \cup (IF adder.pc = "adding" /\ adder.into = "map" THEN {adder.smp} ELSE {})

TypeOK ==
  /\ mode \in Mode
  /\ life \in {"up", "stopping", "last", "down"}
  /\ epoch \in Key /\ made \in 0 .. MaxSample
  /\ adder \in [pc : {"idle", "probing", "adding"}, smp : Key \X (0 .. MaxSample),
                into : {"map", "gone", "full"}]
  /\ adder.into # "map" => adder.pc = "adding"
  /\ DOMAIN worker = Key
  /\ \A k \in Key :
       /\ buf[k] # None => buf[k] \in Seq({k} \X (1 .. made))
       /\ worker[k].tmp \in Seq({k} \X (1 .. made))
       /\ worker[k].at < Len(worker[k].tmp) \/ worker[k].tmp = <<>>
       /\ worker[k].try \in 0 .. mode.attempts
       /\ chain[k] # None => chain[k] \in Seq({k} \X (1 .. made)) /\ Len(chain[k]) <= Room

\* A sample the agent still holds is not overtaken on its account: the ones
\* after it are written after it, through failures, retries, transactions that
\* land late and restarts.  Only when a batch no longer fits on the account
\* may a shorter one behind it be written: the batch was sent while there was
\* room, another one landed first, and that it failed then is not noticed
\* (telemetry/internal/telemetry/submitter.go:95-166, sdk/go/telemetry/executor.go:105-).
NotOvertaken ==
  \A r \in Held, k \in Key :
    \A j \in DOMAIN Account(k) :
      /\ r[1] = k /\ r[2] < Account(k)[j][2]
      /\ j + Batch <= Room + 1
      => \E i \in 1 .. j - 1 : Account(k)[i] = r

\* The state is well typed, and the device agent's buffer stays below twice its
\* capacity, although samples may be added between the test for room and the
\* prepend.
DeviceBufferBounded ==
  TypeOK /\ (Device => \A k \in Key : buf[k] # None => Len(buf[k]) < 2 * Capacity)

\* Add returns, however long its partition stays full, unless the partition was
\* removed from the map while it was full: nobody empties that one any more.
AddReturns == []<>(adder.pc # "adding" \/ adder.into = "full")

Delivery == INSTANCE SampleDelivery WITH
  running <- life # "down", sheds <- Device, held <- Held,
  ledger <- [k \in Key |-> Account(k)]

\* The submitter keeps the promise of SampleDelivery.
DeliversSamples == Delivery!Spec
=============================================================================
