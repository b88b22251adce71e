----------------------------- MODULE FlowIngest -----------------------------
(***************************************************************************)
(* The flow-ingest server in front of the topic that flow-enricher reads:  *)
(* a reader of UDP packets, a bounded channel, workers that produce to     *)
(* Kafka, a health listener, and Run, which stops them all.                *)
(***************************************************************************)
EXTENDS StreamWriter

CONSTANTS
  Worker,       \* ingest workers
  BufferSize,   \* BufferSizePackets
  Feeds         \* what fills the topic: "server", "external"

VARIABLES
  feed,
  cancelled,    \* the context of Run
  closed,       \* both listeners are closed
  reader,       \* readLoop: "read", "send", "backoff" or "done"
  hand,         \* packet it holds: the tables of its samples, {} for none
  received,     \* packets read so far
  queue,        \* the channel
  chanClosed,
  health,       \* healthLoop: "accept", "backoff" or "done"
  worker,       \* worker -> "run" or "done"
  inflight,     \* records handed to the Kafka client
  main          \* Run: "first", "second", "drain" or "stopped"

serverVars == <<feed, cancelled, closed, reader, hand, received, queue,
                chanClosed, health, worker, inflight, main>>
allVars == <<vars, serverVars>>

ASSUME IngestAssumption ==
  /\ BufferSize \in Nat \ {0}
  /\ Feeds \subseteq {"server", "external"}
  /\ "server" \in Feeds => "flow" \in Consumers

\* The faults of the consumer are looked at behind an external producer.
InitIngest ==
  /\ feed \in Feeds
  /\ IF feed = "external" THEN Init
     ELSE /\ who = "flow" /\ log = <<>>
          /\ committed = 0 /\ head = 0 /\ pos = 0
          /\ pc = "poll" /\ todo = {}
          /\ failed = {} /\ skipped = {}
          /\ stored = [o \in Offset |-> [t \in Table |-> 0]]
          /\ restarts = MaxRestarts /\ faults = MaxFaults
  /\ cancelled = FALSE /\ closed = FALSE
  /\ reader = "read" /\ hand = {} /\ received = 0
  /\ queue = <<>> /\ chanClosed = FALSE
  /\ health = "accept"
  /\ worker = [w \in Worker |-> "run"]
  /\ inflight = <<>>
  /\ main = "first"

\* readLoop
Read ==
  /\ reader = "read" /\ ~closed /\ received < MaxLog
  /\ \E r \in SUBSET Tables : hand' = r
  /\ received' = received + 1
  /\ reader' = "send"
  /\ UNCHANGED <<feed, cancelled, closed, queue, chanClosed, health, worker,
                 inflight, main>>

\* A read that times out is tried again unless the context is done; any other
\* error backs off; SetReadDeadline failing ends the loop.
ReadFails ==
  /\ reader = "read"
  /\ \/ reader' = "done"
     \/ ~cancelled /\ ~closed /\ reader' = "backoff"
  /\ UNCHANGED <<feed, cancelled, closed, hand, received, queue, chanClosed,
                 health, worker, inflight, main>>

ReadBackoff ==
  /\ reader = "backoff"
  /\ \/ reader' = "read"
     \/ cancelled /\ reader' = "done"
  /\ UNCHANGED <<feed, cancelled, closed, hand, received, queue, chanClosed,
                 health, worker, inflight, main>>

\* Mutant: the send does not watch the context.
SendBlocks ==
  /\ reader = "send" /\ Len(queue) < BufferSize
  /\ queue' = Append(queue, hand)
  /\ reader' = "read"
  /\ hand' = {}
  /\ UNCHANGED <<feed, cancelled, closed, received, chanClosed, health, worker,
                 inflight, main>>

Send ==
  /\ reader = "send"
  /\ \/ /\ Len(queue) < BufferSize
        /\ queue' = Append(queue, hand)
        /\ reader' = "read"
     \/ /\ cancelled
        /\ reader' = "done"
        /\ UNCHANGED queue
  /\ hand' = {}
  /\ UNCHANGED <<feed, cancelled, closed, received, chanClosed, health, worker,
                 inflight, main>>

\* healthLoop
Accept ==
  /\ health = "accept"
  /\ IF cancelled THEN closed /\ health' = "done" ELSE health' = "backoff"
  /\ UNCHANGED <<feed, cancelled, closed, reader, hand, received, queue,
                 chanClosed, worker, inflight, main>>

HealthBackoff ==
  /\ health = "backoff"
  /\ \/ health' = "accept"
     \/ cancelled /\ health' = "done"
  /\ UNCHANGED <<feed, cancelled, closed, reader, hand, received, queue,
                 chanClosed, worker, inflight, main>>

\* ingestWorker and ingestPacket: a packet without a flow sample is dropped.
Ingest(w) ==
  /\ worker[w] = "run" /\ queue # <<>>
  /\ queue' = Tail(queue)
  /\ inflight' = IF Head(queue) = {} THEN inflight ELSE Append(inflight, Head(queue))
  /\ UNCHANGED <<feed, cancelled, closed, reader, hand, received, chanClosed,
                 health, worker, main>>

WorkerExit(w) ==
  /\ worker[w] = "run"
  /\ cancelled \/ (chanClosed /\ queue = <<>>)
  /\ worker' = [worker EXCEPT ![w] = "done"]
  /\ UNCHANGED <<feed, cancelled, closed, reader, hand, received, queue,
                 chanClosed, health, inflight, main>>

\* The client of the broker calls back.
Produced ==
  /\ inflight # <<>>
  /\ inflight' = Tail(inflight)
  /\ UNCHANGED log \/ log' = Append(log, Head(inflight))
  /\ UNCHANGED <<writerVars, feed, cancelled, closed, reader, hand, received,
                 queue, chanClosed, health, worker, main>>

\* Run
Cancel ==
  /\ ~cancelled /\ cancelled' = TRUE
  /\ UNCHANGED <<feed, closed, reader, hand, received, queue, chanClosed,
                 health, worker, inflight, main>>

CloseListeners ==
  /\ cancelled /\ ~closed /\ closed' = TRUE
  /\ UNCHANGED <<feed, cancelled, reader, hand, received, queue, chanClosed,
                 health, worker, inflight, main>>

Ended == (IF reader = "done" THEN 1 ELSE 0) + (IF health = "done" THEN 1 ELSE 0)

\* Mutant: the channel is closed as soon as one of the two loops has ended.
RunHasty ==
  /\ \/ /\ main = "first" /\ Ended >= 1
        /\ main' = "drain" /\ cancelled' = TRUE /\ chanClosed' = TRUE
     \/ /\ main = "drain" /\ \A w \in Worker : worker[w] = "done"
        /\ main' = "stopped"
        /\ UNCHANGED <<cancelled, chanClosed>>
  /\ UNCHANGED <<feed, closed, reader, hand, received, queue, health, worker,
                 inflight>>

Run ==
  /\ \/ /\ main = "first" /\ Ended >= 1
        /\ main' = "second" /\ cancelled' = TRUE
        /\ UNCHANGED chanClosed
     \/ /\ main = "second" /\ Ended = 2
        /\ main' = "drain" /\ chanClosed' = TRUE
        /\ UNCHANGED cancelled
     \/ /\ main = "drain" /\ \A w \in Worker : worker[w] = "done"
        /\ main' = "stopped"
        /\ UNCHANGED <<cancelled, chanClosed>>
  /\ UNCHANGED <<feed, closed, reader, hand, received, queue, health, worker,
                 inflight>>

ReadLoop == Read \/ ReadFails \/ ReadBackoff \/ Send
HealthLoop == Accept \/ HealthBackoff
WorkerStep(w) == Ingest(w) \/ WorkerExit(w)

Server ==
  \/ ReadLoop \/ HealthLoop \/ Cancel \/ CloseListeners \/ Run
  \/ \E w \in Worker : WorkerStep(w)

NextIngest ==
  \/ WriterNext /\ UNCHANGED serverVars
  \/ feed = "external" /\ Publish /\ UNCHANGED serverVars
  \/ feed = "server" /\ Server /\ UNCHANGED vars
  \/ Produced

\* Goroutines are scheduled; a read ends at its deadline at the latest, and an
\* Accept on a closed listener returns.
FairIngest ==
  /\ WF_allVars(Poll /\ UNCHANGED serverVars)
  /\ WF_allVars(Write /\ UNCHANGED serverVars)
  /\ WF_allVars(Commit /\ UNCHANGED serverVars)
  /\ WF_allVars(Start /\ UNCHANGED serverVars)
  /\ WF_allVars(cancelled /\ ReadLoop /\ UNCHANGED vars)
  /\ WF_allVars(cancelled /\ HealthLoop /\ UNCHANGED vars)
  /\ WF_allVars(CloseListeners /\ UNCHANGED vars)
  /\ WF_allVars(Run /\ UNCHANGED vars)
  /\ \A w \in Worker : WF_allVars(WorkerStep(w) /\ UNCHANGED vars)

SpecIngest == InitIngest /\ [][NextIngest]_allVars /\ FairIngest
-----------------------------------------------------------------------------
\* Run closes the channel only after readLoop has returned: a send on a closed
\* channel would panic.
NoSendOnClosed == chanClosed => reader = "done"

\* Whatever the reader, the workers and the health loop are doing when the
\* context ends, Run returns: no send, accept or wait is left blocked.
\* (A context stays cancelled, so this is cancelled ~> main = "stopped".)
ShutdownCompletes == []<>(cancelled => main = "stopped")
=============================================================================
