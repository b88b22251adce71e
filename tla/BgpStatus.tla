------------------------------ MODULE BgpStatus ------------------------------
(***************************************************************************)
(* The BGP status submitter of the device telemetry agent: a tick reads    *)
(* the users of the device from the ledger, observes tunnels and sessions, *)
(* and queues status updates; a worker submits them with retries.          *)
(*                                                                         *)
(* A submission that returns an error may still land, then or later        *)
(* (waitForSignatureVisible gives up after a few seconds).                 *)
(***************************************************************************)
EXTENDS Naturals, Sequences, FiniteSets

CONSTANTS
  User,
  Netns,        \* user -> the network namespace of its tunnel
  Grace,        \* DownGracePeriod, in units of Elapse
  QueueCap,     \* taskChannelCapacity
  MaxRetries,   \* submitMaxRetries
  Mode,         \* environments: [users, moves, faults, sure, restart]
  None

VARIABLES
  mode,         \* the environment of this behaviour
  active,       \* users activated on the device
  link,         \* user -> "up", "idle" (tunnel without session), "none"
  chain,        \* user -> status on the ledger
  state,        \* user -> userState, or None
  pending,      \* users with a submission in flight
  tasks,        \* taskCh
  snap,         \* program data the running tick has fetched, or None
  worker,       \* the task being submitted, or None
  late,         \* transactions given up on that may still land
  moves,        \* changes of sessions and users left
  faults        \* failing calls left

vars == <<mode, active, link, chain, state, pending, tasks, snap, worker, late,
          moves, faults>>

Status == {"unknown", "up", "down"}
\* age: of the last write; PeriodicRefreshInterval spans several ticks.
\* since: Elapse steps after the session was last seen up, counted to Grace.
UserState == [status : Status, age : {"unwritten", "fresh", "aging", "due"},
              since : 0 .. Grace \cup {None}]
Task == [user : User, status : Status]
WorkerState == [task : Task, tries : 0 .. MaxRetries, end : {"none", "ok", "error"}]

ASSUME StatusAssumption ==
  /\ Grace \in Nat /\ QueueCap \in Nat \ {0} /\ MaxRetries \in Nat \ {0}
  /\ IsFiniteSet(User) /\ \A m \in Mode : m.users \subseteq User
  /\ None \notin WorkerState

Init ==
  /\ mode \in Mode
  /\ active \in {{}, mode.users}
  /\ link = [u \in User |-> "none"]
  /\ chain = [u \in User |-> "unknown"]
  /\ state = [u \in User |-> None]
  /\ pending = {} /\ tasks = <<>> /\ snap = None /\ worker = None /\ late = {}
  /\ moves = mode.moves /\ faults = mode.faults

\* Sessions and tunnels come and go.
LinkChange ==
  /\ moves > 0 /\ moves' = moves - 1
  /\ \E u \in mode.users, l \in {"up", "idle", "none"} :
       l # link[u] /\ link' = [link EXCEPT ![u] = l]
  /\ UNCHANGED <<mode, active, chain, state, pending, tasks, snap, worker, late, faults>>

\* A user is deactivated, or activated again; a new account starts as unknown.
UserChange ==
  /\ moves > 0 /\ moves' = moves - 1
  /\ \E u \in mode.users :
       IF u \in active
       THEN active' = active \ {u} /\ UNCHANGED chain
       ELSE /\ active' = active \cup {u}
            /\ UNCHANGED chain \/ chain' = [chain EXCEPT ![u] = "unknown"]
  /\ UNCHANGED <<mode, link, state, pending, tasks, snap, worker, late, faults>>

\* Time passes: grace periods run out, periodic writes become due.
Elapse ==
  /\ \E S \in SUBSET {u \in User : state[u] # None} :
       state' = [u \in User |-> IF state[u] = None THEN None
                 ELSE [state[u] EXCEPT
                        !.age = IF @ = "aging" /\ u \in S THEN "due" ELSE @,
                        !.since = IF @ \in {None, Grace} THEN @ ELSE @ + 1]]
  /\ UNCHANGED <<mode, active, link, chain, pending, tasks, snap, worker, late,
                 moves, faults>>

\* tick, first half: the program data and the users of this device.
Fetch ==
  /\ snap = None
  /\ snap' = [active |-> active, chain |-> chain]
  /\ UNCHANGED <<mode, active, link, chain, state, pending, tasks, worker, late,
                 moves, faults>>

\* userStateFor
StateFor(u, initial) ==
  IF state[u] # None THEN state[u]
  ELSE [status |-> initial, age |-> "unwritten", since |-> None]

\* computeEffectiveStatus
Effective(seen, us) ==
  IF seen = "up" \/ (us.since # None /\ us.since < Grace) THEN "up" ELSE "down"

\* Mutant: no periodic refresh.
ShouldSubmitOnce(us, s) == us.age = "unwritten" \/ us.status # s

ShouldSubmit(us, s) == us.age \in {"unwritten", "due"} \/ us.status # s

\* Without a tunnel there is nothing to update unless the last write was Up.
SkipGone(seen, us) == seen = "none" /\ us.status # "up"

\* What the tick makes of one user: the new state and the status to submit.
Judge(u, seen) ==
  LET us == StateFor(u, snap.chain[u])
      up == IF seen = "up" THEN [us EXCEPT !.since = 0] ELSE us
      s  == Effective(seen, up)
  IN  [state |-> [up EXCEPT !.age = IF @ = "fresh" THEN "aging" ELSE @], status |-> s,
       submit |-> /\ ~SkipGone(seen, us)
                  /\ ShouldSubmit(up, s)
                  /\ u \notin pending]

Orders(S) ==
  {o \in [1 .. Cardinality(S) -> S] : \A i, j \in DOMAIN o : o[i] = o[j] => i = j}

\* Entries of users that are not active any more.
Pruned == {u \in User : state[u] # None /\ u \notin snap.active}

\* The send on taskCh does not block: what does not fit is left to a later tick.
Room == QueueCap - Len(tasks)

\* tick, second half, under s.mu: collect the namespaces, of which some but not
\* all may fail, judge the users, queue what fits, prune.
Apply ==
  /\ snap # None
  /\ \E bad \in SUBSET {Netns[u] : u \in User} :
       /\ bad # {} => faults > 0 /\ \E u \in User : Netns[u] \notin bad
       /\ faults' = IF bad = {} THEN faults ELSE faults - 1
       /\ LET j == [u \in snap.active |->
                      Judge(u, IF Netns[u] \in bad THEN "none" ELSE link[u])]
              want == {u \in snap.active : j[u].submit}
          IN  \E o \in Orders(want) :
                LET sent == SubSeq(o, 1, IF Room < Len(o) THEN Room ELSE Len(o))
                IN  /\ tasks' = tasks \o [i \in DOMAIN sent |->
                                   [user |-> sent[i], status |-> j[sent[i]].status]]
                    /\ pending' = (pending \cup {sent[i] : i \in DOMAIN sent})
                                    \ Pruned
                    /\ state' = [u \in User |->
                                   IF u \in snap.active THEN j[u].state
                                   ELSE IF u \in Pruned THEN None ELSE state[u]]
  /\ snap' = None
  /\ UNCHANGED <<mode, active, link, chain, worker, late, moves>>

\* worker
Take ==
  /\ worker = None /\ tasks # <<>>
  /\ worker' = [task |-> Head(tasks), tries |-> 0, end |-> "none"]
  /\ tasks' = Tail(tasks)
  /\ UNCHANGED <<mode, active, link, chain, state, pending, snap, late, moves, faults>>

\* submitWithRetry: one SetUserBGPStatus, finalised.
Submitted ==
  /\ worker # None /\ worker.end = "none"
  /\ chain' = [chain EXCEPT ![worker.task.user] = worker.task.status]
  /\ worker' = [worker EXCEPT !.end = "ok"]
  /\ UNCHANGED <<mode, active, link, state, pending, tasks, snap, late, moves, faults>>

\* One that fails: rejected, never seen, or not known to have landed.
SubmitFails ==
  /\ worker # None /\ worker.end = "none" /\ faults > 0
  /\ faults' = faults - 1
  /\ worker' = [worker EXCEPT
       !.tries = @ + 1,
       !.end = IF worker.tries + 1 = MaxRetries THEN "error" ELSE "none"]
  /\ UNCHANGED late \/ (~mode.sure /\ late' = late \cup {worker.task})
  /\ UNCHANGED <<mode, active, link, chain, state, pending, tasks, snap, moves>>

\* Mutant: the pending flag is cleared on success only.
FinishOkOnly ==
  /\ worker # None /\ worker.end # "none"
  /\ LET u == worker.task.user IN
     IF worker.end = "ok"
     THEN /\ pending' = pending \ {u}
          /\ state' = [state EXCEPT ![u] =
               [StateFor(u, "unknown") EXCEPT
                  !.status = worker.task.status, !.age = "fresh"]]
     ELSE UNCHANGED <<pending, state>>
  /\ worker' = None
  /\ UNCHANGED <<mode, active, link, chain, tasks, snap, late, moves, faults>>

\* Mutant: a failed submission is booked as written.
FinishBooksErrors ==
  /\ worker # None /\ worker.end # "none"
  /\ LET u == worker.task.user IN
     /\ pending' = pending \ {u}
     /\ state' = [state EXCEPT ![u] =
                    [StateFor(u, "unknown") EXCEPT
                       !.status = worker.task.status, !.age = "fresh"]]
  /\ worker' = None
  /\ UNCHANGED <<mode, active, link, chain, tasks, snap, late, moves, faults>>

\* The flag is cleared in any case, the state updated on success.
Finish ==
  /\ worker # None /\ worker.end # "none"
  /\ LET u == worker.task.user IN
     /\ pending' = pending \ {u}
     /\ state' = IF worker.end = "error" THEN state
                 ELSE [state EXCEPT ![u] =
                        [StateFor(u, "unknown") EXCEPT
                           !.status = worker.task.status, !.age = "fresh"]]
  /\ worker' = None
  /\ UNCHANGED <<mode, active, link, chain, tasks, snap, late, moves, faults>>

\* A transaction given up on lands, or its blockhash expires.
Land ==
  \E t \in late :
    /\ late' = late \ {t}
    /\ UNCHANGED chain \/ chain' = [chain EXCEPT ![t.user] = t.status]
    /\ UNCHANGED <<mode, active, link, state, pending, tasks, snap, worker, moves, faults>>

\* The agent restarts: everything but the ledger is forgotten.
Restart ==
  /\ mode.restart /\ moves > 0 /\ moves' = moves - 1
  /\ state' = [u \in User |-> None]
  /\ pending' = {} /\ tasks' = <<>> /\ snap' = None /\ worker' = None
  /\ UNCHANGED <<mode, active, link, chain, faults>>
  /\ IF worker # None /\ worker.end = "none"
     THEN ~mode.sure /\ late' = late \cup {worker.task}
     ELSE UNCHANGED late

Tick == Fetch \/ Apply
Work == Take \/ Submitted \/ SubmitFails \/ Finish

Next == LinkChange \/ UserChange \/ Elapse \/ Tick \/ Work \/ Land \/ Restart

RefreshDue ==
  /\ \E u \in User : state[u] # None /\ state[u].age = "aging"
  /\ Elapse
  /\ \A u \in User : state[u] # None => state'[u].age # "aging"

Fairness ==
  /\ WF_vars(Tick) /\ WF_vars(Work) /\ WF_vars(RefreshDue) /\ WF_vars(Land)

Spec == Init /\ [][Next]_vars /\ Fairness
-----------------------------------------------------------------------------
TypeOK ==
  /\ active \subseteq User
  /\ chain \in [User -> Status]
  /\ \A u \in User : state[u] # None => state[u] \in UserState
  /\ pending \subseteq User
  /\ tasks \in Seq(Task) /\ Len(tasks) <= QueueCap
  /\ worker # None => worker \in WorkerState
  /\ late \subseteq Task

\* The state is well typed, and a flag in pending always has a task behind it: a user that leaves, comes
\* back or whose submission fails is never blocked from being reported again.
PendingHasTask ==
  TypeOK /\ \A u \in pending :
    \/ worker # None /\ worker.task.user = u
    \/ \E i \in DOMAIN tasks : tasks[i].user = u

\* As long as errors mean that nothing was written, what the submitter believes
\* it wrote is on the ledger, except for the write the worker is reporting.
BeliefIsOnchain ==
  mode.sure =>
    \A u \in User : state[u] # None /\ state[u].age # "unwritten" =>
      \/ chain[u] \in {state[u].status, "unknown"}
      \/ worker # None /\ worker.task.user = u /\ worker.end = "ok"

\* What lasts is reported, whatever failed, landed late, was dropped from a full
\* queue or was forgotten in a restart: a session that stays up as up, one that
\* stays down on an existing tunnel as down; and, as long as errors mean that
\* nothing was written, a user whose tunnel has gone does not stay Up.
StatusReported ==
  \A u \in User :
    /\ <>[](u \in active /\ link[u] = "up") => <>[](chain[u] = "up")
    /\ <>[](u \in active /\ link[u] = "idle") => <>[](chain[u] = "down")
    /\ <>[](mode.sure /\ u \in active /\ link[u] = "none") => <>[](chain[u] # "up")
=============================================================================
