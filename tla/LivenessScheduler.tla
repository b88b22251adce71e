-------------------------- MODULE LivenessScheduler --------------------------
(***************************************************************************)
(* The timers of one session: the event queue, the scheduler goroutine     *)
(* that pops it, the receiver goroutine and a caller of AdminDownRoute,    *)
(* interleaved at every release of the session's mutex and of the queue's. *)
(* A goroutine reads the clock once and keeps working with that reading.   *)
(*                                                                         *)
(* RegisterRoute holds the manager's mutex until the first transmission is *)
(* queued, which keeps the receiver and AdminDownRoute out: Init is the    *)
(* state it leaves.                                                        *)
(***************************************************************************)
EXTENDS LivenessSession, Sequences

CONSTANTS
  Cfg, Discr, LocalDiscr,
  Scenario,     \* the environments to consider
  Lag           \* units a goroutine or a due event may be kept waiting

\* packets: control packets that may arrive; callers: whether the route is
\* withdrawn or taken AdminDown; maxEvents: events the queue takes before
\* detect events are dropped, 0 for any number; maxTime: bound on the clock.
ASSUME SchedulerAssumption ==
  /\ ValidConfig(Cfg)
  /\ LocalDiscr \in Discr
  /\ Scenario \subseteq [packets : SUBSET PacketType(Discr, {Cfg.txMin, Cfg.rxMin}),
                         callers : BOOLEAN, maxEvents : Nat, maxTime : Nat]
  /\ Lag \in Nat

VARIABLES
  scen,         \* the environment, fixed at the start
  now, sess,
  txMark,       \* nextTxScheduled
  detMark,      \* nextDetectScheduled
  queue,        \* the events, earliest first, equal times in order of arrival
  th,           \* thread -> where it is and what it holds in local variables
  sentAdmin     \* history: an AdminDown packet has been sent

vars == <<scen, now, sess, txMark, detMark, queue, th, sentAdmin>>

Thread == {"sched", "recv", "admin"}
\* The clock, the longest detect time or interval ahead of it, and its jitter.
Time == 0 .. scen.maxTime + 2 * (Cfg.detectMult * Cfg.maxTxCeil + Cfg.backoffMax)
Idle == [pc |-> "idle"]
Pc == {"tx", "send", "state", "checkTx", "computeTx", "publishTx", "pushTx",
       "detect", "expire", "pushDown", "active",
       "handle", "arm", "mark", "overflow", "undo", "pushDetect"}
\* t: the clock reading; at: the event popped, or the time being scheduled.
Local == [pc : Pc, t : Time, at : Time \cup {NoTime}]
Event == [kind : {"tx", "detect"}, when : Time]

TypeOK ==
  /\ scen \in Scenario
  /\ now \in 0 .. scen.maxTime
  /\ sess \in SessionType(Discr, {0} \cup Cfg.minTxFloor .. Cfg.maxTxCeil, Time)
  /\ txMark \in Time \cup {NoTime} /\ detMark \in Time \cup {NoTime}
  /\ queue \in Seq(Event)
  /\ \A i, j \in DOMAIN queue : i < j => queue[i].when <= queue[j].when
  /\ th \in [Thread -> {Idle} \cup Local]
  /\ sentAdmin \in BOOLEAN

\* EventQueue.Push: a heap ordered by time, then by arrival.  The event goes
\* behind those that are not later.
Push(e) ==
  \E n \in 0 .. Len(queue) :
    /\ \A i \in 1 .. n : queue[i].when <= e.when
    /\ n < Len(queue) => queue[n + 1].when > e.when
    /\ queue' = SubSeq(queue, 1, n) \o <<e>> \o SubSeq(queue, n + 1, Len(queue))

Ev(kind, when) == [kind |-> kind, when |-> when]

Init ==
  /\ scen \in Scenario
  /\ now = 0
  /\ sess = AfterComputeNextTx(Cfg, NewSession(LocalDiscr))
  /\ txMark \in NextTxTimes(Cfg, NewSession(LocalDiscr), 0)
  /\ detMark = NoTime
  /\ queue = <<Ev("tx", txMark)>>
  /\ th = [x \in Thread |-> Idle]
  /\ sentAdmin = FALSE

At(x, pc) == th[x].pc = pc
Goto(x, pc) == th' = [th EXCEPT ![x] = IF pc = "idle" THEN Idle ELSE [@ EXCEPT !.pc = pc]]
GotoAt(x, pc, at) == th' = [th EXCEPT ![x] = [@ EXCEPT !.pc = pc, !.at = at]]

-----------------------------------------------------------------------------
(* Scheduler.scheduleTx, for the thread x *)

CheckTx(x) ==
  /\ At(x, "checkTx")
  /\ Goto(x, IF ~sess.alive \/ txMark # NoTime THEN "idle" ELSE "computeTx")
  /\ UNCHANGED <<scen, now, sess, txMark, detMark, queue, sentAdmin>>

ComputeTx(x) ==
  /\ At(x, "computeTx")
  /\ \E n \in NextTxTimes(Cfg, sess, th[x].t) : GotoAt(x, "publishTx", n)
  /\ sess' = AfterComputeNextTx(Cfg, sess)
  /\ UNCHANGED <<scen, now, txMark, detMark, queue, sentAdmin>>

PublishTx(x) ==
  /\ At(x, "publishTx")
  /\ IF ~sess.alive \/ txMark # NoTime
     THEN Goto(x, "idle") /\ UNCHANGED txMark
     ELSE Goto(x, "pushTx") /\ txMark' = th[x].at
  /\ UNCHANGED <<scen, now, sess, detMark, queue, sentAdmin>>

\* Variant: a full queue drops transmissions as well.
PushTxDropping(x) ==
  /\ At(x, "pushTx")
  /\ IF scen.maxEvents > 0 /\ Len(queue) >= scen.maxEvents THEN UNCHANGED queue
     ELSE Push(Ev("tx", th[x].at))
  /\ Goto(x, "idle")
  /\ UNCHANGED <<scen, now, sess, txMark, detMark, sentAdmin>>

PushTx(x) ==
  /\ At(x, "pushTx")
  /\ Push(Ev("tx", th[x].at))
  /\ Goto(x, "idle")
  /\ UNCHANGED <<scen, now, sess, txMark, detMark, sentAdmin>>

-----------------------------------------------------------------------------
(* Scheduler.scheduleDetect, for the thread x *)

Arm(x) ==
  /\ At(x, "arm")
  /\ IF CanArm(sess)
     THEN /\ sess' = ArmDetect(Cfg, sess, th[x].t)
          /\ GotoAt(x, "mark", sess'.detectDeadline)
     ELSE Goto(x, "idle") /\ UNCHANGED sess
  /\ UNCHANGED <<scen, now, txMark, detMark, queue, sentAdmin>>

MarkDetect(x) ==
  /\ At(x, "mark")
  /\ detMark' = th[x].at
  /\ Goto(x, IF detMark = th[x].at THEN "idle" ELSE "overflow")
  /\ UNCHANGED <<scen, now, sess, txMark, queue, sentAdmin>>

\* maybeDropOnOverflow.
Overflow(x) ==
  /\ At(x, "overflow")
  /\ Goto(x, IF scen.maxEvents > 0 /\ Len(queue) >= scen.maxEvents THEN "undo" ELSE "pushDetect")
  /\ UNCHANGED <<scen, now, sess, txMark, detMark, queue, sentAdmin>>

UndoMark(x) ==
  /\ At(x, "undo")
  /\ detMark' = IF detMark = th[x].at THEN NoTime ELSE detMark
  /\ Goto(x, "idle")
  /\ UNCHANGED <<scen, now, sess, txMark, queue, sentAdmin>>

PushDetect(x) ==
  /\ At(x, "pushDetect")
  /\ Push(Ev("detect", th[x].at))
  /\ Goto(x, "idle")
  /\ UNCHANGED <<scen, now, sess, txMark, detMark, sentAdmin>>

-----------------------------------------------------------------------------
(* Scheduler.Run *)

\* PopIfDue takes the earliest event once its time has come.
Pop ==
  /\ th["sched"] = Idle
  /\ queue # <<>> /\ Head(queue).when <= now
  /\ queue' = Tail(queue)
  /\ th' = [th EXCEPT !["sched"] =
              [pc |-> Head(queue).kind, t |-> now, at |-> Head(queue).when]]
  /\ UNCHANGED <<scen, now, sess, txMark, detMark, sentAdmin>>

UnmarkTx ==
  /\ At("sched", "tx")
  /\ txMark' = IF txMark = th["sched"].at THEN NoTime ELSE txMark
  /\ Goto("sched", "send")
  /\ UNCHANGED <<scen, now, sess, detMark, queue, sentAdmin>>

\* doTX.
Send ==
  /\ At("sched", "send")
  /\ sentAdmin' = (sentAdmin \/ (sess.alive /\ sess.state = AdminDown))
  /\ Goto("sched", "state")
  /\ UNCHANGED <<scen, now, sess, txMark, detMark, queue>>

\* No periodic transmission while AdminDown.
AfterSend ==
  /\ At("sched", "state")
  /\ th' = [th EXCEPT !["sched"] = IF sess.state = AdminDown THEN Idle
                                   ELSE [@ EXCEPT !.pc = "checkTx", !.t = now]]
  /\ UNCHANGED <<scen, now, sess, txMark, detMark, queue, sentAdmin>>

\* A detect event that is not for the current deadline is dropped; either way
\* its marker is cleared.
CheckDetect ==
  LET when == th["sched"].at IN
  /\ At("sched", "detect")
  /\ detMark' = IF detMark = when THEN NoTime ELSE detMark
  /\ th' = [th EXCEPT !["sched"] = IF when # sess.detectDeadline THEN Idle
                                   ELSE [@ EXCEPT !.pc = "expire"]]
  /\ UNCHANGED <<scen, now, sess, txMark, queue, sentAdmin>>

\* tryExpire.
Expire ==
  /\ At("sched", "expire")
  /\ sess' = ExpireIfDue(sess, now)
  /\ th' = [th EXCEPT !["sched"] =
              [@ EXCEPT !.pc = IF DetectDue(sess, now) THEN "pushDown" ELSE "active",
                        !.t = now]]
  /\ UNCHANGED <<scen, now, txMark, detMark, queue, sentAdmin>>

PushDown ==
  /\ At("sched", "pushDown")
  /\ Push(Ev("tx", th["sched"].t))
  /\ Goto("sched", "idle")
  /\ UNCHANGED <<scen, now, sess, txMark, detMark, sentAdmin>>

\* Not expired after all: keep detection going.
StillActive ==
  /\ At("sched", "active")
  /\ th' = [th EXCEPT !["sched"] = IF Active(sess) THEN [@ EXCEPT !.pc = "arm", !.t = now]
                                   ELSE Idle]
  /\ UNCHANGED <<scen, now, sess, txMark, detMark, queue, sentAdmin>>

-----------------------------------------------------------------------------
(* manager.HandleRx reads the clock, waits for the manager's mutex, runs the *)
(* state machine and schedules detection if the session is then active.      *)

Receive ==
  /\ th["recv"] = Idle
  /\ sess.alive
  /\ th' = [th EXCEPT !["recv"] = [pc |-> "handle", t |-> now, at |-> NoTime]]
  /\ UNCHANGED <<scen, now, sess, txMark, detMark, queue, sentAdmin>>

Handle(pkt) ==
  /\ At("recv", "handle")
  /\ sess' = HandleRx(Cfg, sess, th["recv"].t, pkt)
  /\ Goto("recv", IF Active(sess') THEN "arm" ELSE "idle")
  /\ UNCHANGED <<scen, now, txMark, detMark, queue, sentAdmin>>

(* The callers of the manager *)

\* Variant: no transmission is scheduled.
AdminDownRouteSilent ==
  /\ scen.callers
  /\ th["admin"] = Idle
  /\ sess.alive /\ sess.state # AdminDown
  /\ sess' = GoAdminDown(sess)
  /\ detMark' = NoTime
  /\ UNCHANGED <<scen, now, txMark, queue, th, sentAdmin>>

\* AdminDownRoute: the session's critical section, then scheduleTx.
AdminDownRoute ==
  /\ scen.callers
  /\ th["admin"] = Idle
  /\ sess.alive /\ sess.state # AdminDown
  /\ sess' = GoAdminDown(sess)
  /\ detMark' = NoTime
  /\ th' = [th EXCEPT !["admin"] = [pc |-> "checkTx", t |-> now, at |-> NoTime]]
  /\ UNCHANGED <<scen, now, txMark, queue, sentAdmin>>

\* WithdrawRoute holds the manager's mutex, so no packet is being handled.
Withdraw ==
  /\ scen.callers
  /\ sess.alive
  /\ th["recv"] = Idle
  /\ sess' = [sess EXCEPT !.alive = FALSE]
  /\ UNCHANGED <<scen, now, txMark, detMark, queue, th, sentAdmin>>

\* The clock advances, but leaves nothing waiting for more than Lag.
Tick ==
  /\ now < scen.maxTime
  /\ queue # <<>> => now < Head(queue).when + Lag
  /\ \A x \in Thread : th[x] # Idle => now < th[x].t + Lag
  /\ now' = now + 1
  /\ UNCHANGED <<scen, sess, txMark, detMark, queue, th, sentAdmin>>

Next ==
  \/ Pop \/ UnmarkTx \/ Send \/ AfterSend
  \/ CheckDetect \/ Expire \/ PushDown \/ StillActive
  \/ Receive \/ (\E pkt \in scen.packets : Handle(pkt))
  \/ AdminDownRoute \/ Withdraw \/ Tick
  \/ \E x \in Thread :
       \/ CheckTx(x) \/ ComputeTx(x) \/ PublishTx(x) \/ PushTx(x)
       \/ Arm(x) \/ MarkDetect(x) \/ Overflow(x) \/ UndoMark(x) \/ PushDetect(x)

Spec == Init /\ [][Next]_vars

-----------------------------------------------------------------------------

\* No goroutine and no due event waits as long as the shortest detect time.
Prompt == Lag < Cfg.detectMult * Cfg.minTxFloor

TxEvents == {i \in DOMAIN queue : queue[i].kind = "tx"}

\* The transmission chain neither breaks nor multiplies: a live session that is
\* not AdminDown has a transmission queued unless a thread is about to queue
\* one, whichever of the two threads won the race to publish the marker
\* (scheduler.go:291-316, 230-240), and besides the scheduled transmission at
\* most the extra one of a timeout is queued, which schedules no successor.
\* That the extra ones do not pile up needs Prompt.
TxChain ==
  /\ TypeOK
  /\ (/\ sess.alive /\ sess.state # AdminDown
      /\ th["sched"] = Idle /\ th["admin"] = Idle)
     => TxEvents # {}
  /\ \A i, j, k \in TxEvents : i = j \/ j = k \/ i = k

\* AdminDown is advertised: once AdminDownRoute returned, an AdminDown packet
\* has been sent or a transmission that will send it is on its way
\* (manager.go:713 "Ensure we send at least one AdminDown packet promptly").
AdminDownAdvertised ==
  (/\ sess.alive /\ sess.state = AdminDown /\ th["admin"] = Idle)
  => \/ sentAdmin
     \/ th["sched"].pc \in {"tx", "send", "pushTx"}
     \/ \E i \in DOMAIN queue : queue[i].kind = "tx"

\* A session does not stay Up when the peer falls silent: the detect timer
\* may be re-armed once by a scheduler that lost a race with the receiver
\* (scheduler.go:262-266), but the last accepted packet is never older than
\* two detect times, give or take the waiting of the two goroutines.
SilenceDetected ==
  (sess.alive /\ sess.state = Up) =>
    now <= sess.lastRx + 2 * DetectTime(Cfg, sess) + 2 * Lag

\* The same where no detect event is dropped and no packet is rejected.
SilenceDetectedUnhindered ==
  (/\ scen.maxEvents = 0
   /\ \A pkt \in scen.packets : pkt.state = Up /\ pkt.peerDiscr = LocalDiscr)
  => SilenceDetected
=============================================================================
