---------------------- MODULE LivenessSchedulerProofs -----------------------
(***************************************************************************)
(* Proofs about LivenessScheduler, for every valid configuration, every    *)
(* set of packets, every bound on the queue and every Lag: the chain of    *)
(* transmissions does not break and AdminDown is advertised.  That it does *)
(* not multiply either holds as long as no goroutine lags a detect time.   *)
(***************************************************************************)
EXTENDS LivenessScheduler, TLAPS

Interval == {0} \cup Cfg.minTxFloor .. Cfg.maxTxCeil
Sess == SessionType(Discr, Interval, Time)
Moment == Time \cup {NoTime}

\* The shortest and the longest detect time.
MinDetect == Cfg.detectMult * Cfg.minTxFloor
MaxDetect == Cfg.detectMult * Cfg.maxTxCeil

SchedPc == {"tx", "send", "state", "checkTx", "computeTx", "publishTx", "pushTx", "detect",
            "expire", "pushDown", "active", "arm", "mark", "overflow", "undo", "pushDetect"}
RecvPc == {"handle", "arm", "mark", "overflow", "undo", "pushDetect"}
AdminPc == {"checkTx", "computeTx", "publishTx", "pushTx"}

\* Where a thread holds a time in at.
Timed == {"tx", "detect", "publishTx", "pushTx", "mark", "overflow", "undo", "pushDetect"}

PcOf(x) == IF x = "sched" THEN SchedPc ELSE IF x = "recv" THEN RecvPc ELSE AdminPc

\* What thread x may hold: its reading of the clock is at most Lag old.
GoodLocal(x, l) ==
  \/ l = Idle
  \/ /\ l \in Local /\ l.pc \in PcOf(x)
     /\ l.t <= now /\ now <= l.t + Lag
     /\ l.pc \in Timed => l.at # NoTime

\* The types, sharpened by where each thread can be and what it holds there.
TypeInv == TypeOK /\ \A x \in Thread : GoodLocal(x, th[x])

-----------------------------------------------------------------------------
(* Times *)

USE DEF State, AdminDown, Down, Init_, Up

\* The numbers of a configuration that passed Validate, and their products.
LEMMA CfgFacts ==
  /\ Cfg.detectMult \in Nat /\ Cfg.minTxFloor \in Nat /\ Cfg.maxTxCeil \in Nat
  /\ Cfg.backoffMax \in Nat /\ Cfg.txMin \in Nat /\ Cfg.rxMin \in Nat
  /\ Cfg.detectMult > 0 /\ Cfg.minTxFloor > 0 /\ Cfg.backoffMax > 0
  /\ Cfg.maxTxCeil >= Cfg.minTxFloor
  /\ MinDetect \in Nat /\ MaxDetect \in Nat
  /\ Cfg.maxTxCeil <= MaxDetect
<1>1. /\ Cfg.detectMult \in Nat /\ Cfg.minTxFloor \in Nat /\ Cfg.maxTxCeil \in Nat
      /\ Cfg.backoffMax \in Nat /\ Cfg.txMin \in Nat /\ Cfg.rxMin \in Nat
      /\ Cfg.detectMult > 0 /\ Cfg.minTxFloor > 0 /\ Cfg.backoffMax > 0
      /\ Cfg.maxTxCeil >= Cfg.minTxFloor
  BY SchedulerAssumption DEF ValidConfig, SessionConfig
<1>2. \A m, a \in Nat : m > 0 => m * a \in Nat /\ a <= m * a
  OBVIOUS
<1>. QED  BY <1>1, <1>2, Zenon DEF MinDetect, MaxDetect

\* Every moment the clock can be at is a Time, with room for a detect time or
\* two transmit intervals ahead of it.
LEMMA TimeFacts ==
  ASSUME scen \in Scenario
  PROVE  /\ Time \subseteq Nat /\ Time \subseteq Moment /\ NoTime \in Moment
         /\ NoTime \notin Time
         /\ scen.maxTime \in Nat
         /\ \A t \in 0 .. scen.maxTime :
              /\ t \in Time
              /\ \A d \in 0 .. 2 * (MaxDetect + Cfg.backoffMax) : t + d \in Time
<1>1. scen.maxTime \in Nat
  BY SchedulerAssumption, Zenon
<1>2. 2 * (MaxDetect + Cfg.backoffMax) \in Nat
  BY CfgFacts
<1>3. Time = 0 .. scen.maxTime + 2 * (MaxDetect + Cfg.backoffMax)
  BY Zenon DEF Time, MaxDetect
<1>. QED  BY <1>1, <1>2, <1>3, NoTimeAssumption DEF Moment

\* A detect time lies between the shortest and the longest.
LEMMA DetectTimeFacts ==
  ASSUME NEW s, s.peerTxMin \in Nat
  PROVE  DetectTime(Cfg, s) \in MinDetect .. MaxDetect
<1>1. RxInterval(Cfg, s) \in Cfg.minTxFloor .. Cfg.maxTxCeil
  BY CfgFacts DEF RxInterval, Bounded, Larger, Smaller
<1>2. \A m, a, b \in Nat : a <= b => m * a \in Nat /\ m * b \in Nat /\ m * a <= m * b
  OBVIOUS
<1>. QED  BY <1>1, <1>2, CfgFacts DEF DetectTime, MinDetect, MaxDetect

\* ComputeNextTx picks a moment that is a Time.
LEMMA NextTxFacts ==
  ASSUME scen \in Scenario, NEW s, s.peerRxMin \in Nat, s.backoffFactor \in Nat,
         NEW t \in 0 .. scen.maxTime
  PROVE  NextTxTimes(Cfg, s, t) \subseteq Time
<1> DEFINE base == TxInterval(Cfg, s)
           eff == base * Larger(s.backoffFactor, 1)
           most == MaxDetect + Cfg.backoffMax
<1>1. base \in Nat /\ base <= Cfg.maxTxCeil
  BY CfgFacts DEF TxInterval, Bounded, Larger, Smaller
<1>2. eff \in Nat
  BY <1>1 DEF Larger
<1>3. most \in Nat
  BY CfgFacts
<1>4. EffectiveTx(Cfg, s) \in 0 .. most
  <2> HIDE DEF base, eff
  <2>1. EffectiveTx(Cfg, s) \in {base, Smaller(eff, Cfg.backoffMax)}
    BY CfgFacts, Zenon DEF EffectiveTx, base, eff
  <2>. QED  BY <1>1, <1>2, <2>1, CfgFacts DEF Smaller
<1> HIDE DEF most
<1>5. ASSUME NEW n \in NextTxTimes(Cfg, s, t)
      PROVE  \E d \in 0 .. 2 * most : n = t + d
  <2> DEFINE e == EffectiveTx(Cfg, s)
  <2>1. PICK d \in -(e \div 10) .. (e \div 10) : n = t + e + d
    BY Zenon DEF NextTxTimes
  <2>2. e \in 0 .. most /\ t \in Nat
    BY <1>4, TimeFacts, Zenon
  <2> HIDE DEF e
  <2>3. e + d \in 0 .. 2 * most
    BY <1>3, <2>2
  <2>. QED  BY <2>1, <2>2, <2>3
<1>. QED  BY <1>5, TimeFacts, Zenon DEF most

-----------------------------------------------------------------------------
(* Sessions *)

\* Assigning a value of the right kind to a field keeps a record a session.
LEMMA FieldTypes ==
  ASSUME NEW s \in Sess
  PROVE  /\ \A v \in State : [s EXCEPT !.state = v] \in Sess
         /\ \A v \in DownReason : [s EXCEPT !.downReason = v] \in Sess
         /\ \A v \in PeerMode : [s EXCEPT !.peerMode = v] \in Sess
         /\ \A v \in Moment : [s EXCEPT !.upSince = v] \in Sess
         /\ \A v \in Moment : [s EXCEPT !.detectDeadline = v] \in Sess
         /\ \A v \in Moment : [s EXCEPT !.lastRx = v] \in Sess
         /\ \A v \in Discr \cup {0} : [s EXCEPT !.peerDiscr = v] \in Sess
         /\ \A v \in Interval : [s EXCEPT !.peerTxMin = v] \in Sess
         /\ \A v \in Interval : [s EXCEPT !.peerRxMin = v] \in Sess
         /\ \A v \in Nat : [s EXCEPT !.backoffFactor = v] \in Sess
         /\ \A v \in BOOLEAN : [s EXCEPT !.alive = v] \in Sess
BY DEF Sess, SessionType, Moment

\* The values that the operators on sessions assign are of the right kind.
LEMMA ValueTypes ==
  /\ AdminDown \in State /\ Down \in State /\ Init_ \in State /\ Up \in State
  /\ {"none", "timeout", "remote_admin", "local_admin", "remote_down"} \subseteq DownReason
  /\ "passive" \in PeerMode /\ "active" \in PeerMode
  /\ NoTime \in Moment /\ 1 \in Nat
  /\ TRUE \in BOOLEAN /\ FALSE \in BOOLEAN
BY DEF DownReason, PeerMode, Moment

\* The numbers in a session.
LEMMA SessionNumbers ==
  ASSUME NEW s \in Sess
  PROVE  s.peerTxMin \in Nat /\ s.peerRxMin \in Nat /\ s.backoffFactor \in Nat
BY CfgFacts DEF Sess, SessionType, Interval

\* What an operation with the clock reading t may do to a session, as far as
\* the timers are concerned: the deadline is kept, dropped or put at least one
\* detect time after t; AdminDown is neither entered nor left.
Moves(u, s, t) ==
  /\ u \in Sess
  /\ u.alive = s.alive
  /\ u.state = AdminDown <=> s.state = AdminDown
  /\ \/ u.detectDeadline \in {s.detectDeadline, NoTime}
     \/ u.detectDeadline \in Int /\ u.detectDeadline >= t + MinDetect

\* Doing one after the other is such an operation.
LEMMA MovesTwice ==
  ASSUME NEW s, NEW u, NEW v, NEW t, Moves(u, s, t), Moves(v, u, t)
  PROVE  Moves(v, s, t)
BY Zenon DEF Moves

\* Changes that leave liveness, state and deadline alone are.
LEMMA MovesSame ==
  ASSUME NEW s, NEW u \in Sess, NEW t,
         u.alive = s.alive, u.state = s.state, u.detectDeadline = s.detectDeadline
  PROVE  Moves(u, s, t)
BY Zenon DEF Moves

\* Falling to Down, unless from AdminDown, is.
LEMMA GoDownMoves ==
  ASSUME NEW s \in Sess, s.state # AdminDown, NEW r \in DownReason, NEW t
  PROVE  Moves(GoDown(s, r), s, t)
<1>1. GoDown(s, r) \in Sess
  BY FieldTypes, ValueTypes, Zenon DEF GoDown
<1>2. /\ GoDown(s, r).alive = s.alive /\ GoDown(s, r).state = Down
      /\ GoDown(s, r).detectDeadline = NoTime
  BY Zenon DEF GoDown, Sess, SessionType
<1>. QED  BY <1>1, <1>2 DEF Moves

\* Pushing out a passed deadline is, and the state stays what it is.
LEMMA ArmDetectMoves ==
  ASSUME scen \in Scenario, NEW s \in Sess, NEW t \in 0 .. scen.maxTime
  PROVE  /\ Moves(ArmDetect(Cfg, s, t), s, t)
         /\ ArmDetect(Cfg, s, t).state = s.state
         /\ CanArm(s) => ArmDetect(Cfg, s, t).detectDeadline \in Time
<1> DEFINE d == t + DetectTime(Cfg, s)
           u == [s EXCEPT !.detectDeadline = d]
<1>1. DetectTime(Cfg, s) \in MinDetect .. MaxDetect /\ t \in Nat
  BY SessionNumbers, DetectTimeFacts, TimeFacts, Zenon
<1>2. d \in Time /\ d \in Moment /\ d \in Int /\ d >= t + MinDetect
  BY <1>1, TimeFacts, CfgFacts
<1> HIDE DEF d
<1>3. u \in Sess
  BY <1>2, FieldTypes, Zenon
<1>4. u.alive = s.alive /\ u.state = s.state /\ u.detectDeadline = d
  BY Zenon DEF Sess, SessionType
<1> HIDE DEF u
<1>5. CASE CanArm(s) /\ s.detectDeadline <= t
  <2>1. ArmDetect(Cfg, s, t) = u
    BY <1>5, Zenon DEF ArmDetect, u, d
  <2>. QED  BY <1>2, <1>3, <1>4, <2>1, Zenon DEF Moves
<1>6. CASE ~(CanArm(s) /\ s.detectDeadline <= t)
  <2>1. ArmDetect(Cfg, s, t) = s
    BY <1>6, Zenon DEF ArmDetect
  <2>2. CanArm(s) => s.detectDeadline \in Time
    BY Zenon DEF CanArm, Sess, SessionType
  <2>. QED  BY <2>1, <2>2, Zenon DEF Moves
<1>. QED  BY <1>5, <1>6, Zenon

\* HandleRx is such an operation, with the reading of the receiver's clock.
LEMMA HandleRxMoves ==
  ASSUME scen \in Scenario, NEW s \in Sess, NEW t \in 0 .. scen.maxTime,
         NEW pkt \in scen.packets
  PROVE  Moves(HandleRx(Cfg, s, t, pkt), s, t)
<1> DEFINE v == LearnMode(s, pkt)
           pd == IF v.peerDiscr = 0 THEN pkt.localDiscr ELSE v.peerDiscr
           ct == ClampPeer(Cfg, pkt.txMin)
           cr == ClampPeer(Cfg, pkt.rxMin)
           w == [v EXCEPT !.peerDiscr = pd, !.peerTxMin = ct,
                          !.peerRxMin = cr, !.lastRx = t]
           d == t + DetectTime(Cfg, w)
           r == [w EXCEPT !.detectDeadline = d]
<1>1. /\ pkt.localDiscr \in Discr \cup {0}
      /\ pkt.txMin \in Nat /\ pkt.rxMin \in Nat
  <2>1. pkt \in PacketType(Discr, {Cfg.txMin, Cfg.rxMin})
    BY SchedulerAssumption, Zenon
  <2>. QED  BY <2>1, CfgFacts, Zenon DEF PacketType
<1>2. v \in Sess
  BY FieldTypes, ValueTypes, Zenon DEF LearnMode
<1>3. v.alive = s.alive /\ v.state = s.state /\ v.detectDeadline = s.detectDeadline
  BY Zenon DEF LearnMode, Sess, SessionType
<1> HIDE DEF v
<1>4. Moves(v, s, t)
  BY <1>2, <1>3, MovesSame, Zenon
<1>5. pd \in Discr \cup {0} /\ ct \in Interval /\ cr \in Interval /\ t \in Moment /\ t \in Nat
  <2>1. pd \in Discr \cup {0}
    BY <1>1, <1>2, Zenon DEF Sess, SessionType
  <2>2. ct \in Interval /\ cr \in Interval
    BY <1>1, CfgFacts DEF ClampPeer, Smaller, Interval
  <2>. QED  BY <2>1, <2>2, TimeFacts, Zenon
<1> HIDE DEF pd, ct, cr
<1>6. w \in Sess
  BY <1>2, <1>5, FieldTypes, Zenon
<1>7. w.alive = v.alive /\ w.state = v.state
  BY <1>2, Zenon DEF Sess, SessionType
<1> HIDE DEF w
<1>8. DetectTime(Cfg, w) \in MinDetect .. MaxDetect
  BY <1>6, SessionNumbers, DetectTimeFacts, Zenon
<1>9. d \in Time /\ d \in Moment /\ d \in Int /\ d >= t + MinDetect
  BY <1>5, <1>8, TimeFacts, CfgFacts
<1> HIDE DEF d
<1>10. r \in Sess
  BY <1>6, <1>9, FieldTypes, Zenon
<1>11. r.alive = w.alive /\ r.state = w.state /\ r.detectDeadline = d
  BY <1>6, Zenon DEF Sess, SessionType
<1>12. Refresh(Cfg, v, t, pkt) = r
  BY Zenon DEF Refresh, r, d, w, pd, ct, cr
<1> HIDE DEF r
<1>13. Moves(r, v, t)
  BY <1>7, <1>9, <1>10, <1>11, Zenon DEF Moves
<1>14. s.state # AdminDown => Moves(Advance(r, t, pkt), r, t)
  <2> DEFINE e == [r EXCEPT !.peerDiscr = pkt.localDiscr]
  <2>1. GoUp(r, t) \in Sess /\ GoInit(r) \in Sess
    BY <1>5, <1>10, FieldTypes, ValueTypes, Zenon DEF GoUp, GoInit
  <2>2. e \in Sess
    BY <1>1, <1>10, FieldTypes, Zenon
  <2>3. /\ GoUp(r, t).alive = r.alive /\ GoUp(r, t).state = Up
        /\ GoUp(r, t).detectDeadline = r.detectDeadline
        /\ GoInit(r).alive = r.alive /\ GoInit(r).state = Init_
        /\ GoInit(r).detectDeadline = r.detectDeadline
        /\ e.alive = r.alive /\ e.state = r.state /\ e.detectDeadline = r.detectDeadline
    BY <1>10, Zenon DEF GoUp, GoInit, Sess, SessionType
  <2> HIDE DEF e
  <2>4. Advance(r, t, pkt) \in {GoUp(r, t), GoInit(r), e, r}
    BY Zenon DEF Advance, e
  <2>. QED  BY <1>3, <1>7, <1>10, <1>11, <2>1, <2>2, <2>3, <2>4 DEF Moves
<1>15. CASE Rejects(s, pkt)
  BY <1>15, MovesSame, Zenon DEF HandleRx
<1>16. CASE ~Rejects(s, pkt)
  <2>1. s.state # AdminDown /\ v.state # AdminDown
    BY <1>3, <1>16, Zenon DEF Rejects
  <2>2. /\ Moves(GoDown(v, "remote_admin"), v, t)
        /\ Moves(GoDown(v, "remote_down"), v, t)
    BY <1>2, <2>1, GoDownMoves, ValueTypes, Zenon
  <2>3. HandleRx(Cfg, s, t, pkt) \in {GoDown(v, "remote_admin"), v, GoDown(v, "remote_down"),
                                      Advance(r, t, pkt)}
    BY <1>12, <1>16, Zenon DEF HandleRx, v
  <2>4. Moves(Advance(r, t, pkt), v, t)
    BY <1>13, <1>14, <2>1, MovesTwice, Zenon
  <2>. QED  BY <1>4, <2>2, <2>3, <2>4, MovesTwice, Zenon
<1>. QED  BY <1>15, <1>16, Zenon

\* Computing the next transmission, expiring and AdminDownRoute.
LEMMA OtherMoves ==
  ASSUME NEW s \in Sess, NEW t
  PROVE  /\ Moves(AfterComputeNextTx(Cfg, s), s, t)
         /\ Moves(ExpireIfDue(s, t), s, t)
         /\ DetectDue(s, t) => ExpireIfDue(s, t).detectDeadline = NoTime
         /\ GoAdminDown(s) \in Sess /\ GoAdminDown(s).state = AdminDown
         /\ GoAdminDown(s).alive = s.alive
         /\ s.state # AdminDown => GoAdminDown(s).detectDeadline = NoTime
<1>1. Moves(AfterComputeNextTx(Cfg, s), s, t)
  <2>1. /\ Larger(s.backoffFactor, 1) \in Nat /\ 1 \in Nat
        /\ 2 * Larger(s.backoffFactor, 1) \in Nat
    BY SessionNumbers DEF Larger
  <2>2. \E f \in Nat : AfterComputeNextTx(Cfg, s) = [s EXCEPT !.backoffFactor = f]
    BY <2>1, Zenon DEF AfterComputeNextTx
  <2>3. PICK f \in Nat : AfterComputeNextTx(Cfg, s) = [s EXCEPT !.backoffFactor = f]
    BY <2>2, Zenon
  <2>4. [s EXCEPT !.backoffFactor = f] \in Sess
    BY FieldTypes, Zenon
  <2>5. LET u == [s EXCEPT !.backoffFactor = f] IN
        u.alive = s.alive /\ u.state = s.state /\ u.detectDeadline = s.detectDeadline
    BY Zenon DEF Sess, SessionType
  <2>. QED  BY <2>3, <2>4, <2>5, MovesSame, Zenon
<1>2. /\ Moves(ExpireIfDue(s, t), s, t)
      /\ DetectDue(s, t) => ExpireIfDue(s, t).detectDeadline = NoTime
  <2>1. CASE DetectDue(s, t)
    <3>1. s.state # AdminDown /\ ExpireIfDue(s, t) = GoDown(s, "timeout")
      BY <2>1 DEF ExpireIfDue, DetectDue, Active
    <3>2. Moves(GoDown(s, "timeout"), s, t)
      BY <3>1, GoDownMoves, ValueTypes, Zenon
    <3>3. GoDown(s, "timeout").detectDeadline = NoTime
      BY Zenon DEF GoDown, Sess, SessionType
    <3>. QED  BY <3>1, <3>2, <3>3, Zenon
  <2>2. CASE ~DetectDue(s, t)
    BY <2>2, MovesSame, Zenon DEF ExpireIfDue
  <2>. QED  BY <2>1, <2>2, Zenon
<1>3. GoAdminDown(s) \in Sess
  BY FieldTypes, ValueTypes, Zenon DEF GoAdminDown
<1>4. /\ GoAdminDown(s).state = AdminDown /\ GoAdminDown(s).alive = s.alive
      /\ s.state # AdminDown => GoAdminDown(s).detectDeadline = NoTime
  BY Zenon DEF GoAdminDown, Sess, SessionType
<1>. QED  BY <1>1, <1>2, <1>3, <1>4, Zenon

-----------------------------------------------------------------------------
(* The queue *)

Sorted(q) == \A i, j \in DOMAIN q : i < j => q[i].when <= q[j].when

\* Events of a queue have times, and times are numbers.
LEMMA EventTimes ==
  ASSUME scen \in Scenario, NEW q \in Seq(Event)
  PROVE  /\ Len(q) \in Nat /\ DOMAIN q = 1 .. Len(q)
         /\ \A i \in 1 .. Len(q) : q[i] \in Event /\ q[i].when \in Nat
         /\ \A e \in Event : e.when \in Nat
<1>1. \A e \in Event : e.when \in Nat
  <2>1. Time \subseteq Nat
    BY TimeFacts, Zenon
  <2>. QED  BY <2>1, Zenon DEF Event
<1>2. Len(q) \in Nat /\ DOMAIN q = 1 .. Len(q) /\ \A i \in 1 .. Len(q) : q[i] \in Event
  OBVIOUS
<1>. QED  BY <1>1, <1>2, Zenon

\* Two sequences end to end.
LEMMA ConcatFacts ==
  ASSUME NEW S, NEW c \in Seq(S), NEW b \in Seq(S)
  PROVE  /\ c \o b \in Seq(S) /\ Len(c \o b) = Len(c) + Len(b)
         /\ \A i \in 1 .. Len(c) : (c \o b)[i] = c[i]
         /\ \A i \in Len(c) + 1 .. Len(c) + Len(b) : (c \o b)[i] = b[i - Len(c)]
OBVIOUS

\* A queue q with an event put in at place n + 1.
Inserted(q, e, n, p) ==
  /\ \A i \in 1 .. n : q[i].when <= e.when
  /\ n < Len(q) => q[n + 1].when > e.when
  /\ p = SubSeq(q, 1, n) \o <<e>> \o SubSeq(q, n + 1, Len(q))

LEMMA InsertFacts ==
  ASSUME scen \in Scenario, NEW q \in Seq(Event), Sorted(q), NEW e \in Event, NEW p,
         NEW n \in 0 .. Len(q), Inserted(q, e, n, p)
  PROVE  /\ p \in Seq(Event) /\ Sorted(p)
         /\ Len(p) = Len(q) + 1
         /\ \A i \in 1 .. n : p[i] = q[i]
         /\ p[n + 1] = e
         /\ \A i \in n + 2 .. Len(q) + 1 : p[i] = q[i - 1]
<1>0. Len(q) \in Nat
  OBVIOUS
<1>1. /\ \A i \in 1 .. n : q[i].when <= e.when
      /\ n < Len(q) => q[n + 1].when > e.when
      /\ p = SubSeq(q, 1, n) \o <<e>> \o SubSeq(q, n + 1, Len(q))
  BY Zenon DEF Inserted
<1> DEFINE a == SubSeq(q, 1, n)
           b == SubSeq(q, n + 1, Len(q))
<1>2. a \in Seq(Event) /\ Len(a) = n /\ \A i \in 1 .. n : a[i] = q[i]
  BY <1>0
<1>3. /\ b \in Seq(Event) /\ Len(b) = Len(q) - n
      /\ \A i \in 1 .. Len(q) - n : b[i] = q[i + n]
  BY <1>0
<1> HIDE DEF a, b
<1>4. p = (a \o <<e>>) \o b
  BY <1>1, Zenon DEF a, b
<1>5. /\ a \o <<e>> \in Seq(Event) /\ Len(a \o <<e>>) = n + 1
      /\ \A i \in 1 .. n : (a \o <<e>>)[i] = q[i]
      /\ (a \o <<e>>)[n + 1] = e
  BY <1>2
<1>6. /\ p \in Seq(Event) /\ Len(p) = Len(q) + 1
      /\ \A i \in 1 .. n + 1 : p[i] = (a \o <<e>>)[i]
      /\ \A i \in n + 2 .. Len(q) + 1 : p[i] = b[i - (n + 1)]
  <2> DEFINE c == a \o <<e>>
  <2>1. c \in Seq(Event) /\ Len(c) = n + 1 /\ p = c \o b
    BY <1>4, <1>5, Zenon
  <2> HIDE DEF c
  <2>2. /\ p \in Seq(Event) /\ Len(p) = Len(c) + Len(b)
        /\ \A i \in 1 .. Len(c) : p[i] = c[i]
        /\ \A i \in Len(c) + 1 .. Len(c) + Len(b) : p[i] = b[i - Len(c)]
    BY <1>3, <2>1, ConcatFacts, Zenon
  <2>3. Len(c) + 1 = n + 2 /\ Len(c) + Len(b) = Len(q) + 1
    BY <1>0, <1>3, <2>1
  <2>. QED  BY <2>1, <2>2, <2>3, Zenon DEF c
<1>7. /\ \A i \in 1 .. n : p[i] = q[i]
      /\ p[n + 1] = e
      /\ \A i \in n + 2 .. Len(q) + 1 : p[i] = q[i - 1]
  <2>1. \A i \in 1 .. n : p[i] = q[i]
    BY <1>5, <1>6
  <2>2. p[n + 1] = e
    BY <1>5, <1>6
  <2>3. ASSUME NEW i \in n + 2 .. Len(q) + 1 PROVE p[i] = q[i - 1]
    <3>1. /\ i - (n + 1) \in 1 .. Len(q) - n
          /\ (i - (n + 1)) + n = i - 1
      BY <1>0
    <3>. QED  BY <1>3, <1>6, <3>1, Zenon
  <2>. QED  BY <2>1, <2>2, <2>3, Zenon
<1>8. Sorted(p)
  <2> SUFFICES ASSUME NEW i \in DOMAIN p, NEW j \in DOMAIN p, i < j
               PROVE  p[i].when <= p[j].when
    BY Zenon DEF Sorted
  <2>1. i \in 1 .. Len(q) + 1 /\ j \in 1 .. Len(q) + 1
    BY <1>6
  <2>2. \A k \in 1 .. Len(q) : q[k].when \in Nat
    BY EventTimes, Zenon
  <2>3. \A k, l \in 1 .. Len(q) : k <= l => q[k].when <= q[l].when
    BY <2>2 DEF Sorted
  <2>4. e.when \in Nat
    BY EventTimes, Zenon
  <2>5. \A k \in n + 1 .. Len(q) : q[k].when > e.when
    <3> SUFFICES ASSUME NEW k \in n + 1 .. Len(q) PROVE q[k].when > e.when
      BY Zenon
    <3>1. n + 1 \in 1 .. Len(q) /\ k \in 1 .. Len(q) /\ n < Len(q)
      BY <1>0
    <3>2. q[n + 1].when > e.when
      BY <1>1, <3>1, Zenon
    <3>3. q[n + 1].when <= q[k].when
      BY <1>0, <2>3, <3>1
    <3>4. q[n + 1].when \in Nat /\ q[k].when \in Nat
      BY <2>2, <3>1, Zenon
    <3>. QED  BY <2>4, <3>2, <3>3, <3>4
  <2>6. CASE i <= n /\ j <= n
    <3>1. /\ i \in 1 .. n /\ j \in 1 .. n
          /\ i \in 1 .. Len(q) /\ j \in 1 .. Len(q) /\ i <= j
      BY <1>0, <2>1, <2>6
    <3>2. p[i] = q[i] /\ p[j] = q[j]
      BY <1>7, <3>1, Zenon
    <3>. QED  BY <2>3, <3>1, <3>2, Zenon
  <2>7. CASE i <= n /\ j = n + 1
    <3>1. i \in 1 .. n
      BY <1>0, <2>1, <2>7
    <3>2. p[i] = q[i] /\ p[j] = e
      BY <1>7, <2>7, <3>1, Zenon
    <3>. QED  BY <1>1, <3>1, <3>2, Zenon
  <2>8. CASE i <= n /\ j > n + 1
    <3>1. /\ i \in 1 .. n /\ j \in n + 2 .. Len(q) + 1
          /\ i \in 1 .. Len(q) /\ j - 1 \in 1 .. Len(q) /\ i <= j - 1
      BY <1>0, <2>1, <2>8
    <3>2. p[i] = q[i] /\ p[j] = q[j - 1]
      BY <1>7, <3>1, Zenon
    <3>. QED  BY <2>3, <3>1, <3>2, Zenon
  <2>9. CASE i = n + 1
    <3>1. /\ j \in n + 2 .. Len(q) + 1
          /\ j - 1 \in n + 1 .. Len(q) /\ j - 1 \in 1 .. Len(q)
      BY <1>0, <2>1, <2>9
    <3>2. p[i] = e /\ p[j] = q[j - 1]
      BY <1>7, <2>9, <3>1, Zenon
    <3>3. q[j - 1].when > e.when /\ q[j - 1].when \in Nat
      BY <2>2, <2>5, <3>1, Zenon
    <3>. QED  BY <2>4, <3>2, <3>3
  <2>10. CASE i > n + 1
    <3>1. /\ i \in n + 2 .. Len(q) + 1 /\ j \in n + 2 .. Len(q) + 1
          /\ i - 1 \in 1 .. Len(q) /\ j - 1 \in 1 .. Len(q) /\ i - 1 <= j - 1
      BY <1>0, <2>1, <2>10
    <3>2. p[i] = q[i - 1] /\ p[j] = q[j - 1]
      BY <1>7, <3>1, Zenon
    <3>. QED  BY <2>3, <3>1, <3>2, Zenon
  <2>. QED  BY <1>0, <2>1, <2>6, <2>7, <2>8, <2>9, <2>10
<1>. QED  BY <1>6, <1>7, <1>8, Zenon

\* The queue after Push: the new event at one place, the others as before.
LEMMA PushFacts ==
  ASSUME scen \in Scenario, queue \in Seq(Event), Sorted(queue), NEW e \in Event, Push(e)
  PROVE  /\ queue' \in Seq(Event) /\ Sorted(queue')
         /\ \E n \in 0 .. Len(queue) :
              /\ Len(queue') = Len(queue) + 1
              /\ \A i \in 1 .. n : queue'[i] = queue[i]
              /\ queue'[n + 1] = e
              /\ \A i \in n + 2 .. Len(queue) + 1 : queue'[i] = queue[i - 1]
<1>1. PICK n \in 0 .. Len(queue) : Inserted(queue, e, n, queue')
  BY Zenon DEF Push, Inserted
<1>2. /\ queue' \in Seq(Event) /\ Sorted(queue') /\ Len(queue') = Len(queue) + 1
      /\ \A i \in 1 .. n : queue'[i] = queue[i]
      /\ queue'[n + 1] = e
      /\ \A i \in n + 2 .. Len(queue) + 1 : queue'[i] = queue[i - 1]
  BY <1>1, InsertFacts
<1>. QED  BY <1>2, Zenon

-----------------------------------------------------------------------------
(* The type invariant *)

\* A thread that is somewhere is not idle.
LEMMA IdleFacts ==
  /\ Idle.pc = "idle"
  /\ "idle" \notin Pc
  /\ \A l \in Local : l # Idle /\ l.pc \in Pc /\ l.t \in Time /\ l.at \in Moment
  /\ SchedPc \subseteq Pc /\ RecvPc \subseteq Pc /\ AdminPc \subseteq Pc
<1>1. Idle.pc = "idle" /\ "idle" \notin Pc
  BY Zenon DEF Idle, Pc
<1>2. \A l \in Local : l.pc \in Pc /\ l.t \in Time /\ l.at \in Moment
  BY Zenon DEF Local, Moment
<1>3. SchedPc \subseteq Pc /\ RecvPc \subseteq Pc /\ AdminPc \subseteq Pc
  BY Zenon DEF Pc, SchedPc, RecvPc, AdminPc
<1>. QED  BY <1>1, <1>2, <1>3, Zenon

\* What the invariant says of the state's parts.
LEMMA TypeFacts ==
  ASSUME TypeInv
  PROVE  /\ scen \in Scenario /\ now \in 0 .. scen.maxTime /\ now \in Nat /\ sess \in Sess
         /\ txMark \in Moment /\ detMark \in Moment
         /\ queue \in Seq(Event) /\ Sorted(queue)
         /\ th \in [Thread -> {Idle} \cup Local] /\ sentAdmin \in BOOLEAN
         /\ \A x \in Thread : GoodLocal(x, th[x])
         /\ \A x \in Thread : th[x] # Idle =>
              /\ th[x] \in Local /\ th[x].t \in 0 .. scen.maxTime /\ th[x].at \in Moment
              /\ th[x].t \in Nat /\ th[x].t <= now /\ now <= th[x].t + Lag
<1>1. /\ scen \in Scenario /\ now \in 0 .. scen.maxTime /\ sess \in Sess
      /\ txMark \in Moment /\ detMark \in Moment
      /\ queue \in Seq(Event) /\ Sorted(queue)
      /\ th \in [Thread -> {Idle} \cup Local] /\ sentAdmin \in BOOLEAN
      /\ \A x \in Thread : GoodLocal(x, th[x])
  BY Zenon DEF TypeInv, TypeOK, Sess, Interval, Moment, Sorted
<1>2. scen.maxTime \in Nat /\ Time \subseteq Nat
  BY <1>1, TimeFacts, Zenon
<1>3. ASSUME NEW x \in Thread, th[x] # Idle
      PROVE  /\ th[x] \in Local /\ th[x].t \in 0 .. scen.maxTime /\ th[x].at \in Moment
             /\ th[x].t \in Nat /\ th[x].t <= now /\ now <= th[x].t + Lag
  <2>1. th[x] \in Local /\ th[x].t <= now /\ now <= th[x].t + Lag
    BY <1>1, <1>3, Zenon DEF GoodLocal
  <2>2. th[x].t \in Time /\ th[x].at \in Moment
    BY <2>1, IdleFacts, Zenon
  <2>3. th[x].t \in Nat
    BY <1>2, <2>2, Zenon
  <2>4. th[x].t \in 0 .. scen.maxTime
    BY <1>1, <1>2, <2>1, <2>3
  <2>. QED  BY <2>1, <2>2, <2>3, <2>4, Zenon
<1>. QED  BY <1>1, <1>2, <1>3

\* The parts other than the threads.
LEMMA StateFacts ==
  ASSUME TypeInv
  PROVE  /\ scen \in Scenario /\ now \in 0 .. scen.maxTime /\ sess \in Sess
         /\ txMark \in Moment /\ detMark \in Moment
         /\ queue \in Seq(Event) /\ Sorted(queue) /\ sentAdmin \in BOOLEAN
BY TypeFacts, Zenon

\* The clock.
LEMMA ClockFacts ==
  ASSUME TypeInv
  PROVE  /\ scen \in Scenario /\ now \in 0 .. scen.maxTime /\ now \in Nat /\ now \in Time
         /\ Lag \in Nat /\ now <= now /\ now <= now + Lag
         /\ NoTime \in Moment /\ Time \subseteq Moment /\ Time \subseteq Nat
         /\ NoTime \notin Time
<1>1. scen \in Scenario /\ now \in 0 .. scen.maxTime /\ now \in Nat
  BY TypeFacts, Zenon
<1>2. Lag \in Nat
  BY SchedulerAssumption, Zenon
<1>. QED  BY <1>1, <1>2, TimeFacts

\* A step of one thread that leaves every part well typed.
LEMMA ThreadStep ==
  ASSUME TypeInv, NEW x \in Thread, NEW l, GoodLocal(x, l), th' = [th EXCEPT ![x] = l],
         UNCHANGED <<scen, now>>, sess' \in Sess, txMark' \in Moment, detMark' \in Moment,
         queue' \in Seq(Event), Sorted(queue'), sentAdmin' \in BOOLEAN
  PROVE  TypeInv'
<1>1. Time' = Time /\ Event' = Event /\ Local' = Local
  BY Zenon DEF Time, Event, Local
<1>2. l \in {Idle} \cup Local
  BY Zenon DEF GoodLocal
<1>3. th' \in [Thread -> {Idle} \cup Local]
  BY <1>2, TypeFacts, Zenon
<1>4. TypeOK'
  BY <1>1, <1>3, TypeFacts, Zenon DEF TypeOK, Sess, Interval, Moment, Sorted
<1>5. ASSUME NEW y \in Thread PROVE GoodLocal(y, th[y])'
  <2>1. GoodLocal(y, th'[y])
    <3>1. CASE y = x
      BY <3>1, TypeFacts, Zenon
    <3>2. CASE y # x
      BY <3>2, TypeFacts, Zenon
    <3>. QED  BY <3>1, <3>2, Zenon
  <2>. QED  BY <1>1, <2>1, Zenon DEF GoodLocal
<1>. QED  BY <1>4, <1>5, Zenon DEF TypeInv

\* Moving on to another place with the same locals, or to the end.
LEMMA GotoGood ==
  ASSUME TypeInv, NEW x \in Thread, th[x] # Idle, NEW pc,
         pc = "idle" \/ (pc \in PcOf(x) /\ (pc \in Timed => th[x].at # NoTime))
  PROVE  LET l == IF pc = "idle" THEN Idle ELSE [th[x] EXCEPT !.pc = pc] IN
         /\ GoodLocal(x, l)
         /\ l.pc = pc
         /\ pc # "idle" => l.t = th[x].t /\ l.at = th[x].at
<1>1. CASE pc = "idle"
  BY <1>1, IdleFacts, Zenon DEF GoodLocal
<1>2. CASE pc # "idle"
  <2> DEFINE l == [th[x] EXCEPT !.pc = pc]
  <2>1. th[x] \in Local /\ th[x].t <= now /\ now <= th[x].t + Lag
    BY TypeFacts, Zenon
  <2>2. pc \in Pc
    BY <1>2, IdleFacts, Zenon DEF PcOf
  <2>3. l \in Local /\ l.pc = pc /\ l.t = th[x].t /\ l.at = th[x].at
    BY <2>1, <2>2, Zenon DEF Local
  <2> HIDE DEF l
  <2>4. GoodLocal(x, l)
    BY <1>2, <2>1, <2>3, Zenon DEF GoodLocal
  <2>. QED  BY <1>2, <2>3, <2>4, Zenon DEF l
<1>. QED  BY <1>1, <1>2, Zenon

\* New locals with a reading of the clock that is not too old.
LEMMA LocalGood ==
  ASSUME TypeInv, NEW x \in Thread, NEW pc \in PcOf(x), NEW t \in 0 .. scen.maxTime,
         t <= now, now <= t + Lag, NEW at \in Moment, pc \in Timed => at # NoTime
  PROVE  GoodLocal(x, [pc |-> pc, t |-> t, at |-> at])
<1>1. pc \in Pc
  BY IdleFacts, Zenon DEF PcOf
<1>2. t \in Time
  <2>1. scen \in Scenario
    BY ClockFacts, Zenon
  <2>. QED  BY <2>1, TimeFacts, Zenon
<1>3. [pc |-> pc, t |-> t, at |-> at] \in Local
  BY <1>1, <1>2, Zenon DEF Local, Moment
<1>. QED  BY <1>3, Zenon DEF GoodLocal

\* Moving on with another time to schedule, or with a new reading of the clock.
LEMMA OtherGood ==
  ASSUME TypeInv, NEW x \in Thread, th[x] # Idle, NEW l \in Local, l.pc \in PcOf(x),
         l.pc \in Timed => l.at # NoTime, l.t \in {th[x].t, now}
  PROVE  GoodLocal(x, l) /\ l # Idle
<1>1. th[x].t <= now /\ now <= th[x].t + Lag
  BY TypeFacts, Zenon
<1>2. now \in Nat /\ Lag \in Nat
  BY ClockFacts, Zenon
<1>. QED  BY <1>1, <1>2, IdleFacts DEF GoodLocal

\* Only thread x takes a step; what it then holds.
Only(x) == \A y \in Thread \ {x} : th'[y] = th[y]

\* A thread at a place other than "idle" has work and is who may be there.
LEMMA AtFacts ==
  ASSUME TypeInv, NEW x \in Thread, NEW pc, At(x, pc), pc # "idle"
  PROVE  th[x] # Idle /\ th[x].pc = pc /\ pc \in PcOf(x) /\ (pc \in Timed => th[x].at \in Time)
<1>1. th[x] # Idle /\ th[x].pc = pc
  BY IdleFacts, Zenon DEF At
<1>2. pc \in PcOf(x) /\ (pc \in Timed => th[x].at # NoTime) /\ th[x] \in Local
  BY <1>1, TypeFacts, Zenon DEF GoodLocal
<1>. QED  BY <1>1, <1>2, IdleFacts, Zenon DEF Moment

\* The places of scheduleTx and scheduleDetect, and who may be there.
LEMMA PlaceFacts ==
  /\ \A x \in Thread : \A pc \in {"checkTx", "computeTx", "publishTx", "pushTx"} :
       pc \in PcOf(x) => /\ x \in {"sched", "admin"}
                         /\ {"checkTx", "computeTx", "publishTx", "pushTx"} \subseteq PcOf(x)
  /\ \A x \in Thread : \A pc \in {"arm", "mark", "overflow", "undo", "pushDetect"} :
       pc \in PcOf(x) => /\ x \in {"sched", "recv"}
                         /\ {"arm", "mark", "overflow", "undo", "pushDetect"} \subseteq PcOf(x)
BY Zenon DEF Thread, PcOf, SchedPc, RecvPc, AdminPc

\* Goto, with the rest of the state well typed.
LEMMA GotoStep ==
  ASSUME TypeInv, NEW x \in Thread, th[x] # Idle, NEW pc, Goto(x, pc),
         pc = "idle" \/ (pc \in PcOf(x) /\ (pc \in Timed => th[x].at # NoTime)),
         UNCHANGED <<scen, now>>, sess' \in Sess, txMark' \in Moment, detMark' \in Moment,
         queue' \in Seq(Event), Sorted(queue'), sentAdmin' \in BOOLEAN
  PROVE  /\ TypeInv' /\ Only(x) /\ th'[x].pc = pc
         /\ pc = "idle" => th'[x] = Idle
         /\ pc # "idle" => th'[x] # Idle /\ th'[x].t = th[x].t /\ th'[x].at = th[x].at
<1> DEFINE l == IF pc = "idle" THEN Idle ELSE [th[x] EXCEPT !.pc = pc]
<1>1. /\ GoodLocal(x, l) /\ l.pc = pc
      /\ pc # "idle" => l.t = th[x].t /\ l.at = th[x].at
      /\ pc = "idle" => l = Idle
  BY GotoGood, Zenon
<1>2. th' = [th EXCEPT ![x] = l]
  BY Zenon DEF Goto
<1> HIDE DEF l
<1>3. TypeInv'
  BY <1>1, <1>2, ThreadStep, Zenon
<1>4. th'[x] = l /\ Only(x)
  BY <1>2, TypeFacts, Zenon DEF Only
<1>. QED  BY <1>1, <1>3, <1>4, IdleFacts, Zenon

\* A step of x to new locals, with the rest of the state well typed.
LEMMA LocalStep ==
  ASSUME TypeInv, NEW x \in Thread, NEW l, GoodLocal(x, l), th' = [th EXCEPT ![x] = l],
         UNCHANGED <<scen, now>>, sess' \in Sess, txMark' \in Moment, detMark' \in Moment,
         queue' \in Seq(Event), Sorted(queue'), sentAdmin' \in BOOLEAN
  PROVE  TypeInv' /\ Only(x) /\ th'[x] = l
<1>1. TypeInv'
  BY ThreadStep, Zenon
<1>. QED  BY <1>1, TypeFacts, Zenon DEF Only

\* scheduleTx in its four steps.
LEMMA CheckTxFacts ==
  ASSUME TypeInv, NEW x \in Thread, CheckTx(x)
  PROVE  /\ TypeInv' /\ Only(x) /\ x \in {"sched", "admin"} /\ th[x].pc = "checkTx"
         /\ th'[x].pc = IF ~sess.alive \/ txMark # NoTime THEN "idle" ELSE "computeTx"
         /\ UNCHANGED <<now, sess, txMark, queue, sentAdmin>>
<1> DEFINE pc == IF ~sess.alive \/ txMark # NoTime THEN "idle" ELSE "computeTx"
<1>1. At(x, "checkTx") /\ Goto(x, pc) /\ UNCHANGED <<scen, now, sess, txMark, detMark, queue, sentAdmin>>
  BY Zenon DEF CheckTx
<1>2. th[x] # Idle /\ th[x].pc = "checkTx" /\ "checkTx" \in PcOf(x)
  BY <1>1, AtFacts, Zenon
<1>3. x \in {"sched", "admin"} /\ (pc = "idle" \/ (pc \in PcOf(x) /\ pc \notin Timed))
  BY <1>2, PlaceFacts, Zenon DEF Timed
<1> HIDE DEF pc
<1>4. TypeInv' /\ Only(x) /\ th'[x].pc = pc
  BY <1>1, <1>2, <1>3, GotoStep, StateFacts, Zenon
<1>. QED  BY <1>1, <1>2, <1>3, <1>4, Zenon DEF pc

LEMMA ComputeTxFacts ==
  ASSUME TypeInv, NEW x \in Thread, ComputeTx(x)
  PROVE  /\ TypeInv' /\ Only(x) /\ x \in {"sched", "admin"}
         /\ th[x].pc = "computeTx" /\ th'[x].pc = "publishTx"
         /\ Moves(sess', sess, now)
         /\ UNCHANGED <<now, txMark, queue, sentAdmin>>
<1>1. th[x] # Idle /\ th[x].pc = "computeTx" /\ "computeTx" \in PcOf(x)
  BY AtFacts, Zenon DEF ComputeTx
<1>2. PICK n \in NextTxTimes(Cfg, sess, th[x].t) : GotoAt(x, "publishTx", n)
  BY Zenon DEF ComputeTx
<1>3. n \in Time
  BY <1>1, <1>2, TypeFacts, SessionNumbers, NextTxFacts, Zenon
<1>4. n \in Moment /\ n # NoTime
  BY <1>3, ClockFacts, Zenon
<1>5. x \in {"sched", "admin"} /\ "publishTx" \in PcOf(x)
  BY <1>1, PlaceFacts, Zenon
<1> DEFINE l == [th[x] EXCEPT !.pc = "publishTx", !.at = n]
<1>6. GoodLocal(x, l) /\ l.pc = "publishTx"
  <2>1. l \in Local /\ l.pc = "publishTx" /\ l.t = th[x].t /\ l.at = n
    BY <1>1, <1>4, TypeFacts, Zenon DEF Local, Moment, Pc
  <2>. QED  BY <1>1, <1>4, <1>5, <2>1, OtherGood, Zenon
<1>7. th' = [th EXCEPT ![x] = l]
  BY <1>2, Zenon DEF GotoAt
<1> HIDE DEF l
<1>8. Moves(sess', sess, now) /\ sess' \in Sess
  BY TypeFacts, OtherMoves, Zenon DEF ComputeTx, Moves
<1>9. UNCHANGED <<scen, now, txMark, detMark, queue, sentAdmin>>
  BY Zenon DEF ComputeTx
<1>10. TypeInv' /\ Only(x) /\ th'[x] = l
  BY <1>6, <1>7, <1>8, <1>9, LocalStep, StateFacts, Zenon
<1>. QED  BY <1>1, <1>5, <1>6, <1>8, <1>9, <1>10, Zenon

LEMMA PublishTxFacts ==
  ASSUME TypeInv, NEW x \in Thread, PublishTx(x)
  PROVE  /\ TypeInv' /\ Only(x) /\ x \in {"sched", "admin"} /\ th[x].pc = "publishTx"
         /\ \/ /\ ~sess.alive \/ txMark # NoTime
               /\ th'[x] = Idle /\ txMark' = txMark
            \/ /\ sess.alive /\ txMark = NoTime
               /\ th'[x].pc = "pushTx" /\ th'[x].at = th[x].at
               /\ th[x].at \in Time /\ txMark' = th[x].at
         /\ UNCHANGED <<now, sess, queue, sentAdmin>>
<1>1. th[x] # Idle /\ th[x].pc = "publishTx" /\ "publishTx" \in PcOf(x) /\ th[x].at \in Time
  BY AtFacts, Zenon DEF PublishTx, Timed
<1>2. th[x].at \in Moment /\ th[x].at # NoTime
  BY <1>1, ClockFacts, Zenon
<1>3. x \in {"sched", "admin"} /\ "pushTx" \in PcOf(x)
  BY <1>1, PlaceFacts, Zenon
<1>4. UNCHANGED <<scen, now, sess, detMark, queue, sentAdmin>>
  BY Zenon DEF PublishTx
<1>5. CASE ~sess.alive \/ txMark # NoTime
  <2>1. Goto(x, "idle") /\ txMark' = txMark
    BY <1>5, Zenon DEF PublishTx
  <2>2. TypeInv' /\ Only(x) /\ th'[x] = Idle
    BY <1>1, <1>4, <2>1, GotoStep, StateFacts, Zenon
  <2>. QED  BY <1>1, <1>3, <1>4, <1>5, <2>1, <2>2, Zenon
<1>6. CASE sess.alive /\ txMark = NoTime
  <2>1. Goto(x, "pushTx") /\ txMark' = th[x].at
    BY <1>6, Zenon DEF PublishTx
  <2>2. TypeInv' /\ Only(x) /\ th'[x].pc = "pushTx" /\ th'[x].at = th[x].at
    BY <1>1, <1>2, <1>3, <1>4, <2>1, GotoStep, StateFacts, Zenon
  <2>. QED  BY <1>1, <1>3, <1>4, <1>6, <2>1, <2>2, Zenon
<1>. QED  BY <1>5, <1>6, Zenon

\* A push by x of an event of the given kind and time.
LEMMA PushStep ==
  ASSUME TypeInv, NEW x \in Thread, th[x] # Idle, NEW k \in {"tx", "detect"}, NEW w \in Time,
         Push(Ev(k, w)), Goto(x, "idle"),
         UNCHANGED <<scen, now, sess, txMark, detMark, sentAdmin>>
  PROVE  TypeInv' /\ Only(x) /\ th'[x] = Idle /\ Ev(k, w) \in Event
<1>1. Ev(k, w) \in Event
  BY Zenon DEF Ev, Event
<1>2. queue' \in Seq(Event) /\ Sorted(queue')
  BY <1>1, PushFacts, TypeFacts, Zenon
<1>. QED  BY <1>1, <1>2, GotoStep, StateFacts, Zenon

LEMMA PushTxFacts ==
  ASSUME TypeInv, NEW x \in Thread, PushTx(x)
  PROVE  /\ TypeInv' /\ Only(x) /\ x \in {"sched", "admin"}
         /\ th[x].pc = "pushTx" /\ th'[x] = Idle
         /\ th[x].at \in Time /\ Ev("tx", th[x].at) \in Event
         /\ Push(Ev("tx", th[x].at))
         /\ UNCHANGED <<now, sess, txMark, sentAdmin>>
<1>1. th[x] # Idle /\ th[x].pc = "pushTx" /\ "pushTx" \in PcOf(x) /\ th[x].at \in Time
  BY AtFacts, Zenon DEF PushTx, Timed
<1>2. x \in {"sched", "admin"}
  BY <1>1, PlaceFacts, Zenon
<1>3. TypeInv' /\ Only(x) /\ th'[x] = Idle /\ Ev("tx", th[x].at) \in Event
  BY <1>1, PushStep, Zenon DEF PushTx
<1>. QED  BY <1>1, <1>2, <1>3, Zenon DEF PushTx

\* scheduleDetect: only its push disturbs the queue.
LEMMA ArmFacts ==
  ASSUME TypeInv, NEW x \in Thread, Arm(x)
  PROVE  /\ TypeInv' /\ Only(x) /\ x \in {"sched", "recv"}
         /\ th[x].pc = "arm" /\ th'[x].pc \in {"idle", "mark"}
         /\ Moves(sess', sess, th[x].t)
         /\ UNCHANGED <<now, txMark, queue, sentAdmin>>
<1>1. th[x] # Idle /\ th[x].pc = "arm" /\ "arm" \in PcOf(x)
  BY AtFacts, Zenon DEF Arm
<1>2. x \in {"sched", "recv"} /\ "mark" \in PcOf(x)
  BY <1>1, PlaceFacts, Zenon
<1>3. UNCHANGED <<scen, now, txMark, detMark, queue, sentAdmin>>
  BY Zenon DEF Arm
<1>4. CASE CanArm(sess)
  <2>1. sess' = ArmDetect(Cfg, sess, th[x].t) /\ GotoAt(x, "mark", sess'.detectDeadline)
    BY <1>4, Zenon DEF Arm
  <2>2. Moves(sess', sess, th[x].t) /\ sess'.detectDeadline \in Time
    BY <1>1, <1>4, <2>1, TypeFacts, ArmDetectMoves, Zenon
  <2>3. sess'.detectDeadline \in Moment /\ sess'.detectDeadline # NoTime
    BY <2>2, ClockFacts, Zenon
  <2> DEFINE l == [th[x] EXCEPT !.pc = "mark", !.at = sess'.detectDeadline]
  <2>4. GoodLocal(x, l) /\ l.pc = "mark"
    <3>1. l \in Local /\ l.pc = "mark" /\ l.t = th[x].t /\ l.at = sess'.detectDeadline
      BY <1>1, <2>3, TypeFacts, Zenon DEF Local, Moment, Pc
    <3>. QED  BY <1>1, <1>2, <2>3, <3>1, OtherGood, Zenon
  <2>5. th' = [th EXCEPT ![x] = l]
    BY <2>1, Zenon DEF GotoAt
  <2> HIDE DEF l
  <2>6. sess' \in Sess
    BY <2>2, Zenon DEF Moves
  <2>7. TypeInv' /\ Only(x) /\ th'[x] = l
    BY <1>3, <2>4, <2>5, <2>6, LocalStep, StateFacts, Zenon
  <2>. QED  BY <1>1, <1>2, <1>3, <2>2, <2>4, <2>7, Zenon
<1>5. CASE ~CanArm(sess)
  <2>1. Goto(x, "idle") /\ sess' = sess
    BY <1>5, Zenon DEF Arm
  <2>2. TypeInv' /\ Only(x) /\ th'[x].pc = "idle"
    BY <1>1, <1>3, <2>1, GotoStep, StateFacts, Zenon
  <2>3. Moves(sess', sess, th[x].t)
    BY <2>1, TypeFacts, MovesSame, Zenon
  <2>. QED  BY <1>1, <1>2, <1>3, <2>2, <2>3, Zenon
<1>. QED  BY <1>4, <1>5, Zenon

LEMMA MarkingFacts ==
  ASSUME TypeInv, NEW x \in Thread, MarkDetect(x) \/ Overflow(x) \/ UndoMark(x)
  PROVE  /\ TypeInv' /\ Only(x) /\ x \in {"sched", "recv"}
         /\ th[x].pc \in {"mark", "overflow", "undo"}
         /\ th'[x].pc \in {"idle", "overflow", "undo", "pushDetect"}
         /\ UNCHANGED <<now, sess, txMark, queue, sentAdmin>>
<1>0. UNCHANGED <<scen, now, sess, txMark, queue, sentAdmin>>
  BY Zenon DEF MarkDetect, Overflow, UndoMark
<1>1. /\ th[x] # Idle /\ th[x].pc \in {"mark", "overflow", "undo"}
      /\ th[x].pc \in PcOf(x) /\ th[x].at \in Time
  BY AtFacts, Zenon DEF MarkDetect, Overflow, UndoMark, Timed
<1>2. /\ x \in {"sched", "recv"} /\ {"overflow", "undo", "pushDetect"} \subseteq PcOf(x)
      /\ th[x].at \in Moment /\ th[x].at # NoTime
  BY <1>1, PlaceFacts, ClockFacts, Zenon
<1>3. detMark' \in Moment
  BY <1>2, StateFacts, ClockFacts, Zenon DEF MarkDetect, Overflow, UndoMark
<1>4. \E pc \in {"idle", "overflow", "undo", "pushDetect"} : Goto(x, pc)
  BY Zenon DEF MarkDetect, Overflow, UndoMark
<1>5. PICK pc \in {"idle", "overflow", "undo", "pushDetect"} : Goto(x, pc)
  BY <1>4, Zenon
<1>6. TypeInv' /\ Only(x) /\ th'[x].pc = pc
  BY <1>0, <1>1, <1>2, <1>3, <1>5, GotoStep, StateFacts, Zenon
<1>. QED  BY <1>0, <1>1, <1>2, <1>6, Zenon

LEMMA PushDetectFacts ==
  ASSUME TypeInv, NEW x \in Thread, PushDetect(x)
  PROVE  /\ TypeInv' /\ Only(x) /\ x \in {"sched", "recv"}
         /\ th[x].pc = "pushDetect" /\ th'[x] = Idle
         /\ Ev("detect", th[x].at) \in Event
         /\ Push(Ev("detect", th[x].at))
         /\ UNCHANGED <<now, sess, txMark, sentAdmin>>
<1>1. /\ th[x] # Idle /\ th[x].pc = "pushDetect" /\ "pushDetect" \in PcOf(x)
      /\ th[x].at \in Time
  BY AtFacts, Zenon DEF PushDetect, Timed
<1>2. x \in {"sched", "recv"}
  BY <1>1, PlaceFacts, Zenon
<1>3. TypeInv' /\ Only(x) /\ th'[x] = Idle /\ Ev("detect", th[x].at) \in Event
  BY <1>1, PushStep, Zenon DEF PushDetect
<1>. QED  BY <1>1, <1>2, <1>3, Zenon DEF PushDetect

\* Scheduler.Run takes the earliest event.
LEMMA PopFacts ==
  ASSUME TypeInv, Pop
  PROVE  /\ TypeInv' /\ Only("sched") /\ th["sched"] = Idle
         /\ 1 \in DOMAIN queue /\ queue[1].when \in Time /\ queue[1].when <= now
         /\ th'["sched"].pc = queue[1].kind /\ th'["sched"].pc \in {"tx", "detect"}
         /\ th'["sched"].at = queue[1].when
         /\ \A i \in DOMAIN queue' : i + 1 \in DOMAIN queue /\ queue'[i] = queue[i + 1]
         /\ \A i \in DOMAIN queue \ {1} : i - 1 \in DOMAIN queue' /\ queue'[i - 1] = queue[i]
         /\ UNCHANGED <<now, sess, txMark, sentAdmin>>
<1> DEFINE l == [pc |-> queue[1].kind, t |-> now, at |-> queue[1].when]
<1>1. /\ th["sched"] = Idle /\ queue # <<>> /\ queue[1].when <= now
      /\ queue' = Tail(queue) /\ th' = [th EXCEPT !["sched"] = l]
      /\ UNCHANGED <<scen, now, sess, txMark, detMark, sentAdmin>>
  <2>1. queue # <<>>
    BY Zenon DEF Pop
  <2>2. Head(queue) = queue[1]
    BY <2>1, TypeFacts
  <2>. QED  BY <2>2, Zenon DEF Pop
<1>2. queue \in Seq(Event) /\ Sorted(queue)
  BY TypeFacts, Zenon
<1>3. /\ 1 \in DOMAIN queue /\ queue[1] \in Event /\ queue' \in Seq(Event)
      /\ DOMAIN queue = 1 .. Len(queue) /\ DOMAIN queue' = 1 .. Len(queue) - 1
      /\ Len(queue) \in Nat
      /\ \A i \in 1 .. Len(queue) - 1 : queue'[i] = queue[i + 1]
  BY <1>1, <1>2
<1>4. Sorted(queue')
  <2> SUFFICES ASSUME NEW i \in DOMAIN queue', NEW j \in DOMAIN queue', i < j
               PROVE  queue'[i].when <= queue'[j].when
    BY Zenon DEF Sorted
  <2>1. /\ i + 1 \in DOMAIN queue /\ j + 1 \in DOMAIN queue /\ i + 1 < j + 1
        /\ queue'[i] = queue[i + 1] /\ queue'[j] = queue[j + 1]
    BY <1>3
  <2>2. queue[i + 1].when <= queue[j + 1].when
    BY <1>2, <2>1, Zenon DEF Sorted
  <2>. QED  BY <2>1, <2>2, Zenon
<1>5. queue[1].when \in Time /\ queue[1].kind \in {"tx", "detect"}
  BY <1>3, Zenon DEF Event
<1>6. GoodLocal("sched", l)
  <2>1. "sched" \in Thread /\ queue[1].kind \in PcOf("sched")
    BY <1>5, Zenon DEF Thread, PcOf, SchedPc
  <2>2. /\ now \in 0 .. scen.maxTime /\ now \in Nat /\ Lag \in Nat
        /\ queue[1].when \in Moment /\ queue[1].when # NoTime
    BY <1>5, TypeFacts, TimeFacts, SchedulerAssumption, Zenon
  <2>3. now <= now /\ now <= now + Lag
    BY <2>2
  <2>. QED  BY <2>1, <2>2, <2>3, LocalGood, Zenon
<1>7. l.pc = queue[1].kind /\ l.at = queue[1].when
  BY Zenon
<1> HIDE DEF l
<1>8. TypeInv' /\ Only("sched") /\ th'["sched"] = l
  BY <1>1, <1>3, <1>4, <1>6, LocalStep, StateFacts, Zenon DEF Thread
<1>9. \A i \in DOMAIN queue \ {1} : i - 1 \in DOMAIN queue' /\ queue'[i - 1] = queue[i]
  BY <1>3
<1>10. \A i \in DOMAIN queue' : i + 1 \in DOMAIN queue /\ queue'[i] = queue[i + 1]
  BY <1>3
<1>. QED  BY <1>1, <1>3, <1>5, <1>7, <1>8, <1>9, <1>10, Zenon

\* A transmission: the marker is cleared, the packet sent, and the session's
\* state decides whether another one is scheduled.
LEMMA UnmarkTxFacts ==
  ASSUME TypeInv, UnmarkTx
  PROVE  /\ TypeInv' /\ Only("sched") /\ th["sched"].pc = "tx" /\ th'["sched"].pc = "send"
         /\ txMark' = IF txMark = th["sched"].at THEN NoTime ELSE txMark
         /\ UNCHANGED <<now, sess, queue, sentAdmin>>
<1>1. th["sched"] # Idle /\ th["sched"].pc = "tx" /\ "sched" \in Thread
  BY AtFacts, Zenon DEF UnmarkTx, Thread
<1>2. "send" \in PcOf("sched") /\ "send" \notin Timed
  BY Zenon DEF PcOf, SchedPc, Timed
<1>3. txMark' \in Moment
  BY StateFacts, ClockFacts, Zenon DEF UnmarkTx
<1>4. TypeInv' /\ Only("sched") /\ th'["sched"].pc = "send"
  BY <1>1, <1>2, <1>3, GotoStep, StateFacts, Zenon DEF UnmarkTx
<1>. QED  BY <1>1, <1>4, Zenon DEF UnmarkTx

LEMMA SendFacts ==
  ASSUME TypeInv, Send
  PROVE  /\ TypeInv' /\ Only("sched") /\ th["sched"].pc = "send" /\ th'["sched"].pc = "state"
         /\ sentAdmin' = (sentAdmin \/ (sess.alive /\ sess.state = AdminDown))
         /\ UNCHANGED <<now, sess, txMark, queue>>
<1>1. th["sched"] # Idle /\ th["sched"].pc = "send" /\ "sched" \in Thread
  BY AtFacts, Zenon DEF Send, Thread
<1>2. "state" \in PcOf("sched") /\ "state" \notin Timed
  BY Zenon DEF PcOf, SchedPc, Timed
<1>3. sentAdmin' \in BOOLEAN
  BY Zenon DEF Send
<1>4. TypeInv' /\ Only("sched") /\ th'["sched"].pc = "state"
  BY <1>1, <1>2, <1>3, GotoStep, StateFacts, Zenon DEF Send
<1>. QED  BY <1>1, <1>4, Zenon DEF Send

\* The scheduler goes on to pc with a new reading of the clock.
LEMMA SchedNow ==
  ASSUME TypeInv, th["sched"] # Idle, NEW pc \in SchedPc \ Timed
  PROVE  LET l == [th["sched"] EXCEPT !.pc = pc, !.t = now] IN
         GoodLocal("sched", l) /\ l # Idle /\ l.pc = pc /\ l.t = now /\ l.at = th["sched"].at
<1> DEFINE l == [th["sched"] EXCEPT !.pc = pc, !.t = now]
<1>1. "sched" \in Thread /\ PcOf("sched") = SchedPc
  BY Zenon DEF Thread, PcOf
<1>2. pc \in Pc /\ now \in Time /\ th["sched"] \in Local
  BY <1>1, IdleFacts, TypeFacts, ClockFacts, Zenon
<1>3. l \in Local /\ l.pc = pc /\ l.t = now /\ l.at = th["sched"].at
  BY <1>2, Zenon DEF Local
<1> HIDE DEF l
<1>4. GoodLocal("sched", l) /\ l # Idle
  BY <1>1, <1>3, OtherGood, Zenon
<1>. QED  BY <1>3, <1>4, Zenon DEF l

LEMMA AfterSendFacts ==
  ASSUME TypeInv, AfterSend
  PROVE  /\ TypeInv' /\ Only("sched") /\ th["sched"].pc = "state"
         /\ th'["sched"].pc = IF sess.state = AdminDown THEN "idle" ELSE "checkTx"
         /\ UNCHANGED <<now, sess, txMark, queue, sentAdmin>>
<1> DEFINE k == [th["sched"] EXCEPT !.pc = "checkTx", !.t = now]
           l == IF sess.state = AdminDown THEN Idle ELSE k
<1>1. th["sched"] # Idle /\ th["sched"].pc = "state" /\ "sched" \in Thread
  BY AtFacts, Zenon DEF AfterSend, Thread
<1>2. "checkTx" \in SchedPc \ Timed
  BY Zenon DEF SchedPc, Timed
<1>3. GoodLocal("sched", k) /\ k.pc = "checkTx"
  BY <1>1, <1>2, SchedNow, Zenon
<1>4. th' = [th EXCEPT !["sched"] = l]
  BY Zenon DEF AfterSend
<1> HIDE DEF k
<1>5. GoodLocal("sched", l) /\ l.pc = IF sess.state = AdminDown THEN "idle" ELSE "checkTx"
  BY <1>3, IdleFacts, Zenon DEF GoodLocal
<1> HIDE DEF l
<1>6. UNCHANGED <<scen, now, sess, txMark, detMark, queue, sentAdmin>>
  BY Zenon DEF AfterSend
<1>7. TypeInv' /\ Only("sched") /\ th'["sched"] = l
  BY <1>1, <1>4, <1>5, <1>6, LocalStep, StateFacts, Zenon
<1>. QED  BY <1>1, <1>5, <1>6, <1>7, Zenon

\* A detect event: compared with the deadline, tried, and pushed out or
\* followed by the transmission that announces Down.
LEMMA CheckDetectFacts ==
  ASSUME TypeInv, CheckDetect
  PROVE  /\ TypeInv' /\ Only("sched") /\ th["sched"].pc = "detect" /\ th["sched"].at \in Time
         /\ \/ th'["sched"].pc = "idle"
            \/ th'["sched"].pc = "expire" /\ th["sched"].at = sess.detectDeadline
         /\ UNCHANGED <<now, sess, txMark, queue, sentAdmin>>
<1> DEFINE k == [th["sched"] EXCEPT !.pc = "expire"]
           l == IF th["sched"].at # sess.detectDeadline THEN Idle ELSE k
<1>1. /\ th["sched"] # Idle /\ th["sched"].pc = "detect" /\ "sched" \in Thread
      /\ th["sched"].at \in Time
  BY AtFacts, Zenon DEF CheckDetect, Thread, Timed
<1>2. /\ "expire" \in PcOf("sched") /\ "expire" \notin Timed /\ "expire" # "idle"
  BY Zenon DEF PcOf, SchedPc, Timed
<1>3. GoodLocal("sched", k) /\ k.pc = "expire"
  BY <1>1, <1>2, GotoGood, Zenon
<1>4. th' = [th EXCEPT !["sched"] = l]
  BY Zenon DEF CheckDetect
<1> HIDE DEF k
<1>5. /\ GoodLocal("sched", l)
      /\ l.pc = "idle" \/ (l.pc = "expire" /\ th["sched"].at = sess.detectDeadline)
  BY <1>3, IdleFacts, Zenon DEF GoodLocal
<1> HIDE DEF l
<1>6. UNCHANGED <<scen, now, sess, txMark, queue, sentAdmin>> /\ detMark' \in Moment
  BY StateFacts, ClockFacts, Zenon DEF CheckDetect
<1>7. TypeInv' /\ Only("sched") /\ th'["sched"] = l
  BY <1>1, <1>4, <1>5, <1>6, LocalStep, StateFacts, Zenon
<1>. QED  BY <1>1, <1>5, <1>6, <1>7, Zenon

LEMMA ExpireFacts ==
  ASSUME TypeInv, Expire
  PROVE  /\ TypeInv' /\ Only("sched") /\ th["sched"].pc = "expire" /\ th'["sched"].t = now
         /\ th'["sched"].pc = IF DetectDue(sess, now) THEN "pushDown" ELSE "active"
         /\ Moves(sess', sess, now)
         /\ DetectDue(sess, now) =>
              sess'.detectDeadline = NoTime /\ sess.alive /\ sess.state # AdminDown
         /\ UNCHANGED <<now, txMark, queue, sentAdmin>>
<1> DEFINE pc == IF DetectDue(sess, now) THEN "pushDown" ELSE "active"
           l == [th["sched"] EXCEPT !.pc = pc, !.t = now]
<1>1. th["sched"] # Idle /\ th["sched"].pc = "expire" /\ "sched" \in Thread
  BY AtFacts, Zenon DEF Expire, Thread
<1>2. pc \in SchedPc \ Timed
  BY Zenon DEF SchedPc, Timed
<1>3. th' = [th EXCEPT !["sched"] = l]
  BY Zenon DEF Expire
<1>4. GoodLocal("sched", l) /\ l.pc = pc /\ l.t = now
  <2> HIDE DEF pc
  <2>. QED  BY <1>1, <1>2, SchedNow, Zenon
<1> HIDE DEF l
<1>5. /\ Moves(sess', sess, now) /\ sess' \in Sess
      /\ DetectDue(sess, now) => sess'.detectDeadline = NoTime
  BY TypeFacts, OtherMoves, Zenon DEF Expire, Moves
<1>6. DetectDue(sess, now) => sess.alive /\ sess.state # AdminDown
  BY DEF DetectDue, CanArm, Active
<1>7. UNCHANGED <<scen, now, txMark, detMark, queue, sentAdmin>>
  BY Zenon DEF Expire
<1>8. TypeInv' /\ Only("sched") /\ th'["sched"] = l
  BY <1>1, <1>3, <1>4, <1>5, <1>7, LocalStep, StateFacts, Zenon
<1>. QED  BY <1>1, <1>4, <1>5, <1>6, <1>7, <1>8, Zenon

LEMMA PushDownFacts ==
  ASSUME TypeInv, PushDown
  PROVE  /\ TypeInv' /\ Only("sched") /\ th["sched"].pc = "pushDown" /\ th'["sched"] = Idle
         /\ th["sched"].t \in Time /\ Ev("tx", th["sched"].t) \in Event
         /\ Push(Ev("tx", th["sched"].t))
         /\ UNCHANGED <<now, sess, txMark, sentAdmin>>
<1>1. th["sched"] # Idle /\ th["sched"].pc = "pushDown" /\ "sched" \in Thread
  BY AtFacts, Zenon DEF PushDown, Thread
<1>2. th["sched"].t \in Time
  BY <1>1, TypeFacts, IdleFacts, Zenon
<1>3. TypeInv' /\ Only("sched") /\ th'["sched"] = Idle /\ Ev("tx", th["sched"].t) \in Event
  BY <1>1, <1>2, PushStep, Zenon DEF PushDown
<1>. QED  BY <1>1, <1>2, <1>3, Zenon DEF PushDown

LEMMA StillActiveFacts ==
  ASSUME TypeInv, StillActive
  PROVE  /\ TypeInv' /\ Only("sched") /\ th["sched"].pc = "active"
         /\ th'["sched"].pc \in {"idle", "arm"}
         /\ UNCHANGED <<now, sess, txMark, queue, sentAdmin>>
<1> DEFINE k == [th["sched"] EXCEPT !.pc = "arm", !.t = now]
           l == IF Active(sess) THEN k ELSE Idle
<1>1. th["sched"] # Idle /\ th["sched"].pc = "active" /\ "sched" \in Thread
  BY AtFacts, Zenon DEF StillActive, Thread
<1>2. "arm" \in SchedPc \ Timed
  BY Zenon DEF SchedPc, Timed
<1>3. GoodLocal("sched", k) /\ k.pc = "arm"
  BY <1>1, <1>2, SchedNow, Zenon
<1>4. th' = [th EXCEPT !["sched"] = l]
  BY Zenon DEF StillActive
<1> HIDE DEF k
<1>5. GoodLocal("sched", l) /\ l.pc \in {"idle", "arm"}
  BY <1>3, IdleFacts, Zenon DEF GoodLocal
<1> HIDE DEF l
<1>6. UNCHANGED <<scen, now, sess, txMark, detMark, queue, sentAdmin>>
  BY Zenon DEF StillActive
<1>7. TypeInv' /\ Only("sched") /\ th'["sched"] = l
  BY <1>1, <1>4, <1>5, <1>6, LocalStep, StateFacts, Zenon
<1>. QED  BY <1>1, <1>5, <1>6, <1>7, Zenon

\* HandleRx and the callers of the manager.
LEMMA ReceiveFacts ==
  ASSUME TypeInv, Receive
  PROVE  /\ TypeInv' /\ Only("recv") /\ th["recv"] = Idle /\ th'["recv"].pc = "handle"
         /\ UNCHANGED <<now, sess, txMark, queue, sentAdmin>>
<1> DEFINE l == [pc |-> "handle", t |-> now, at |-> NoTime]
<1>1. "recv" \in Thread /\ "handle" \in PcOf("recv") /\ "handle" \notin Timed
  BY Zenon DEF Thread, PcOf, RecvPc, Timed
<1>2. now \in 0 .. scen.maxTime /\ now <= now /\ now <= now + Lag /\ NoTime \in Moment
  BY ClockFacts, Zenon
<1>3. GoodLocal("recv", l)
  BY <1>1, <1>2, LocalGood, Zenon
<1>4. th["recv"] = Idle /\ th' = [th EXCEPT !["recv"] = l] /\ l.pc = "handle"
  BY Zenon DEF Receive
<1> HIDE DEF l
<1>5. UNCHANGED <<scen, now, sess, txMark, detMark, queue, sentAdmin>>
  BY Zenon DEF Receive
<1>6. TypeInv' /\ Only("recv") /\ th'["recv"] = l
  BY <1>1, <1>3, <1>4, <1>5, LocalStep, StateFacts, Zenon
<1>. QED  BY <1>4, <1>5, <1>6, Zenon

LEMMA HandleFacts ==
  ASSUME TypeInv, NEW pkt \in scen.packets, Handle(pkt)
  PROVE  /\ TypeInv' /\ Only("recv") /\ th["recv"] # Idle
         /\ Moves(sess', sess, th["recv"].t)
         /\ UNCHANGED <<now, txMark, queue, sentAdmin>>
<1>1. th["recv"] # Idle /\ "recv" \in Thread
  BY AtFacts, Zenon DEF Handle, Thread
<1>2. "arm" \in PcOf("recv") /\ "arm" \notin Timed
  BY Zenon DEF PcOf, RecvPc, Timed
<1>3. Moves(sess', sess, th["recv"].t) /\ sess' \in Sess
  BY <1>1, TypeFacts, HandleRxMoves, Zenon DEF Handle, Moves
<1>4. \E pc \in {"arm", "idle"} : Goto("recv", pc)
  BY Zenon DEF Handle
<1>5. UNCHANGED <<scen, now, txMark, detMark, queue, sentAdmin>>
  BY Zenon DEF Handle
<1>6. TypeInv' /\ Only("recv")
  BY <1>1, <1>2, <1>3, <1>4, <1>5, GotoStep, StateFacts, Zenon
<1>. QED  BY <1>1, <1>3, <1>5, <1>6, Zenon

LEMMA AdminDownRouteFacts ==
  ASSUME TypeInv, AdminDownRoute
  PROVE  /\ TypeInv' /\ Only("admin") /\ th["admin"] = Idle /\ th'["admin"].pc = "checkTx"
         /\ sess.alive /\ sess'.alive /\ sess.state # AdminDown /\ sess'.state = AdminDown
         /\ sess'.detectDeadline = NoTime
         /\ UNCHANGED <<now, txMark, queue, sentAdmin>>
<1> DEFINE l == [pc |-> "checkTx", t |-> now, at |-> NoTime]
<1>1. "admin" \in Thread /\ "checkTx" \in PcOf("admin") /\ "checkTx" \notin Timed
  BY Zenon DEF Thread, PcOf, AdminPc, Timed
<1>2. now \in 0 .. scen.maxTime /\ now <= now /\ now <= now + Lag /\ NoTime \in Moment
  BY ClockFacts, Zenon
<1>3. GoodLocal("admin", l)
  BY <1>1, <1>2, LocalGood, Zenon
<1>4. th["admin"] = Idle /\ th' = [th EXCEPT !["admin"] = l] /\ l.pc = "checkTx"
  BY Zenon DEF AdminDownRoute
<1> HIDE DEF l
<1>5. UNCHANGED <<scen, now, txMark, queue, sentAdmin>> /\ detMark' \in Moment
  BY StateFacts, ClockFacts, Zenon DEF AdminDownRoute
<1>6. /\ sess.alive /\ sess.state # AdminDown /\ sess' \in Sess /\ sess'.alive
      /\ sess'.state = AdminDown /\ sess'.detectDeadline = NoTime
  BY TypeFacts, OtherMoves, Zenon DEF AdminDownRoute
<1>7. TypeInv' /\ Only("admin") /\ th'["admin"] = l
  BY <1>1, <1>3, <1>4, <1>5, <1>6, LocalStep, StateFacts, Zenon
<1>. QED  BY <1>4, <1>5, <1>6, <1>7, Zenon

LEMMA WithdrawFacts ==
  ASSUME TypeInv, Withdraw
  PROVE  /\ TypeInv' /\ ~sess'.alive
         /\ sess'.state = sess.state /\ sess'.detectDeadline = sess.detectDeadline
         /\ UNCHANGED <<now, txMark, queue, th, sentAdmin>>
<1>1. sess \in Sess /\ sess' = [sess EXCEPT !.alive = FALSE]
  BY TypeFacts, Zenon DEF Withdraw
<1>2. sess' \in Sess
  BY <1>1, FieldTypes, ValueTypes, Zenon
<1>3. /\ ~sess'.alive /\ sess'.state = sess.state
      /\ sess'.detectDeadline = sess.detectDeadline
  BY <1>1, Zenon DEF Sess, SessionType
<1>4. UNCHANGED <<scen, now, txMark, detMark, queue, th, sentAdmin>>
  BY Zenon DEF Withdraw
<1>5. "sched" \in Thread /\ GoodLocal("sched", th["sched"]) /\ th' = [th EXCEPT !["sched"] = th["sched"]]
  BY <1>4, TypeFacts, Zenon DEF Thread
<1>6. TypeInv'
  BY <1>2, <1>4, <1>5, ThreadStep, StateFacts, Zenon
<1>. QED  BY <1>3, <1>4, <1>6, Zenon

\* The clock advances only while every reading of it stays recent.
LEMMA TickFacts ==
  ASSUME TypeInv, Tick
  PROVE  TypeInv' /\ now' = now + 1 /\ UNCHANGED <<sess, txMark, queue, th, sentAdmin>>
<1>1. /\ now < scen.maxTime /\ now' = now + 1
      /\ UNCHANGED <<scen, sess, txMark, detMark, queue, th, sentAdmin>>
      /\ \A x \in Thread : th[x] # Idle => now < th[x].t + Lag
  BY Zenon DEF Tick
<1>2. now \in Nat /\ scen.maxTime \in Nat /\ now' \in 0 .. scen.maxTime
  BY <1>1, ClockFacts, TimeFacts
<1>3. Time' = Time /\ Event' = Event /\ Local' = Local
  BY <1>1, Zenon DEF Time, Event, Local
<1>4. TypeOK'
  BY <1>1, <1>2, <1>3, TypeFacts, Zenon DEF TypeOK, Sess, Interval, Moment, Sorted
<1>5. ASSUME NEW x \in Thread PROVE GoodLocal(x, th[x])'
  <2>1. GoodLocal(x, th[x]) /\ Lag \in Nat
    BY TypeFacts, ClockFacts, Zenon
  <2>2. CASE th[x] = Idle
    BY <1>1, <2>2, Zenon DEF GoodLocal
  <2>3. CASE th[x] # Idle
    <3>1. th[x].t \in Nat /\ th[x].t <= now + 1 /\ now + 1 <= th[x].t + Lag
      BY <1>1, <1>2, <2>1, <2>3, TypeFacts
    <3>. QED  BY <1>1, <1>3, <2>1, <2>3, <3>1, Zenon DEF GoodLocal
  <2>. QED  BY <2>2, <2>3, Zenon
<1>. QED  BY <1>1, <1>4, <1>5, Zenon DEF TypeInv

\* The state RegisterRoute leaves is well typed.
LEMMA InitType == Init => TypeInv
<1> SUFFICES ASSUME Init PROVE TypeInv
  BY Zenon
<1> DEFINE s == NewSession(LocalDiscr)
<1>1. scen \in Scenario /\ now = 0
  BY Zenon DEF Init
<1>2. 0 \in 0 .. scen.maxTime /\ 0 \in Time
  BY <1>1, TimeFacts
<1>3. s \in Sess
  <2>1. 0 \in Interval /\ LocalDiscr \in Discr
    BY SchedulerAssumption, Zenon DEF Interval
  <2>2. "unknown" \in PeerMode /\ "none" \in DownReason /\ Down \in State
    BY DEF PeerMode, DownReason
  <2>. QED  BY <2>1, <2>2, Zenon DEF NewSession, Sess, SessionType, Interval
<1>4. sess \in Sess
  BY <1>3, OtherMoves, Zenon DEF Init, Moves
<1>5. txMark \in Time
  BY <1>1, <1>2, <1>3, SessionNumbers, NextTxFacts, Zenon DEF Init
<1>6. Ev("tx", txMark) \in Event
  BY <1>5, Zenon DEF Ev, Event
<1>7. queue \in Seq(Event) /\ \A i, j \in DOMAIN queue : i < j => queue[i].when <= queue[j].when
  BY <1>6 DEF Init
<1>8. th \in [Thread -> {Idle} \cup Local] /\ \A x \in Thread : th[x] = Idle
  BY Zenon DEF Init
<1>9. detMark \in Moment /\ sentAdmin \in BOOLEAN
  BY <1>1, TimeFacts, Zenon DEF Init
<1>10. TypeOK
  BY <1>1, <1>2, <1>4, <1>5, <1>7, <1>8, <1>9, Zenon DEF TypeOK, Sess, Interval, Moment
<1>. QED  BY <1>8, <1>10, Zenon DEF TypeInv, GoodLocal

-----------------------------------------------------------------------------
(* The chain of transmissions does not break *)

\* The transmission the marker stands for: queued, about to be queued, or
\* popped and not yet unmarked.
MarkedTx ==
  \/ \E i \in DOMAIN queue : queue[i].kind = "tx" /\ queue[i].when = txMark
  \/ th["sched"].pc \in {"tx", "pushTx"} /\ th["sched"].at = txMark
  \/ th["admin"].pc = "pushTx" /\ th["admin"].at = txMark

\* Between a transmission and the marker of the next one.
Resending == {"send", "state", "checkTx", "computeTx", "publishTx"}

\* A marker stands for a transmission.  Without a marker the scheduler is
\* between two transmissions.  AdminDownRoute schedules for an AdminDown
\* session only, and until AdminDown has been sent it is on its way.
Chain ==
  /\ txMark # NoTime => MarkedTx
  /\ (sess.alive /\ sess.state # AdminDown /\ txMark = NoTime) => th["sched"].pc \in Resending
  /\ th["admin"] # Idle => sess.state = AdminDown
  /\ (sess.alive /\ sess.state = AdminDown) =>
        \/ sentAdmin \/ txMark # NoTime \/ th["sched"].pc = "send"
        \/ th["admin"].pc \in {"checkTx", "computeTx", "publishTx"}

LEMMA InitChain == Init => Chain
<1> SUFFICES ASSUME Init PROVE Chain
  BY Zenon
<1>1. TypeInv /\ \A x \in Thread : th[x] = Idle
  BY InitType, Zenon DEF Init
<1>2. txMark # NoTime
  <2> DEFINE s == NewSession(LocalDiscr)
  <2>1. s.peerRxMin \in Nat /\ s.backoffFactor \in Nat
    BY Zenon DEF NewSession
  <2>2. scen \in Scenario /\ 0 \in 0 .. scen.maxTime
    BY <1>1, ClockFacts, TimeFacts
  <2> HIDE DEF s
  <2>3. NextTxTimes(Cfg, s, 0) \subseteq Time
    BY <2>1, <2>2, NextTxFacts, Zenon
  <2>. QED  BY <2>2, <2>3, TimeFacts, Zenon DEF Init, s
<1>3. 1 \in DOMAIN queue /\ queue[1].kind = "tx" /\ queue[1].when = txMark
  BY DEF Init, Ev
<1>4. sess.state = Down
  <2>1. NewSession(LocalDiscr).state = Down
    BY Zenon DEF NewSession
  <2>. QED  BY <2>1, Zenon DEF Init, AfterComputeNextTx, NewSession
<1>. QED  BY <1>1, <1>2, <1>3, <1>4, Zenon DEF Chain, MarkedTx, Thread

\* Steps that schedule and send nothing keep the chain.
LEMMA QuietChain ==
  ASSUME Chain, UNCHANGED <<txMark, queue, sentAdmin>>, th'["admin"] = th["admin"],
         sess'.alive => sess.alive, sess'.state = AdminDown <=> sess.state = AdminDown,
         \/ th'["sched"] = th["sched"]
         \/ /\ th["sched"].pc \notin Resending \cup {"tx", "pushTx"}
            /\ th'["sched"].pc \notin Resending \cup {"tx", "pushTx"}
  PROVE  Chain'
<1>1. (txMark # NoTime => MarkedTx)'
  BY Zenon DEF Chain, MarkedTx
<1>. QED  BY <1>1, Zenon DEF Chain, Resending

\* What a push keeps and adds.
LEMMA PushKeeps ==
  ASSUME TypeInv, NEW e \in Event, Push(e)
  PROVE  /\ \A i \in DOMAIN queue : \E j \in DOMAIN queue' : queue'[j] = queue[i]
         /\ \E j \in DOMAIN queue' : queue'[j] = e
<1>1. queue \in Seq(Event) /\ Sorted(queue) /\ scen \in Scenario
  BY TypeFacts, Zenon
<1>2. PICK n \in 0 .. Len(queue) :
        /\ Len(queue') = Len(queue) + 1
        /\ \A i \in 1 .. n : queue'[i] = queue[i]
        /\ queue'[n + 1] = e
        /\ \A i \in n + 2 .. Len(queue) + 1 : queue'[i] = queue[i - 1]
  BY <1>1, PushFacts, Zenon
<1>3. Len(queue) \in Nat /\ DOMAIN queue = 1 .. Len(queue) /\ DOMAIN queue' = 1 .. Len(queue) + 1
  BY <1>1, <1>2, PushFacts
<1>4. ASSUME NEW i \in DOMAIN queue PROVE \E j \in DOMAIN queue' : queue'[j] = queue[i]
  <2>1. CASE i <= n
    BY <1>2, <1>3, <2>1
  <2>2. CASE i > n
    <3>1. i + 1 \in n + 2 .. Len(queue) + 1 /\ i + 1 \in DOMAIN queue' /\ (i + 1) - 1 = i
      BY <1>2, <1>3, <2>2
    <3>. QED  BY <1>2, <3>1, Zenon
  <2>. QED  BY <1>3, <2>1, <2>2
<1>5. n + 1 \in DOMAIN queue' /\ queue'[n + 1] = e
  BY <1>2, <1>3
<1>. QED  BY <1>4, <1>5, Zenon

\* Every step keeps the types and the chain.
LEMMA ChainStep == TypeInv /\ Chain /\ [Next]_vars => TypeInv' /\ Chain'
<1> SUFFICES ASSUME TypeInv, Chain, [Next]_vars PROVE TypeInv' /\ Chain'
  BY Zenon
<1> USE DEF Thread, Only
<1>0. Idle.pc = "idle" /\ \A x \in Thread : th[x] # Idle => th[x].pc # "idle"
  BY IdleFacts, TypeFacts, Zenon
<1>1. CASE Pop
  <2>1. TypeInv'
    BY <1>1, PopFacts, Zenon
  <2>2. (txMark # NoTime => MarkedTx)'
    <3> SUFFICES ASSUME txMark' # NoTime PROVE MarkedTx'
      BY Zenon
    <3>1. MarkedTx
      BY <1>1, PopFacts, Zenon DEF Chain
    <3>2. CASE th["admin"].pc = "pushTx" /\ th["admin"].at = txMark
      BY <1>1, <3>2, PopFacts, Zenon DEF MarkedTx
    <3>3. CASE \E i \in DOMAIN queue : queue[i].kind = "tx" /\ queue[i].when = txMark
      <4>1. PICK i \in DOMAIN queue : queue[i].kind = "tx" /\ queue[i].when = txMark
        BY <3>3, Zenon
      <4>2. CASE i = 1
        BY <1>1, <4>1, <4>2, PopFacts, Zenon DEF MarkedTx
      <4>3. CASE i # 1
        BY <1>1, <4>1, <4>3, PopFacts DEF MarkedTx
      <4>. QED  BY <4>2, <4>3, Zenon
    <3>. QED  BY <1>0, <1>1, <3>1, <3>2, <3>3, PopFacts, Zenon DEF MarkedTx
  <2>. QED  BY <1>0, <1>1, <2>1, <2>2, PopFacts, Zenon DEF Chain, Resending
<1>2. CASE UnmarkTx
  BY <1>0, <1>2, UnmarkTxFacts, Zenon DEF Chain, MarkedTx, Resending
<1>3. CASE Send
  BY <1>0, <1>3, SendFacts, Zenon DEF Chain, MarkedTx, Resending
<1>4. CASE AfterSend
  BY <1>0, <1>4, AfterSendFacts, Zenon DEF Chain, MarkedTx, Resending
<1>5. CASE CheckDetect
  BY <1>5, CheckDetectFacts, QuietChain, Zenon DEF Resending
<1>6. CASE Expire
  BY <1>6, ExpireFacts, QuietChain, Zenon DEF Resending, Moves
<1>7. CASE PushDown
  <2>1. TypeInv' /\ \A i \in DOMAIN queue : \E j \in DOMAIN queue' : queue'[j] = queue[i]
    <3> DEFINE e == Ev("tx", th["sched"].t)
    <3>1. TypeInv' /\ e \in Event /\ Push(e)
      BY <1>7, PushDownFacts, Zenon
    <3> HIDE DEF e
    <3>. QED  BY <3>1, PushKeeps, Zenon
  <2>. QED  BY <1>0, <1>7, <2>1, PushDownFacts, Zenon DEF Chain, MarkedTx, Resending
<1>8. CASE StillActive
  BY <1>8, StillActiveFacts, QuietChain, Zenon DEF Resending
<1>9. CASE Receive
  BY <1>9, ReceiveFacts, QuietChain, Zenon
<1>10. ASSUME NEW pkt \in scen.packets, Handle(pkt) PROVE TypeInv' /\ Chain'
  BY <1>10, HandleFacts, QuietChain, Zenon DEF Moves
<1>11. CASE AdminDownRoute
  BY <1>0, <1>11, AdminDownRouteFacts, Zenon DEF Chain, MarkedTx, Resending
<1>12. CASE Withdraw
  BY <1>12, WithdrawFacts, QuietChain, Zenon
<1>13. CASE Tick
  BY <1>13, TickFacts, QuietChain, Zenon
<1>14. ASSUME NEW x \in Thread, CheckTx(x) PROVE TypeInv' /\ Chain'
  BY <1>0, <1>14, CheckTxFacts, Zenon DEF Chain, MarkedTx, Resending
<1>15. ASSUME NEW x \in Thread, ComputeTx(x) PROVE TypeInv' /\ Chain'
  BY <1>0, <1>15, ComputeTxFacts, Zenon DEF Chain, MarkedTx, Resending, Moves
<1>16. ASSUME NEW x \in Thread, PublishTx(x) PROVE TypeInv' /\ Chain'
  <2>1. NoTime \notin Time
    BY ClockFacts, Zenon
  <2>. QED  BY <1>0, <1>16, <2>1, PublishTxFacts DEF Chain, MarkedTx, Resending
<1>17. ASSUME NEW x \in Thread, PushTx(x) PROVE TypeInv' /\ Chain'
  <2>1. /\ TypeInv' /\ \A i \in DOMAIN queue : \E j \in DOMAIN queue' : queue'[j] = queue[i]
        /\ \E j \in DOMAIN queue' : queue'[j] = Ev("tx", th[x].at)
    BY <1>17, PushTxFacts, PushKeeps, Zenon
  <2>2. (txMark # NoTime => MarkedTx)'
    BY <1>0, <1>17, <2>1, PushTxFacts DEF Chain, MarkedTx, Ev
  <2>. QED  BY <1>0, <1>17, <2>1, <2>2, PushTxFacts, Zenon DEF Chain, Resending
<1>18. ASSUME NEW x \in Thread, Arm(x) PROVE TypeInv' /\ Chain'
  BY <1>18, ArmFacts, QuietChain, Zenon DEF Moves, Resending
<1>19. ASSUME NEW x \in Thread, MarkDetect(x) \/ Overflow(x) \/ UndoMark(x)
       PROVE  TypeInv' /\ Chain'
  BY <1>19, MarkingFacts, QuietChain, Zenon DEF Resending
<1>20. ASSUME NEW x \in Thread, PushDetect(x) PROVE TypeInv' /\ Chain'
  <2>1. TypeInv' /\ \A i \in DOMAIN queue : \E j \in DOMAIN queue' : queue'[j] = queue[i]
    BY <1>20, PushDetectFacts, PushKeeps, Zenon
  <2>. QED  BY <1>0, <1>20, <2>1, PushDetectFacts, Zenon DEF Chain, MarkedTx, Resending
<1>21. CASE UNCHANGED vars
  <2>1. TypeInv'
    BY <1>21, Zenon DEF vars, TypeInv, TypeOK, GoodLocal, Time, Event, Local
  <2>. QED  BY <1>21, <2>1, QuietChain, Zenon DEF vars
<1>. QED  BY <1>1, <1>2, <1>3, <1>4, <1>5, <1>6, <1>7, <1>8, <1>9, <1>10, <1>11, <1>12,
             <1>13, <1>14, <1>15, <1>16, <1>17, <1>18, <1>19, <1>20, <1>21, Zenon DEF Next

\* The types, and the chain, for every Lag: LivenessScheduler never loses the
\* transmission its marker stands for (scheduler.go:291-316).
THEOREM SchedulerChain == Spec => [](TypeInv /\ Chain)
<1>1. Init => TypeInv /\ Chain
  BY InitType, InitChain, Zenon
<1>. QED  BY <1>1, ChainStep, PTL DEF Spec

\* AdminDownRoute's promise (manager.go:713): once it returned, AdminDown has
\* been sent or a transmission that will send it is on its way, however the
\* scheduler, the receiver and the caller interleave.
THEOREM SchedulerAdminDownAdvertised == Spec => []AdminDownAdvertised
<1>1. TypeInv /\ Chain => AdminDownAdvertised
  BY IdleFacts, Zenon DEF Chain, MarkedTx, AdminDownAdvertised
<1>. QED  BY <1>1, SchedulerChain, PTL

-----------------------------------------------------------------------------
(* Nor does it multiply, while Prompt *)

\* The transmissions there are: queued (by place in the queue), in the hands
\* of the scheduler (0) or of AdminDownRoute (-1); and their times.
Token ==
  TxEvents
  \cup (IF th["sched"].pc \in {"tx", "pushTx", "pushDown"} THEN {0} ELSE {})
  \cup (IF th["admin"].pc = "pushTx" THEN {-1} ELSE {})
TimeOf ==
  [h \in Token |-> IF h > 0 THEN queue[h].when
                   ELSE IF h = -1 THEN th["admin"].at
                   ELSE IF th["sched"].pc = "pushDown" THEN th["sched"].t
                   ELSE th["sched"].at]

\* Due, and due before the detect deadline d.
Old(w, n, d) == w <= n /\ (d # NoTime => w < d)

\* At most two transmissions; one without a marker; of two one is due before
\* the deadline, as is every one the marker does not stand for.
Bal(S, f, m, n, d) ==
  /\ \A a, b, c \in S : a = b \/ b = c \/ a = c
  /\ m = NoTime => \A a, b \in S : a = b
  /\ \A a, b \in S : a = b \/ Old(f[a], n, d) \/ Old(f[b], n, d)
  /\ \A a \in S : f[a] = m \/ Old(f[a], n, d)

\* A detect event is popped before the transmissions that are due after it, so
\* when its deadline still stands there is only the one the marker stands for.
Count ==
  /\ Bal(Token, TimeOf, txMark, now, sess.detectDeadline)
  /\ (th["sched"].pc = "detect" /\ sess.state # AdminDown) =>
       \A i \in TxEvents : queue[i].when >= th["sched"].at
  /\ (th["sched"].pc = "expire" /\ sess.state # AdminDown) =>
       \A a, b \in Token : a = b

\* Transmissions that are all transmissions of before.
LEMMA BalEmbed ==
  ASSUME NEW S, NEW T, NEW f, NEW u, NEW m, NEW n, NEW d, Bal(S, f, m, n, d),
         NEW g \in [T -> S], \A a, b \in T : g[a] = g[b] => a = b,
         \A a \in T : u[a] = f[g[a]]
  PROVE  Bal(T, u, m, n, d)
<1>1. \A a \in T : g[a] \in S
  BY Zenon
<1>2. \A a, b, c \in T : a = b \/ b = c \/ a = c
  BY <1>1 DEF Bal
<1>3. m = NoTime => \A a, b \in T : a = b
  BY <1>1 DEF Bal
<1>4. \A a, b \in T : a = b \/ Old(u[a], n, d) \/ Old(u[b], n, d)
  BY <1>1 DEF Bal
<1>5. \A a \in T : u[a] = m \/ Old(u[a], n, d)
  BY <1>1, Zenon DEF Bal
<1>. QED  BY <1>2, <1>3, <1>4, <1>5, Zenon DEF Bal

\* The clock and the deadline move, and what is old stays old.
LEMMA BalLater ==
  ASSUME NEW S, NEW f, NEW m, NEW n, NEW d, NEW n2, NEW d2, Bal(S, f, m, n, d),
         \A a \in S : Old(f[a], n, d) => Old(f[a], n2, d2)
  PROVE  Bal(S, f, m, n2, d2)
BY Zenon DEF Bal

\* The domain of the queue is positive, so the three kinds do not overlap.
TokenShape ==
  /\ \A h \in TxEvents : h \in Nat \ {0} /\ h \in Token /\ TimeOf[h] = queue[h].when
  /\ \A h \in Token : h \in Int /\ (h > 0 => h \in TxEvents) /\ (h <= 0 => h \in {0, -1})
  /\ 0 \in Token <=> th["sched"].pc \in {"tx", "pushTx", "pushDown"}
  /\ -1 \in Token <=> th["admin"].pc = "pushTx"
  /\ 0 \in Token => TimeOf[0] = IF th["sched"].pc = "pushDown" THEN th["sched"].t
                                ELSE th["sched"].at
  /\ -1 \in Token => TimeOf[-1] = th["admin"].at
  /\ \A h \in Token : TimeOf[h] \in Time /\ TimeOf[h] \in Nat /\ TimeOf[h] # NoTime

LEMMA TokenFacts == TypeInv => TokenShape
<1> SUFFICES ASSUME TypeInv PROVE TokenShape
  BY Zenon
<1>1. Len(queue) \in Nat /\ DOMAIN queue = 1 .. Len(queue) /\ \A i \in DOMAIN queue : queue[i] \in Event
  BY TypeFacts
<1>2. /\ \A h \in TxEvents : h \in Nat \ {0} /\ h \in Token
      /\ \A h \in Token : h \in Int /\ (h > 0 => h \in TxEvents) /\ (h <= 0 => h \in {0, -1})
      /\ 0 \in Token <=> th["sched"].pc \in {"tx", "pushTx", "pushDown"}
      /\ -1 \in Token <=> th["admin"].pc = "pushTx"
  BY <1>1 DEF Token, TxEvents
<1>3. /\ \A h \in TxEvents : TimeOf[h] = queue[h].when
      /\ 0 \in Token => TimeOf[0] = IF th["sched"].pc = "pushDown" THEN th["sched"].t
                                    ELSE th["sched"].at
      /\ -1 \in Token => TimeOf[-1] = th["admin"].at
  BY <1>2 DEF TimeOf
<1>4. \A h \in Token : TimeOf[h] \in Time
  <2>1. \A h \in TxEvents : TimeOf[h] \in Time
    BY <1>1, <1>3, Zenon DEF TxEvents, Event
  <2>2. 0 \in Token => TimeOf[0] \in Time
    <3>1. "sched" \in Thread
      BY Zenon DEF Thread
    <3>2. ASSUME NEW pc \in {"tx", "pushTx", "pushDown"}, th["sched"].pc = pc
          PROVE  (IF pc = "pushDown" THEN th["sched"].t ELSE th["sched"].at) \in Time
      BY <3>1, <3>2, AtFacts, TypeFacts, IdleFacts, Zenon DEF At, Timed
    <3>. QED  BY <1>2, <1>3, <3>2, Zenon
  <2>3. -1 \in Token => TimeOf[-1] \in Time
    BY <1>2, <1>3, AtFacts, Zenon DEF At, Timed, Thread
  <2>. QED  BY <1>2, <2>1, <2>2, <2>3
<1>5. Time \subseteq Nat /\ NoTime \notin Time
  BY ClockFacts, Zenon
<1>. QED  BY <1>2, <1>3, <1>4, <1>5, Zenon DEF TokenShape

LEMMA TokenFactsNext == TypeInv' => TokenShape'
BY TokenFacts, PTL

\* Neither thread that handles transmissions takes up or lays down one.
LEMMA KeepTokens ==
  ASSUME TypeInv, queue' = queue,
         \/ th'["sched"] = th["sched"]
         \/ /\ th["sched"].pc \notin {"tx", "pushTx", "pushDown"}
            /\ th'["sched"].pc \notin {"tx", "pushTx", "pushDown"},
         \/ th'["admin"] = th["admin"]
         \/ th["admin"].pc # "pushTx" /\ th'["admin"].pc # "pushTx"
  PROVE  TxEvents' = TxEvents /\ Token' = Token /\ TimeOf' = TimeOf
<1>1. TxEvents' = TxEvents
  BY Zenon DEF TxEvents
<1>2. Token' = Token
  BY <1>1, Zenon DEF Token
<1>3. ASSUME NEW h \in Token
      PROVE  (IF h > 0 THEN queue[h].when
              ELSE IF h = -1 THEN th["admin"].at
              ELSE IF th["sched"].pc = "pushDown" THEN th["sched"].t ELSE th["sched"].at)'
             = (IF h > 0 THEN queue[h].when
                ELSE IF h = -1 THEN th["admin"].at
                ELSE IF th["sched"].pc = "pushDown" THEN th["sched"].t ELSE th["sched"].at)
  <2>1. h \in Int /\ (h > 0 \/ h = 0 \/ h = -1)
    BY TokenFacts DEF TokenShape
  <2>2. CASE h > 0
    BY <2>1, <2>2, Zenon
  <2>3. CASE h = 0
    BY <1>2, <2>3, TokenFacts, Zenon DEF TokenShape
  <2>4. CASE h = -1
    BY <1>2, <2>4, TokenFacts, Zenon DEF TokenShape
  <2>. QED  BY <2>1, <2>2, <2>3, <2>4, Zenon
<1>. QED  BY <1>1, <1>2, <1>3, Zenon DEF TimeOf

\* What is old stays old.
Older == \A w \in Nat : Old(w, now, sess.detectDeadline) => Old(w, now, sess.detectDeadline)'

LEMMA OlderMoves ==
  ASSUME TypeInv, Prompt, NEW t \in Nat, now <= t + Lag, Moves(sess', sess, t), now' = now
  PROVE  Older
<1>1. now \in Nat /\ Lag \in Nat /\ MinDetect \in Nat /\ Lag < MinDetect
  BY TypeFacts, CfgFacts, SchedulerAssumption, Zenon DEF Prompt, MinDetect
<1>. QED  BY <1>1 DEF Older, Old, Moves

LEMMA OlderStill ==
  ASSUME TypeInv, now' = now, sess'.detectDeadline \in {sess.detectDeadline, NoTime}
  PROVE  Older
BY Zenon DEF Older, Old

LEMMA OlderTick ==
  ASSUME TypeInv, now' = now + 1, sess' = sess
  PROVE  Older
<1>1. now \in Nat
  BY TypeFacts, Zenon
<1>. QED  BY <1>1 DEF Older, Old

\* A step that handles no transmission keeps the balance.
LEMMA QuietCount ==
  ASSUME TypeInv, Count, Older, UNCHANGED <<txMark, queue>>,
         \/ th'["sched"] = th["sched"]
         \/ /\ th["sched"].pc \notin {"tx", "pushTx", "pushDown"}
            /\ th'["sched"].pc \notin {"tx", "pushTx", "pushDown", "detect", "expire"},
         \/ th'["admin"] = th["admin"]
         \/ th["admin"].pc # "pushTx" /\ th'["admin"].pc # "pushTx",
         sess.state = AdminDown => sess'.state = AdminDown
  PROVE  Count'
<1>1. TxEvents' = TxEvents /\ Token' = Token /\ TimeOf' = TimeOf
  BY KeepTokens, Zenon
<1>2. \A h \in Token : Old(TimeOf[h], now, sess.detectDeadline)
                        => Old(TimeOf[h], now', sess'.detectDeadline)
  BY TokenFacts, Zenon DEF TokenShape, Older, Old
<1>3. Bal(Token, TimeOf, txMark, now', sess'.detectDeadline)
  BY <1>2, BalLater, Zenon DEF Count
<1>. QED  BY <1>1, <1>3, Zenon DEF Count

\* Every transmission after the step is one of those before, at its time.
Embedded ==
  \E g \in [Token' -> Token] :
    /\ \A a, b \in Token' : g[a] = g[b] => a = b
    /\ \A a \in Token' : TimeOf'[a] = TimeOf[g[a]]

\* A push turns the transmission z of the thread that pushes into a queued one,
\* or adds a detect event.
LEMMA PushEmbeds ==
  ASSUME TypeInv, TypeInv', NEW e \in Event, Push(e), NEW z \in {0, -1},
         e.kind = "tx" => z \in Token /\ TimeOf[z] = e.when /\ z \notin Token',
         \A h \in {0, -1} : h \in Token' => h \in Token /\ TimeOf'[h] = TimeOf[h]
  PROVE  Embedded
<1>1. queue \in Seq(Event) /\ Sorted(queue) /\ scen \in Scenario
  BY TypeFacts, Zenon
<1>2. PICK n \in 0 .. Len(queue) :
        /\ Len(queue') = Len(queue) + 1
        /\ \A i \in 1 .. n : queue'[i] = queue[i]
        /\ queue'[n + 1] = e
        /\ \A i \in n + 2 .. Len(queue) + 1 : queue'[i] = queue[i - 1]
  BY <1>1, PushFacts, Zenon
<1>3. /\ Len(queue) \in Nat /\ DOMAIN queue = 1 .. Len(queue) /\ n \in Nat
      /\ DOMAIN queue' = 1 .. Len(queue) + 1
  BY <1>1, <1>2, PushFacts
<1>4. TokenShape /\ TokenShape'
  BY TokenFacts, TokenFactsNext, Zenon
<1> DEFINE G(h) == IF h <= n THEN h ELSE IF h = n + 1 THEN z ELSE h - 1
           g == [h \in Token' |-> G(h)]
<1>5. ASSUME NEW h \in Token' PROVE h \in Int /\ G(h) \in Token /\ TimeOf'[h] = TimeOf[G(h)]
  <2>0. h \in Int
    BY <1>4, Zenon DEF TokenShape
  <2>1. CASE h <= 0
    <3>1. h \in {0, -1} /\ G(h) = h
      BY <1>3, <1>4, <2>0, <2>1 DEF TokenShape
    <3>. QED  BY <2>0, <3>1, Zenon
  <2>2. CASE h > 0
    <3>1. /\ h \in DOMAIN queue' /\ queue'[h].kind = "tx" /\ TimeOf'[h] = queue'[h].when
      BY <1>4, <2>0, <2>2, Zenon DEF TokenShape, TxEvents
    <3>2. CASE h <= n
      <4>1. G(h) = h /\ h \in DOMAIN queue /\ queue'[h] = queue[h]
        BY <1>2, <1>3, <2>0, <2>2, <3>2
      <4>2. h \in TxEvents
        BY <3>1, <4>1, Zenon DEF TxEvents
      <4>. QED  BY <1>4, <2>0, <3>1, <4>1, <4>2, Zenon DEF TokenShape
    <3>3. CASE h = n + 1
      <4>1. G(h) = z /\ queue'[h] = e
        BY <1>2, <1>3, <3>3
      <4>. QED  BY <2>0, <3>1, <4>1, Zenon
    <3>4. CASE h > n + 1
      <4>1. /\ G(h) = h - 1 /\ h - 1 \in DOMAIN queue /\ queue'[h] = queue[h - 1]
            /\ h - 1 \in Int
        BY <1>2, <1>3, <2>0, <3>1, <3>4
      <4>2. h - 1 \in TxEvents
        BY <3>1, <4>1, Zenon DEF TxEvents
      <4>. QED  BY <1>4, <2>0, <3>1, <4>1, <4>2 DEF TokenShape
    <3>. QED  BY <1>3, <2>0, <3>2, <3>3, <3>4
  <2>. QED  BY <2>0, <2>1, <2>2
<1>6. ASSUME NEW a \in Token', NEW b \in Token', G(a) = G(b) PROVE a = b
  <2>1. ASSUME NEW h \in Token', h = n + 1 PROVE z \notin Token'
    <3>1. h \in DOMAIN queue' /\ queue'[h].kind = "tx"
      BY <1>3, <1>4, <2>1 DEF TokenShape, TxEvents
    <3>. QED  BY <1>2, <2>1, <3>1, Zenon
  <2>2. a \in Int /\ b \in Int
    BY <1>5, Zenon
  <2>3. ASSUME NEW h \in Token', h <= n, NEW k \in Token', k = n + 1, h = z PROVE FALSE
    BY <2>1, <2>3, Zenon
  <2>. QED  BY <1>3, <1>6, <2>2, <2>3
<1> HIDE DEF G
<1>7. g \in [Token' -> Token] /\ \A h \in Token' : g[h] = G(h)
  BY <1>5, Zenon
<1>. QED  BY <1>5, <1>6, <1>7, Zenon DEF Embedded

\* So does a pop, the other way round.
LEMMA PopEmbeds ==
  ASSUME TypeInv, Pop
  PROVE  Embedded
<1>1. /\ TypeInv' /\ th'["admin"] = th["admin"]
      /\ th["sched"] = Idle /\ 1 \in DOMAIN queue
      /\ th'["sched"].pc = queue[1].kind /\ th'["sched"].pc \in {"tx", "detect"}
      /\ th'["sched"].at = queue[1].when
      /\ \A i \in DOMAIN queue' : i + 1 \in DOMAIN queue /\ queue'[i] = queue[i + 1]
  BY PopFacts, Zenon DEF Only, Thread
<1>2. TokenShape /\ TokenShape'
  BY <1>1, TokenFacts, TokenFactsNext, Zenon
<1> DEFINE G(h) == IF h >= 0 THEN h + 1 ELSE h
           g == [h \in Token' |-> G(h)]
<1>3. ASSUME NEW h \in Token' PROVE h \in Int /\ G(h) \in Token /\ TimeOf'[h] = TimeOf[G(h)]
  <2>0. h \in Int /\ (h > 0 \/ h = 0 \/ h = -1)
    BY <1>2 DEF TokenShape
  <2>1. CASE h > 0
    <3>1. /\ h \in DOMAIN queue' /\ queue'[h].kind = "tx" /\ TimeOf'[h] = queue'[h].when
      BY <1>2, <2>0, <2>1, Zenon DEF TokenShape, TxEvents
    <3>2. G(h) = h + 1 /\ h + 1 \in DOMAIN queue /\ queue'[h] = queue[h + 1]
      BY <1>1, <2>0, <2>1, <3>1
    <3>3. h + 1 \in TxEvents
      BY <3>1, <3>2, Zenon DEF TxEvents
    <3>. QED  BY <1>2, <2>0, <3>1, <3>2, <3>3 DEF TokenShape
  <2>2. CASE h = 0
    <3>1. th'["sched"].pc = "tx" /\ TimeOf'[0] = th'["sched"].at
      BY <1>1, <1>2, <2>2, Zenon DEF TokenShape
    <3>2. 1 \in TxEvents /\ G(h) = 1
      <4>1. 1 \in DOMAIN queue /\ queue[1].kind = "tx"
        BY <1>1, <3>1, Zenon
      <4>2. G(h) = 1
        BY <2>2
      <4>. QED  BY <4>1, <4>2, Zenon DEF TxEvents
    <3>. QED  BY <1>1, <1>2, <2>2, <3>1, <3>2, Zenon DEF TokenShape
  <2>3. CASE h = -1
    <3>1. G(h) = -1 /\ -1 \in Token'
      BY <2>3
    <3>. QED  BY <1>1, <1>2, <2>3, <3>1, Zenon DEF TokenShape
  <2>. QED  BY <2>0, <2>1, <2>2, <2>3, Zenon
<1>4. ASSUME NEW a \in Token', NEW b \in Token', G(a) = G(b) PROVE a = b
  <2>1. /\ a \in Int /\ (a > 0 \/ a = 0 \/ a = -1)
        /\ b \in Int /\ (b > 0 \/ b = 0 \/ b = -1)
    BY <1>2 DEF TokenShape
  <2>. QED  BY <1>4, <2>1
<1> HIDE DEF G
<1>5. g \in [Token' -> Token] /\ \A h \in Token' : g[h] = G(h)
  BY <1>3, Zenon
<1>. QED  BY <1>3, <1>4, <1>5, Zenon DEF Embedded

\* Moving transmissions about keeps the balance.
LEMMA EmbeddedBal ==
  ASSUME Count, Embedded, UNCHANGED <<now, sess, txMark>>
  PROVE  /\ Bal(Token, TimeOf, txMark, now, sess.detectDeadline)'
         /\ (\A a, b \in Token : a = b) => (\A a, b \in Token' : a = b)
<1>1. PICK g \in [Token' -> Token] :
        /\ \A a, b \in Token' : g[a] = g[b] => a = b
        /\ \A a \in Token' : TimeOf'[a] = TimeOf[g[a]]
  BY Zenon DEF Embedded
<1>2. Bal(Token', TimeOf', txMark, now, sess.detectDeadline)
  BY <1>1, BalEmbed DEF Count
<1>. QED  BY <1>1, <1>2

LEMMA InitCount == Init => Count
<1> SUFFICES ASSUME Init PROVE Count
  BY Zenon
<1>1. TokenShape /\ th["sched"].pc = "idle" /\ th["admin"].pc = "idle"
  BY InitType, TokenFacts, IdleFacts, Zenon DEF Init, Thread
<1>2. \A i \in TxEvents : i = 1
  BY DEF Init, TxEvents
<1>3. \A h \in Token : h = 1 /\ h \in TxEvents
  BY <1>1, <1>2 DEF TokenShape
<1>4. queue[1].when = txMark
  BY Zenon DEF Init, Ev
<1>5. \A h \in Token : TimeOf[h] = txMark
  BY <1>1, <1>3, <1>4, Zenon DEF TokenShape
<1>. QED  BY <1>1, <1>3, <1>5, Zenon DEF Count, Bal

\* The steps that make, move or finish a transmission.
LEMMA PopCount == ASSUME TypeInv, Count, Pop PROVE Count'
<1>1. Bal(Token, TimeOf, txMark, now, sess.detectDeadline)'
  BY PopEmbeds, EmbeddedBal, PopFacts, Zenon
<1>2. ASSUME NEW i \in TxEvents' PROVE queue'[i].when >= th'["sched"].at
  <2>1. i \in DOMAIN queue' /\ i + 1 \in DOMAIN queue /\ queue'[i] = queue[i + 1]
    BY PopFacts, Zenon DEF TxEvents
  <2>2. i \in Nat /\ i > 0 /\ 1 < i + 1
    <3>1. TypeInv'
      BY PopFacts, Zenon
    <3>2. i \in Nat \ {0}
      BY <3>1, TokenFactsNext, Zenon DEF TokenShape
    <3>. QED  BY <3>2
  <2>3. 1 \in DOMAIN queue /\ queue[1].when <= queue[i + 1].when
    BY <2>1, <2>2, PopFacts, TypeFacts, Zenon DEF Sorted
  <2>4. queue[1].when \in Nat /\ queue[i + 1].when \in Nat
    BY <2>1, <2>3, TypeFacts, EventTimes, Zenon
  <2>. QED  BY <2>1, <2>3, <2>4, PopFacts, Zenon
<1>. QED  BY <1>1, <1>2, PopFacts, Zenon DEF Count

LEMMA UnmarkTxCount == ASSUME TypeInv, Count, UnmarkTx PROVE Count'
<1>1. /\ TypeInv' /\ th'["admin"] = th["admin"] /\ th["sched"].pc = "tx" /\ th'["sched"].pc = "send"
      /\ txMark' = IF txMark = th["sched"].at THEN NoTime ELSE txMark
      /\ UNCHANGED <<now, sess, queue>>
  BY UnmarkTxFacts, Zenon DEF Only, Thread
<1>2. TokenShape /\ TokenShape' /\ TxEvents' = TxEvents
  BY <1>1, TokenFacts, TokenFactsNext, Zenon DEF TxEvents
<1>3. 0 \in Token /\ TimeOf[0] = th["sched"].at /\ 0 \notin Token'
  BY <1>1, <1>2, Zenon DEF TokenShape
<1>4. Token' = Token \ {0}
  <2>1. -1 \in Token <=> -1 \in Token'
    BY <1>1, <1>2, Zenon DEF TokenShape
  <2>. QED  BY <1>2, <1>3, <2>1 DEF TokenShape
<1>5. \A a \in Token' : TimeOf'[a] = TimeOf[a]
  BY <1>1, <1>2, <1>3, <1>4 DEF TokenShape
<1>6. Bal(Token, TimeOf, txMark, now, sess.detectDeadline)
  BY Zenon DEF Count
<1>7. txMark' = IF txMark = TimeOf[0] THEN NoTime ELSE txMark
  BY <1>1, <1>3, Zenon
<1>8. Bal(Token', TimeOf', txMark', now, sess.detectDeadline)
  <2> DEFINE O(h) == Old(h, now, sess.detectDeadline)
  <2>1. \A a, b \in Token' : txMark' = NoTime => a = b
    BY <1>3, <1>4, <1>6, <1>7, Zenon DEF Bal
  <2>2. \A a \in Token' : O(TimeOf'[a]) \/ (TimeOf'[a] = txMark /\ txMark # TimeOf[0])
    <3> SUFFICES ASSUME NEW a \in Token', ~O(TimeOf[a])
                 PROVE  TimeOf[a] = txMark /\ txMark # TimeOf[0]
      BY <1>5, Zenon
    <3>1. TimeOf[a] = txMark /\ O(TimeOf[0])
      BY <1>3, <1>4, <1>6, Zenon DEF Bal
    <3>. QED  BY <3>1, Zenon
  <2>3. \A a, b \in Token' : a = b \/ O(TimeOf'[a]) \/ O(TimeOf'[b])
    BY <1>4, <1>5, <1>6, Zenon DEF Bal
  <2>4. \A a, b, c \in Token' : a = b \/ b = c \/ a = c
    BY <1>4, <1>6 DEF Bal
  <2>5. \A a \in Token' : TimeOf'[a] = txMark' \/ O(TimeOf'[a])
    BY <1>7, <2>2, Zenon
  <2>. QED  BY <2>1, <2>3, <2>4, <2>5, Zenon DEF Bal
<1>. QED  BY <1>1, <1>8, Zenon DEF Count

LEMMA PublishTxCount ==
  ASSUME TypeInv, Chain, Count, NEW x \in Thread, PublishTx(x) PROVE Count'
<1>0. /\ TypeInv' /\ Only(x) /\ x \in {"sched", "admin"} /\ th[x].pc = "publishTx"
      /\ UNCHANGED <<now, sess, queue>>
  BY PublishTxFacts, Zenon
<1>1. CASE th'[x] = Idle /\ txMark' = txMark
  <2>1. Older
    BY <1>0, OlderStill, Zenon
  <2>. QED  BY <1>0, <1>1, <2>1, QuietCount, IdleFacts, Zenon DEF Only, Thread
<1>2. CASE /\ txMark = NoTime /\ th'[x].pc = "pushTx" /\ th'[x].at = th[x].at
           /\ th[x].at \in Time /\ txMark' = th[x].at
  <2> DEFINE z == IF x = "sched" THEN 0 ELSE -1
  <2>1. TokenShape /\ TokenShape' /\ TxEvents' = TxEvents
    BY <1>0, TokenFacts, TokenFactsNext, Zenon DEF TxEvents
  <2>2. z \in {0, -1} /\ z \in Token' /\ TimeOf'[z] = txMark'
    BY <1>0, <1>2, <2>1 DEF TokenShape
  <2>3. /\ \A h \in {0, -1} \ {z} : h \in Token' <=> h \in Token
        /\ z \notin Token
    BY <1>0, <2>1 DEF TokenShape, Only, Thread
  <2>4. \A h \in {0, -1} \ {z} : h \in Token => TimeOf'[h] = TimeOf[h]
    BY <1>0, <2>1, <2>3 DEF TokenShape, Only, Thread
  <2>5. \A h \in TxEvents : TimeOf'[h] = TimeOf[h]
    BY <1>0, <2>1, Zenon DEF TokenShape
  <2> HIDE DEF z
  <2>6. \A h \in Token : h \in TxEvents \/ h \in {0, -1} \ {z}
    BY <2>1, <2>3 DEF TokenShape
  <2>7. \A h \in Token' : h = z \/ h \in TxEvents \/ h \in {0, -1} \ {z}
    BY <2>1 DEF TokenShape
  <2>8. Token' = Token \cup {z}
    BY <2>1, <2>2, <2>3, <2>6, <2>7, Zenon DEF TokenShape
  <2>9. \A a \in Token : TimeOf'[a] = TimeOf[a] /\ TimeOf[a] # NoTime
    BY <2>1, <2>4, <2>5, <2>6, Zenon DEF TokenShape
  <2>10. txMark' # NoTime
    BY <2>1, <2>2, Zenon DEF TokenShape
  <2>11. Bal(Token, TimeOf, txMark, now, sess.detectDeadline)
    BY Zenon DEF Count
  <2>12. Bal(Token', TimeOf', txMark', now, sess.detectDeadline)
    <3> DEFINE O(h) == Old(h, now, sess.detectDeadline)
    <3>1. \A a, b \in Token : a = b
      BY <1>2, <2>11, Zenon DEF Bal
    <3>2. \A a \in Token : O(TimeOf'[a])
      BY <1>2, <2>9, <2>11, Zenon DEF Bal
    <3> HIDE DEF O
    <3>3. \A a \in Token' : a = z \/ (a \in Token /\ O(TimeOf'[a]))
      BY <2>8, <3>2, Zenon
    <3>4. /\ \A a, b, c \in Token' : a = b \/ b = c \/ a = c
          /\ \A a, b \in Token' : a = b \/ O(TimeOf'[a]) \/ O(TimeOf'[b])
          /\ \A a \in Token' : TimeOf'[a] = txMark' \/ O(TimeOf'[a])
      BY <2>2, <3>1, <3>3, Zenon
    <3>. QED  BY <2>10, <3>4, Zenon DEF Bal, O
  <2>13. x = "admin" => sess'.state = AdminDown
    BY <1>0, IdleFacts, Zenon DEF Chain
  <2>. QED  BY <1>0, <1>2, <2>12, <2>13, Zenon DEF Count
<1>. QED  BY <1>1, <1>2, PublishTxFacts, Zenon

LEMMA PushTxCount ==
  ASSUME TypeInv, Chain, Count, NEW x \in Thread, PushTx(x) PROVE Count'
<1> DEFINE z == IF x = "sched" THEN 0 ELSE -1
           e == Ev("tx", th[x].at)
<1>1. /\ TypeInv' /\ Only(x) /\ x \in {"sched", "admin"} /\ th[x].pc = "pushTx"
      /\ th'[x].pc = "idle" /\ e \in Event /\ Push(e)
      /\ UNCHANGED <<now, sess, txMark>>
  BY PushTxFacts, IdleFacts, Zenon
<1>2. TokenShape /\ TokenShape'
  BY <1>1, TokenFacts, TokenFactsNext, Zenon
<1>3. z \in {0, -1} /\ z \in Token /\ TimeOf[z] = e.when /\ z \notin Token'
  BY <1>1, <1>2, Zenon DEF TokenShape, Ev
<1>4. \A h \in {0, -1} : h \in Token' => h \in Token /\ TimeOf'[h] = TimeOf[h]
  BY <1>1, <1>2 DEF TokenShape, Only, Thread
<1> HIDE DEF z, e
<1>5. Embedded
  BY <1>1, <1>3, <1>4, PushEmbeds, Zenon
<1>6. x = "admin" => sess'.state = AdminDown
  BY <1>1, IdleFacts, Zenon DEF Chain
<1>. QED  BY <1>1, <1>5, <1>6, EmbeddedBal, Zenon DEF Count

LEMMA PushDownCount == ASSUME TypeInv, Count, PushDown PROVE Count'
<1> DEFINE e == Ev("tx", th["sched"].t)
<1>1. /\ TypeInv' /\ th'["admin"] = th["admin"] /\ th["sched"].pc = "pushDown"
      /\ th'["sched"].pc = "idle" /\ e \in Event /\ Push(e)
      /\ UNCHANGED <<now, sess, txMark>>
  BY PushDownFacts, IdleFacts, Zenon DEF Only, Thread
<1>2. TokenShape /\ TokenShape'
  BY <1>1, TokenFacts, TokenFactsNext, Zenon
<1>3. 0 \in Token /\ TimeOf[0] = e.when /\ 0 \notin Token'
  BY <1>1, <1>2, Zenon DEF TokenShape, Ev
<1>4. \A h \in {0, -1} : h \in Token' => h \in Token /\ TimeOf'[h] = TimeOf[h]
  BY <1>1, <1>2, Zenon DEF TokenShape
<1> HIDE DEF e
<1>5. Embedded
  BY <1>1, <1>3, <1>4, PushEmbeds, Zenon
<1>. QED  BY <1>1, <1>5, EmbeddedBal, Zenon DEF Count

\* While the scheduler handles a detect event of a session that is not
\* AdminDown, every transmission there is is queued.
LEMMA AllQueued ==
  ASSUME TypeInv, Chain, th["sched"].pc \in {"detect", "expire"}, sess.state # AdminDown
  PROVE  \A h \in Token : h \in TxEvents /\ TimeOf[h] = queue[h].when
<1>1. th["admin"].pc = "idle"
  BY IdleFacts, Zenon DEF Chain
<1>. QED  BY <1>1, TokenFacts DEF TokenShape

LEMMA PushDetectCount ==
  ASSUME TypeInv, Chain, Count, NEW x \in Thread, PushDetect(x) PROVE Count'
<1> DEFINE e == Ev("detect", th[x].at)
<1>1. /\ TypeInv' /\ Only(x) /\ x \in {"sched", "recv"} /\ th[x].pc = "pushDetect"
      /\ th'[x].pc = "idle" /\ e \in Event /\ Push(e)
      /\ UNCHANGED <<now, sess, txMark>>
  BY PushDetectFacts, IdleFacts, Zenon
<1>2. TokenShape /\ TokenShape'
  BY <1>1, TokenFacts, TokenFactsNext, Zenon
<1>3. \A h \in {0, -1} : h \in Token' => h \in Token /\ TimeOf'[h] = TimeOf[h]
  BY <1>1, <1>2, Zenon DEF TokenShape, Only, Thread
<1>4. e.kind # "tx" /\ 0 \in {0, -1}
  BY Zenon DEF Ev
<1> HIDE DEF e
<1>5. Embedded
  BY <1>1, <1>3, <1>4, PushEmbeds, Zenon
<1>6. ASSUME th'["sched"].pc = "detect", sess'.state # AdminDown, NEW i \in TxEvents'
      PROVE  queue'[i].when >= th'["sched"].at
  <2>1. th'["sched"] = th["sched"] /\ sess.state # AdminDown
    BY <1>1, <1>6, Zenon DEF Only, Thread
  <2>2. PICK g \in [Token' -> Token] : \A a \in Token' : TimeOf'[a] = TimeOf[g[a]]
    BY <1>5, Zenon DEF Embedded
  <2>3. i \in Token' /\ TimeOf'[i] = queue'[i].when
    BY <1>2, Zenon DEF TokenShape
  <2>4. g[i] \in TxEvents /\ TimeOf[g[i]] = queue[g[i]].when
    BY <1>6, <2>1, <2>2, <2>3, AllQueued, Zenon
  <2>5. queue[g[i]].when >= th["sched"].at
    BY <1>6, <2>1, <2>4, Zenon DEF Count
  <2>. QED  BY <2>1, <2>2, <2>3, <2>4, <2>5, Zenon
<1>7. (th["sched"].pc = "expire" /\ sess.state # AdminDown)' => th["sched"].pc = "expire" /\ sess.state # AdminDown
  BY <1>1, Zenon DEF Only, Thread
<1>. QED  BY <1>1, <1>5, <1>6, <1>7, EmbeddedBal, Zenon DEF Count

\* A detect event whose deadline still stands finds one transmission at most,
\* for those that are due before the deadline have been popped before it.
LEMMA CheckDetectCount == ASSUME TypeInv, Chain, Count, CheckDetect PROVE Count'
<1>1. /\ th'["admin"] = th["admin"] /\ th["sched"].pc = "detect" /\ th["sched"].at \in Time
      /\ \/ th'["sched"].pc = "idle"
         \/ th'["sched"].pc = "expire" /\ th["sched"].at = sess.detectDeadline
      /\ UNCHANGED <<now, sess, txMark, queue>>
  BY CheckDetectFacts, Zenon DEF Only, Thread
<1>2. Token' = Token /\ TimeOf' = TimeOf
  BY <1>1, KeepTokens, Zenon
<1>3. ASSUME th'["sched"].pc = "expire", sess.state # AdminDown, NEW a \in Token, NEW b \in Token
      PROVE  a = b
  <2>1. \A h \in Token : h \in TxEvents /\ TimeOf[h] = queue[h].when /\ TimeOf[h] \in Nat
    BY <1>1, <1>3, AllQueued, TokenFacts, Zenon DEF TokenShape
  <2>2. \A h \in Token : TimeOf[h] >= sess.detectDeadline
    BY <1>1, <1>3, <2>1, Zenon DEF Count
  <2>3. sess.detectDeadline \in Nat /\ sess.detectDeadline # NoTime
    BY <1>1, <1>3, ClockFacts, Zenon
  <2>4. \A h \in Token : ~Old(TimeOf[h], now, sess.detectDeadline)
    BY <2>1, <2>2, <2>3 DEF Old
  <2>. QED  BY <2>4, Zenon DEF Count, Bal
<1>. QED  BY <1>1, <1>2, <1>3, Zenon DEF Count

\* A timeout adds a transmission to the one the marker stands for.
LEMMA ExpireCount == ASSUME TypeInv, Chain, Count, Prompt, Expire PROVE Count'
<1>1. /\ TypeInv' /\ th'["admin"] = th["admin"] /\ th["sched"].pc = "expire" /\ th'["sched"].t = now
      /\ th'["sched"].pc = IF DetectDue(sess, now) THEN "pushDown" ELSE "active"
      /\ Moves(sess', sess, now)
      /\ DetectDue(sess, now) =>
           sess'.detectDeadline = NoTime /\ sess.alive /\ sess.state # AdminDown
      /\ UNCHANGED <<now, txMark, queue>>
  BY ExpireFacts, Zenon DEF Only, Thread
<1>2. now \in Nat /\ now <= now + Lag
  BY ClockFacts, Zenon
<1>3. Older
  BY <1>1, <1>2, OlderMoves, Zenon
<1>4. CASE ~DetectDue(sess, now)
  BY <1>1, <1>3, <1>4, QuietCount, Zenon DEF Moves
<1>5. CASE DetectDue(sess, now)
  <2> DEFINE O(h) == Old(h, now, NoTime)
  <2>1. TokenShape /\ TokenShape' /\ TxEvents' = TxEvents
    BY <1>1, TokenFacts, TokenFactsNext, Zenon DEF TxEvents
  <2>2. txMark # NoTime
    BY <1>1, <1>5, Zenon DEF Chain, Resending
  <2>3. /\ \A a, b \in Token : a = b
        /\ \A a \in Token : a \in TxEvents /\ TimeOf[a] = queue[a].when
    BY <1>1, <1>5, AllQueued, Zenon DEF Count
  <2>4. 0 \in Token' /\ TimeOf'[0] = now
    BY <1>1, <1>5, <2>1, Zenon DEF TokenShape
  <2>5. \A a \in Token' : a = 0 \/ (a \in Token /\ TimeOf'[a] = TimeOf[a])
    <3>1. -1 \notin Token'
      <4>1. -1 \notin Token
        BY <2>1, <2>3 DEF TokenShape
      <4>. QED  BY <1>1, <2>1, <4>1, Zenon DEF TokenShape
    <3>. QED  BY <1>1, <2>1, <3>1 DEF TokenShape
  <2>6. O(now)
    BY <1>2 DEF Old
  <2>7. \A a \in Token : TimeOf[a] = txMark \/ O(TimeOf[a])
    <3>1. \A a \in Token : TimeOf[a] \in Nat
      BY <2>1, Zenon DEF TokenShape
    <3>. QED  BY <1>1, <1>3, <1>5, <3>1, Zenon DEF Count, Bal, Older, Old
  <2> HIDE DEF O
  <2>8. /\ \A a, b, c \in Token' : a = b \/ b = c \/ a = c
        /\ \A a, b \in Token' : a = b \/ O(TimeOf'[a]) \/ O(TimeOf'[b])
        /\ \A a \in Token' : TimeOf'[a] = txMark' \/ O(TimeOf'[a])
    <3>1. \A a, b, c \in Token' : a = b \/ b = c \/ a = c
      BY <2>3, <2>5, Zenon
    <3>2. \A a \in Token' : a = 0 => O(TimeOf'[a])
      BY <2>4, <2>6, Zenon
    <3>3. \A a, b \in Token' : a = b \/ a = 0 \/ b = 0
      BY <2>3, <2>5, Zenon
    <3>4. \A a \in Token' : TimeOf'[a] = txMark \/ O(TimeOf'[a])
      BY <2>5, <2>7, <3>2, Zenon
    <3>5. txMark' = txMark
      BY <1>1, Zenon
    <3>. QED  BY <3>1, <3>2, <3>3, <3>4, <3>5, Zenon
  <2>9. Bal(Token', TimeOf', txMark', now', sess'.detectDeadline)
    <3>1. now' = now /\ txMark' = txMark /\ sess'.detectDeadline = NoTime
      BY <1>1, <1>5, Zenon
    <3>. QED  BY <2>2, <2>8, <3>1, Zenon DEF Bal, O
  <2>. QED  BY <1>1, <1>5, <2>9, Zenon DEF Count
<1>. QED  BY <1>4, <1>5, Zenon

\* Every step keeps the balance.
LEMMA CountStep ==
  ASSUME Prompt PROVE TypeInv /\ Chain /\ Count /\ [Next]_vars => Count'
<1> SUFFICES ASSUME TypeInv, Chain, Count, [Next]_vars PROVE Count'
  BY Zenon
<1> USE DEF Thread, Only
<1>0. \A x \in Thread : th[x] # Idle => th[x].t \in Nat /\ now <= th[x].t + Lag
  BY TypeFacts, Zenon
<1>1. CASE Pop
  BY <1>1, PopCount, Zenon
<1>2. CASE UnmarkTx
  BY <1>2, UnmarkTxCount, Zenon
<1>3. CASE Send
  BY <1>3, SendFacts, OlderStill, QuietCount, Zenon
<1>4. CASE AfterSend
  BY <1>4, AfterSendFacts, OlderStill, QuietCount, Zenon
<1>5. CASE CheckDetect
  BY <1>5, CheckDetectCount, Zenon
<1>6. CASE Expire
  BY <1>6, ExpireCount, Zenon
<1>7. CASE PushDown
  BY <1>7, PushDownCount, Zenon
<1>8. CASE StillActive
  BY <1>8, StillActiveFacts, OlderStill, QuietCount, Zenon
<1>9. CASE Receive
  BY <1>9, ReceiveFacts, OlderStill, QuietCount, Zenon
<1>10. ASSUME NEW pkt \in scen.packets, Handle(pkt) PROVE Count'
  <2>1. Older
    BY <1>0, <1>10, HandleFacts, OlderMoves, Zenon
  <2>. QED  BY <1>10, <2>1, HandleFacts, QuietCount, Zenon DEF Moves
<1>11. CASE AdminDownRoute
  <2>1. Older
    BY <1>11, AdminDownRouteFacts, OlderStill, Zenon
  <2>. QED  BY <1>11, <2>1, AdminDownRouteFacts, QuietCount, IdleFacts, Zenon
<1>12. CASE Withdraw
  BY <1>12, WithdrawFacts, OlderStill, QuietCount, Zenon
<1>13. CASE Tick
  BY <1>13, TickFacts, OlderTick, QuietCount, Zenon
<1>14. ASSUME NEW x \in Thread, CheckTx(x) PROVE Count'
  BY <1>14, CheckTxFacts, OlderStill, QuietCount, Zenon
<1>15. ASSUME NEW x \in Thread, ComputeTx(x) PROVE Count'
  <2>1. now \in Nat /\ now <= now + Lag
    BY ClockFacts, Zenon
  <2>2. Older
    BY <1>15, <2>1, ComputeTxFacts, OlderMoves, Zenon
  <2>. QED  BY <1>15, <2>2, ComputeTxFacts, QuietCount, Zenon DEF Moves
<1>16. ASSUME NEW x \in Thread, PublishTx(x) PROVE Count'
  BY <1>16, PublishTxCount, Zenon
<1>17. ASSUME NEW x \in Thread, PushTx(x) PROVE Count'
  BY <1>17, PushTxCount, Zenon
<1>18. ASSUME NEW x \in Thread, Arm(x) PROVE Count'
  <2>1. Older
    BY <1>0, <1>18, ArmFacts, OlderMoves, IdleFacts, Zenon
  <2>. QED  BY <1>18, <2>1, ArmFacts, QuietCount, Zenon DEF Moves
<1>19. ASSUME NEW x \in Thread, MarkDetect(x) \/ Overflow(x) \/ UndoMark(x) PROVE Count'
  BY <1>19, MarkingFacts, OlderStill, QuietCount, Zenon
<1>20. ASSUME NEW x \in Thread, PushDetect(x) PROVE Count'
  BY <1>20, PushDetectCount, Zenon
<1>21. CASE UNCHANGED vars
  BY <1>21, OlderStill, QuietCount, Zenon DEF vars
<1>. QED  BY <1>1, <1>2, <1>3, <1>4, <1>5, <1>6, <1>7, <1>8, <1>9, <1>10, <1>11, <1>12,
             <1>13, <1>14, <1>15, <1>16, <1>17, <1>18, <1>19, <1>20, <1>21, Zenon DEF Next

\* As long as no goroutine and no due event waits for as long as the shortest
\* detect time, the transmission chain of a session neither breaks nor
\* multiplies (scheduler.go:230-266, 291-316), for every configuration,
\* every choice of packets and callers and every bound on the queue.
THEOREM SchedulerTxChain ==
  ASSUME Prompt PROVE Spec => []TxChain
<1> DEFINE IInv == TypeInv /\ Chain /\ Count
<1>1. Init => IInv
  BY InitType, InitChain, InitCount, Zenon
<1>2. IInv /\ [Next]_vars => IInv'
  BY ChainStep, CountStep, Zenon
<1>3. IInv => TxChain
  <2> SUFFICES ASSUME TypeInv, Chain, Count PROVE TxChain
    BY Zenon
  <2>1. TypeOK
    BY Zenon DEF TypeInv
  <2>2. (/\ sess.alive /\ sess.state # AdminDown /\ th["sched"] = Idle /\ th["admin"] = Idle)
        => TxEvents # {}
    BY IdleFacts, Zenon DEF Chain, MarkedTx, Resending, TxEvents
  <2>3. \A a, b, c \in TxEvents : a = b \/ b = c \/ a = c
    BY TokenFacts DEF TokenShape, Count, Bal
  <2>. QED  BY <2>1, <2>2, <2>3, Zenon DEF TxChain
<1>. QED  BY <1>1, <1>2, <1>3, PTL DEF Spec
=============================================================================
