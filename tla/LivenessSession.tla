--------------------------- MODULE LivenessSession ---------------------------
(***************************************************************************)
(* The per-peer route-liveness session of doublezerod (a BFD-like state    *)
(* machine), as operators on session records.  The operators are total     *)
(* functions of a configuration cfg, a session s, the clock now and the    *)
(* packet; LivenessEndpoint, LivenessPair and LivenessScheduler turn them  *)
(* into actions.                                                           *)
(*                                                                         *)
(* Times are integers on the clock of the host.  NoTime is Go's zero       *)
(* time.Time.  Left out: the fields that only feed metrics and status      *)
(* output (downSince, lastUpdated, convUpStart, convDownStart and the      *)
(* client version).                                                        *)
(***************************************************************************)
EXTENDS Integers

CONSTANT NoTime     \* the zero time.Time: "not set"

ASSUME NoTimeAssumption == NoTime \notin Int

\* packet.go: AdminDown < Down < Init < Up.
AdminDown == 0
Down == 1
Init_ == 2
Up == 3
State == AdminDown .. Up

Active(s) == s.state \in {Init_, Up}

DownReason == {"none", "timeout", "remote_admin", "local_admin", "remote_down"}
PeerMode == {"unknown", "active", "passive"}

\* The configured intervals of one manager, as far as a session copies them.
SessionConfig ==
  [detectMult : Nat, txMin : Nat, rxMin : Nat,
   minTxFloor : Nat, maxTxCeil : Nat, backoffMax : Nat]

\* What ManagerConfig.Validate enforces, defaults filled in.
ValidConfig(cfg) ==
  /\ cfg \in SessionConfig
  /\ cfg.detectMult > 0 /\ cfg.txMin > 0 /\ cfg.rxMin > 0
  /\ cfg.minTxFloor > 0
  /\ cfg.maxTxCeil >= cfg.minTxFloor
  /\ cfg.backoffMax >= cfg.minTxFloor

\* The fields of a control packet that HandleRx looks at.
PacketType(Discr, Interval) ==
  [state : State, localDiscr : Discr, peerDiscr : Discr \cup {0},
   txMin : Interval, rxMin : Interval, passive : BOOLEAN]

SessionType(Discr, Interval, Time) ==
  [alive : BOOLEAN, state : State,
   localDiscr : Discr, peerDiscr : Discr \cup {0},
   peerTxMin : Interval, peerRxMin : Interval,
   peerMode : PeerMode, downReason : DownReason,
   upSince : Time \cup {NoTime}, detectDeadline : Time \cup {NoTime},
   lastRx : Time \cup {NoTime}, backoffFactor : Nat]

\* A fresh session, as RegisterRoute makes it.
NewSession(discr) ==
  [alive |-> TRUE, state |-> Down,
   localDiscr |-> discr, peerDiscr |-> 0,
   peerTxMin |-> 0, peerRxMin |-> 0,
   peerMode |-> "unknown", downReason |-> "none",
   upSince |-> NoTime, detectDeadline |-> NoTime,
   lastRx |-> NoTime, backoffFactor |-> 1]

-----------------------------------------------------------------------------
(* Intervals *)

Larger(a, b) == IF a > b THEN a ELSE b
Smaller(a, b) == IF a < b THEN a ELSE b

\* The floor is applied before the ceiling, as in txInterval and rxInterval.
Bounded(cfg, iv) == Smaller(Larger(iv, cfg.minTxFloor), cfg.maxTxCeil)

\* The clamp HandleRx applies to what the peer advertises: there the ceiling
\* is tested only when the floor was not, and only when it is set.
ClampPeer(cfg, iv) ==
  IF iv < cfg.minTxFloor THEN cfg.minTxFloor
  ELSE IF cfg.maxTxCeil > 0 THEN Smaller(iv, cfg.maxTxCeil) ELSE iv

TxInterval(cfg, s) == Bounded(cfg, Larger(cfg.txMin, s.peerRxMin))
RxInterval(cfg, s) == Bounded(cfg, Larger(cfg.rxMin, s.peerTxMin))
DetectTime(cfg, s) == cfg.detectMult * RxInterval(cfg, s)

\* The transmit interval with the backoff a session in Down applies.
EffectiveTx(cfg, s) ==
  LET base == TxInterval(cfg, s)
      eff  == base * Larger(s.backoffFactor, 1)
  IN  IF s.state # Down THEN base
      ELSE IF cfg.backoffMax > 0 THEN Smaller(eff, cfg.backoffMax) ELSE eff

\* The moments ComputeNextTx may pick: a tenth of jitter on either side.
NextTxTimes(cfg, s, now) ==
  LET eff == EffectiveTx(cfg, s)
      j   == eff \div 10
  IN  {now + eff + d : d \in -j .. j}

\* What ComputeNextTx does to the session: the factor doubles while Down,
\* until the cap is reached, and is reset in every other state.
AfterComputeNextTx(cfg, s) ==
  IF s.state # Down THEN [s EXCEPT !.backoffFactor = 1]
  ELSE IF cfg.backoffMax = 0 \/ EffectiveTx(cfg, s) < cfg.backoffMax
       THEN [s EXCEPT !.backoffFactor = 2 * Larger(s.backoffFactor, 1)]
       ELSE [s EXCEPT !.backoffFactor = Larger(s.backoffFactor, 1)]

-----------------------------------------------------------------------------
(* Detection *)

CanArm(s) == s.alive /\ s.detectDeadline # NoTime

\* ArmDetect: a deadline that has passed is pushed out by one detect time.
ArmDetect(cfg, s, now) ==
  IF CanArm(s) /\ s.detectDeadline <= now
  THEN [s EXCEPT !.detectDeadline = now + DetectTime(cfg, s)]
  ELSE s

\* Variants: a deadline reached exactly is not due; an Up session never is.
DetectDueStrict(s, now) ==
  s.alive /\ Active(s) /\ s.detectDeadline # NoTime /\ s.detectDeadline < now
DetectDueInitOnly(s, now) ==
  s.alive /\ s.state = Init_ /\ s.detectDeadline # NoTime /\ s.detectDeadline <= now

DetectDue(s, now) ==
  /\ s.alive
  /\ Active(s)
  /\ s.detectDeadline # NoTime
  /\ s.detectDeadline <= now

\* What every way into Down does to a session.
GoDown(s, reason) ==
  [s EXCEPT !.state = Down, !.downReason = reason, !.upSince = NoTime,
            !.detectDeadline = NoTime, !.backoffFactor = 1]

ExpireIfDue(s, now) == IF DetectDue(s, now) THEN GoDown(s, "timeout") ELSE s

\* AdminDownRoute, the part done under the session's lock.
GoAdminDown(s) ==
  IF s.state = AdminDown THEN s
  ELSE [s EXCEPT !.state = AdminDown, !.downReason = "local_admin",
                 !.upSince = NoTime, !.detectDeadline = NoTime]

-----------------------------------------------------------------------------
(* Receiving a control packet: Session.HandleRx *)

\* Dropped before anything is learned from the packet.
Rejects(s, pkt) ==
  \/ s.state = AdminDown
  \/ pkt.peerDiscr # 0 /\ pkt.peerDiscr # s.localDiscr

\* Variant: the comparison is the wrong way round.
StaleDownSwapped(cfg, s, now) ==
  s.state = Up /\ s.upSince # NoTime /\ now - s.upSince >= DetectTime(cfg, s)

\* The peer says Down, but this side came Up less than a detect time ago.
StaleDown(cfg, s, now) ==
  /\ s.state = Up
  /\ s.upSince # NoTime
  /\ DetectTime(cfg, s) > 0
  /\ now - s.upSince < DetectTime(cfg, s)

\* Variants: only Init is accepted; the sender's state is not looked at.
EchoesInitOnly(s, pkt) == pkt.peerDiscr = s.localDiscr /\ pkt.state = Init_
EchoesAnyState(s, pkt) == pkt.peerDiscr = s.localDiscr

\* The packet proves that the peer has heard this incarnation of the session.
Echoes(s, pkt) == pkt.peerDiscr = s.localDiscr /\ pkt.state >= Init_

LearnMode(s, pkt) ==
  [s EXCEPT !.peerMode = IF pkt.passive THEN "passive" ELSE "active"]

\* Variant: the deadline is computed before the peer's intervals are learned.
RefreshOldIntervals(cfg, s, now, pkt) ==
  [s EXCEPT !.peerDiscr = IF @ = 0 THEN pkt.localDiscr ELSE @,
            !.peerTxMin = ClampPeer(cfg, pkt.txMin),
            !.peerRxMin = ClampPeer(cfg, pkt.rxMin),
            !.lastRx = now,
            !.detectDeadline = now + DetectTime(cfg, s)]

\* Learn the discriminator and the timers, and restart detection.
Refresh(cfg, s, now, pkt) ==
  LET t == [s EXCEPT
              !.peerDiscr = IF @ = 0 THEN pkt.localDiscr ELSE @,
              !.peerTxMin = ClampPeer(cfg, pkt.txMin),
              !.peerRxMin = ClampPeer(cfg, pkt.rxMin),
              !.lastRx = now]
  IN  [t EXCEPT !.detectDeadline = now + DetectTime(cfg, t)]

GoUp(s, now) ==
  [s EXCEPT !.state = Up, !.upSince = now, !.downReason = "none",
            !.backoffFactor = 1]

GoInit(s) ==
  [s EXCEPT !.state = Init_, !.downReason = "none", !.backoffFactor = 1]

\* Variant: any packet brings a session that is Down to Up.
AdvanceSkipInit(s, now, pkt) ==
  IF s.state \in {Down, Init_} THEN GoUp(s, now) ELSE s

\* The handshake step, on a session that Refresh has updated.
Advance(s, now, pkt) ==
  CASE s.state = Down /\ s.peerDiscr # 0 ->
         IF Echoes(s, pkt) THEN GoUp(s, now) ELSE GoInit(s)
    [] s.state = Init_ /\ s.peerDiscr # 0 /\ Echoes(s, pkt) -> GoUp(s, now)
    [] s.state = Up /\ pkt.localDiscr # 0 ->
         [s EXCEPT !.peerDiscr = pkt.localDiscr]
    [] OTHER -> s

HandleRx(cfg, s, now, pkt) ==
  IF Rejects(s, pkt) THEN s
  ELSE LET t == LearnMode(s, pkt) IN
       IF pkt.state = AdminDown THEN GoDown(t, "remote_admin")
       ELSE IF pkt.state = Down /\ Active(t)
            THEN IF StaleDown(cfg, t, now) THEN t ELSE GoDown(t, "remote_down")
            ELSE Advance(Refresh(cfg, t, now, pkt), now, pkt)

\* doTX: what a session advertises.
ControlPacket(cfg, s, passiveMode) ==
  [state |-> s.state, localDiscr |-> s.localDiscr, peerDiscr |-> s.peerDiscr,
   txMin |-> cfg.txMin, rxMin |-> cfg.rxMin, passive |-> passiveMode]
=============================================================================
