---------------------------- MODULE DaemonProofs ----------------------------
(***************************************************************************)
(* Proofs about two parts of the client daemon.                            *)
(*                                                                         *)
(* LivenessEndpoint, for every configuration that ManagerConfig.Validate   *)
(* accepts, every set of discriminators and every set of intervals the     *)
(* peer may advertise.                                                     *)
(*                                                                         *)
(* BgpServer, for any prefixes and any bounds on calls and sessions: the   *)
(* status shown once all events are consumed is that of the peer.          *)
(***************************************************************************)
EXTENDS LivenessEndpoint, BgpServer, TLAPS

Sess == SessionType(Discr, Interval, Int)

\* The invariant of one session at time t, as a predicate of the record.
Good(s, t) ==
  /\ s \in Sess
  /\ s.detectDeadline # NoTime <=> Active(s)
  /\ s.state = Up =>
       /\ s.upSince \in Int
       /\ s.upSince <= t
       /\ s.detectDeadline >= s.upSince + DetectTime(Cfg, s)
  /\ Active(s) => s.peerDiscr # 0

IInv == now \in 0 .. MaxTime /\ Good(sess, now)

-----------------------------------------------------------------------------
(* Intervals *)

\* The detect time of a session is a positive number of time units: the
\* multiplier and the floor are positive (manager.go Validate).
LEMMA DetectTimePositive ==
  ASSUME NEW s, s.peerTxMin \in Nat
  PROVE  DetectTime(Cfg, s) \in Nat /\ DetectTime(Cfg, s) > 0
<1>1. RxInterval(Cfg, s) \in Nat /\ RxInterval(Cfg, s) > 0
  BY EndpointAssumption
  DEF ValidConfig, SessionConfig, RxInterval, Bounded, Larger, Smaller
<1>2. Cfg.detectMult \in Nat /\ Cfg.detectMult > 0
  BY EndpointAssumption DEF ValidConfig, SessionConfig
<1>3. \A a, b \in Nat : a > 0 /\ b > 0 => a * b \in Nat /\ a * b > 0
  OBVIOUS
<1>. QED BY <1>1, <1>2, <1>3 DEF DetectTime

\* What the peer advertises is clamped between floor and ceiling.
LEMMA ClampPeerType ==
  ASSUME NEW iv \in Nat
  PROVE  ClampPeer(Cfg, iv) \in Interval
BY EndpointAssumption DEF ValidConfig, SessionConfig, ClampPeer, Smaller, Interval

\* Intervals are numbers, and zero, the value before the first packet, is one.
LEMMA IntervalType == Interval \subseteq Nat /\ 0 \in Interval
BY EndpointAssumption DEF ValidConfig, SessionConfig, Interval

-----------------------------------------------------------------------------
(* Each way of changing a session preserves Good *)

USE DEF State, AdminDown, Down, Init_, Up

\* A session as RegisterRoute makes it satisfies the invariant.
LEMMA NewSessionGood ==
  ASSUME NEW d \in Discr, NEW t \in Int
  PROVE  Good(NewSession(d), t)
BY IntervalType, NoTimeAssumption, EndpointAssumption
DEF NewSession, Good, Sess, SessionType, PeerMode, DownReason, Active

\* Assigning a value of the right kind to a field keeps a record a session.
LEMMA FieldTypes ==
  ASSUME NEW s \in Sess
  PROVE  /\ \A v \in State : [s EXCEPT !.state = v] \in Sess
         /\ \A v \in DownReason : [s EXCEPT !.downReason = v] \in Sess
         /\ \A v \in PeerMode : [s EXCEPT !.peerMode = v] \in Sess
         /\ \A v \in Int \cup {NoTime} : [s EXCEPT !.upSince = v] \in Sess
         /\ \A v \in Int \cup {NoTime} : [s EXCEPT !.detectDeadline = v] \in Sess
         /\ \A v \in Int \cup {NoTime} : [s EXCEPT !.lastRx = v] \in Sess
         /\ \A v \in Discr \cup {0} : [s EXCEPT !.peerDiscr = v] \in Sess
         /\ \A v \in Interval : [s EXCEPT !.peerTxMin = v] \in Sess
         /\ \A v \in Interval : [s EXCEPT !.peerRxMin = v] \in Sess
         /\ \A v \in Nat : [s EXCEPT !.backoffFactor = v] \in Sess
         /\ \A v \in BOOLEAN : [s EXCEPT !.alive = v] \in Sess
BY DEF Sess, SessionType

\* Falling to Down (onRx, onDetect) disarms the deadline and is good.
LEMMA GoDownGood ==
  ASSUME NEW s \in Sess, NEW t \in Int, Good(s, t), NEW r \in DownReason
  PROVE  Good(GoDown(s, r), t)
<1>1. GoDown(s, r) \in Sess
  <2>1. Down \in State /\ 1 \in Nat
    OBVIOUS
  <2>. QED BY FieldTypes, <2>1, Zenon DEF GoDown
<1>2. GoDown(s, r).state = Down /\ GoDown(s, r).detectDeadline = NoTime
  BY DEF GoDown, Sess, SessionType
<1>. QED  BY <1>1, <1>2 DEF Good, Active

\* An administrative Down, local or remote, disarms it too and is good.
LEMMA GoAdminDownGood ==
  ASSUME NEW s \in Sess, NEW t \in Int, Good(s, t)
  PROVE  Good(GoAdminDown(s), t)
<1>1. GoAdminDown(s) \in Sess
  <2>1. AdminDown \in State /\ "local_admin" \in DownReason
    BY DEF DownReason
  <2>. QED BY FieldTypes, <2>1, Zenon DEF GoAdminDown
<1>2. CASE s.state = AdminDown
  BY <1>2 DEF GoAdminDown
<1>3. CASE s.state # AdminDown
  <2>1. /\ GoAdminDown(s).state = AdminDown
        /\ GoAdminDown(s).detectDeadline = NoTime
    BY <1>3 DEF GoAdminDown, Sess, SessionType
  <2>. QED  BY <1>1, <2>1 DEF Good, Active
<1>. QED  BY <1>2, <1>3

\* Learning the peer's mode from a packet keeps a session good.
LEMMA LearnModeGood ==
  ASSUME NEW s \in Sess, NEW t \in Int, Good(s, t), NEW pkt \in Packet
  PROVE  /\ Good(LearnMode(s, pkt), t)
         /\ LearnMode(s, pkt).state = s.state
<1>1. DetectTime(Cfg, LearnMode(s, pkt)) = DetectTime(Cfg, s)
  BY DEF LearnMode, DetectTime, RxInterval, Good, Sess, SessionType
<1>. QED
  BY <1>1, NoTimeAssumption DEF LearnMode, Good, Sess, SessionType, Active, PeerMode

\* Pushing a passed deadline out keeps it a full detect time after upSince.
LEMMA ArmDetectGood ==
  ASSUME NEW s \in Sess, NEW t \in Int, Good(s, t)
  PROVE  Good(ArmDetect(Cfg, s, t), t)
<1>1. CASE ~(CanArm(s) /\ s.detectDeadline <= t)
  BY <1>1 DEF ArmDetect
<1>2. CASE CanArm(s) /\ s.detectDeadline <= t
  <2> DEFINE d == t + DetectTime(Cfg, s)
             u == [s EXCEPT !.detectDeadline = d]
  <2>0. s.peerTxMin \in Nat
    BY IntervalType DEF Sess, SessionType
  <2>1. d \in Int
    BY <2>0, DetectTimePositive
  <2>2. u \in Sess
    BY FieldTypes, <2>1, Zenon
  <2>3. /\ u.state = s.state /\ u.upSince = s.upSince
        /\ u.peerDiscr = s.peerDiscr /\ u.peerTxMin = s.peerTxMin
        /\ u.detectDeadline = d
    BY DEF Sess, SessionType
  <2>4. DetectTime(Cfg, u) = DetectTime(Cfg, s)
    BY <2>3 DEF DetectTime, RxInterval
  <2>5. d # NoTime
    BY <2>1, NoTimeAssumption
  <2>6. s.detectDeadline # NoTime
    BY <1>2 DEF CanArm
  <2>7. Good(u, t)
    <3> HIDE DEF u, d
    <3>1. s.state = Up => d >= s.upSince + DetectTime(Cfg, s)
      BY <2>0, DetectTimePositive DEF Good, d
    <3>. QED  BY <2>2, <2>3, <2>4, <2>5, <2>6, <3>1 DEF Good, Active
  <2>. QED  BY <1>2, <2>7 DEF ArmDetect
<1>. QED  BY <1>1, <1>2

\* What Refresh leaves behind: everything but the peer's discriminator and
\* timers is kept, and the deadline is a full detect time away.
LEMMA RefreshFacts ==
  ASSUME NEW s \in Sess, NEW t \in Int, NEW pkt \in Packet
  PROVE  LET u == Refresh(Cfg, s, t, pkt) IN
         /\ u \in Sess
         /\ u.state = s.state /\ u.upSince = s.upSince
         /\ u.peerDiscr # 0
         /\ u.detectDeadline = t + DetectTime(Cfg, u)
         /\ u.detectDeadline \in Int
<1> DEFINE pd == IF s.peerDiscr = 0 THEN pkt.localDiscr ELSE s.peerDiscr
           ct == ClampPeer(Cfg, pkt.txMin)
           cr == ClampPeer(Cfg, pkt.rxMin)
           v  == [s EXCEPT !.peerDiscr = pd, !.peerTxMin = ct,
                           !.peerRxMin = cr, !.lastRx = t]
           d  == t + DetectTime(Cfg, v)
           u  == [v EXCEPT !.detectDeadline = d]
<1>1. /\ pkt.txMin \in Nat /\ pkt.rxMin \in Nat
      /\ pkt.localDiscr \in Discr /\ pkt.localDiscr # 0
  BY EndpointAssumption DEF Packet, PacketType
<1>2. ct \in Interval /\ cr \in Interval
  BY <1>1, ClampPeerType
<1>3. pd \in Discr \cup {0} /\ pd # 0
  BY <1>1 DEF Sess, SessionType
<1>4. t \in Int \cup {NoTime}
  OBVIOUS
<1> HIDE DEF pd, ct, cr
<1>5. v \in Sess
  BY FieldTypes, <1>2, <1>3, <1>4, Zenon
<1>6. v.state = s.state /\ v.upSince = s.upSince /\ v.peerDiscr = pd
  BY DEF Sess, SessionType
<1>7. v.peerTxMin \in Nat
  BY IntervalType, <1>5 DEF Sess, SessionType
<1> HIDE DEF v
<1>8. d \in Int
  BY <1>7, DetectTimePositive
<1>9. u \in Sess
  BY <1>5, <1>8, FieldTypes, Zenon
<1>10. /\ u.state = v.state /\ u.upSince = v.upSince
       /\ u.peerDiscr = v.peerDiscr /\ u.peerTxMin = v.peerTxMin
       /\ u.detectDeadline = d
  BY <1>5 DEF Sess, SessionType
<1>11. DetectTime(Cfg, u) = DetectTime(Cfg, v)
  BY <1>10 DEF DetectTime, RxInterval
<1>12. Refresh(Cfg, s, t, pkt) = u
  BY DEF Refresh, v, pd, ct, cr
<1> HIDE DEF u
<1>. QED  BY <1>3, <1>6, <1>8, <1>9, <1>10, <1>11, <1>12 DEF d

\* A session with a fresh deadline and a known peer, in any state but
\* AdminDown, is good after the handshake step, and still active if it was.
LEMMA AdvanceGood ==
  ASSUME NEW s \in Sess, NEW t \in Int, NEW pkt \in Packet,
         s.state # AdminDown, s.peerDiscr # 0,
         s.detectDeadline \in Int,
         s.detectDeadline = t + DetectTime(Cfg, s),
         s.state = Up => s.upSince \in Int /\ s.upSince <= t
  PROVE  /\ Good(Advance(s, t, pkt), t)
         /\ s.state = Up => Advance(s, t, pkt).state = Up
<1>1. /\ t \in Int \cup {NoTime} /\ "none" \in DownReason
      /\ Up \in State /\ Init_ \in State /\ 1 \in Nat
      /\ pkt.localDiscr \in Discr \cup {0} /\ pkt.localDiscr # 0
  BY EndpointAssumption DEF DownReason, Packet, PacketType
<1>2. DetectTime(Cfg, s) \in Nat /\ s.detectDeadline # NoTime /\ t # NoTime
  BY IntervalType, DetectTimePositive, NoTimeAssumption DEF Sess, SessionType
<1>3. Good(GoUp(s, t), t) /\ GoUp(s, t).state = Up
  <2>1. GoUp(s, t) \in Sess
    BY <1>1, FieldTypes, Zenon DEF GoUp
  <2>2. /\ GoUp(s, t).state = Up /\ GoUp(s, t).upSince = t
        /\ GoUp(s, t).detectDeadline = s.detectDeadline
        /\ GoUp(s, t).peerDiscr = s.peerDiscr
        /\ GoUp(s, t).peerTxMin = s.peerTxMin
    BY DEF GoUp, Sess, SessionType
  <2>3. DetectTime(Cfg, GoUp(s, t)) = DetectTime(Cfg, s)
    BY <2>2 DEF DetectTime, RxInterval
  <2>. QED  BY <1>2, <2>1, <2>2, <2>3 DEF Good, Active
<1>4. Good(GoInit(s), t)
  <2>1. GoInit(s) \in Sess
    BY <1>1, FieldTypes, Zenon DEF GoInit
  <2>2. /\ GoInit(s).state = Init_
        /\ GoInit(s).detectDeadline = s.detectDeadline
        /\ GoInit(s).peerDiscr = s.peerDiscr
    BY DEF GoInit, Sess, SessionType
  <2>. QED  BY <1>2, <2>1, <2>2 DEF Good, Active
<1>5. CASE s.state = Down
  BY <1>3, <1>4, <1>5 DEF Advance
<1>6. CASE s.state = Init_
  <2>1. Good(s, t)
    BY <1>2, <1>6 DEF Good, Active
  <2>. QED  BY <1>3, <1>6, <2>1 DEF Advance
<1>7. CASE s.state = Up
  <2> DEFINE u == [s EXCEPT !.peerDiscr = pkt.localDiscr]
  <2>1. u \in Sess
    BY <1>1, FieldTypes, Zenon
  <2>2. /\ u.state = Up /\ u.upSince = s.upSince
        /\ u.detectDeadline = s.detectDeadline
        /\ u.peerDiscr = pkt.localDiscr /\ u.peerTxMin = s.peerTxMin
    BY <1>7 DEF Sess, SessionType
  <2>3. Advance(s, t, pkt) = u
    BY <1>1, <1>7 DEF Advance
  <2> HIDE DEF u
  <2>4. DetectTime(Cfg, u) = DetectTime(Cfg, s)
    BY <2>2 DEF DetectTime, RxInterval
  <2>5. Good(u, t)
    BY <1>1, <1>2, <1>7, <2>1, <2>2, <2>4 DEF Good, Active
  <2>. QED  BY <2>2, <2>3, <2>5
<1>. QED  BY <1>5, <1>6, <1>7 DEF Sess, SessionType

\* Receiving a packet preserves Good, and takes a fresh Up session down only
\* for a remote administrative reason.
LEMMA HandleRxGood ==
  ASSUME NEW s \in Sess, NEW t \in Int, Good(s, t), NEW pkt \in Packet
  PROVE  LET u == HandleRx(Cfg, s, t, pkt) IN
         /\ Good(u, t)
         /\ (s.state = Up /\ u.state # Up
              /\ t < s.upSince + DetectTime(Cfg, s))
             => u.downReason = "remote_admin"
<1> DEFINE v == LearnMode(s, pkt)
           r == Refresh(Cfg, v, t, pkt)
<1>1. Good(v, t) /\ v.state = s.state /\ v \in Sess
  BY LearnModeGood DEF Good
<1>2. v.upSince = s.upSince /\ v.peerTxMin = s.peerTxMin
  BY DEF LearnMode, Sess, SessionType
<1>3. DetectTime(Cfg, v) = DetectTime(Cfg, s)
  BY <1>2 DEF DetectTime, RxInterval
<1> HIDE DEF v
<1>4. CASE Rejects(s, pkt)
  BY <1>4 DEF HandleRx
<1>5. CASE ~Rejects(s, pkt) /\ pkt.state = AdminDown
  <2>1. HandleRx(Cfg, s, t, pkt) = GoDown(v, "remote_admin")
    BY <1>5 DEF HandleRx, v
  <2>2. Good(GoDown(v, "remote_admin"), t)
    BY <1>1, GoDownGood DEF DownReason
  <2>3. GoDown(v, "remote_admin").downReason = "remote_admin"
    BY <1>1 DEF GoDown, Sess, SessionType
  <2>. QED  BY <2>1, <2>2, <2>3
<1>6. CASE ~Rejects(s, pkt) /\ pkt.state = Down /\ Active(v)
  <2>1. HandleRx(Cfg, s, t, pkt) =
          IF StaleDown(Cfg, v, t) THEN v ELSE GoDown(v, "remote_down")
    BY <1>6 DEF HandleRx, v
  <2>2. Good(GoDown(v, "remote_down"), t)
    BY <1>1, GoDownGood DEF DownReason
  <2>3. (s.state = Up /\ t < s.upSince + DetectTime(Cfg, s))
        => StaleDown(Cfg, v, t)
    <3>1. DetectTime(Cfg, s) \in Nat /\ DetectTime(Cfg, s) > 0
      BY IntervalType, DetectTimePositive DEF Sess, SessionType
    <3>. QED  BY <1>1, <1>2, <1>3, <3>1, NoTimeAssumption DEF StaleDown, Good
  <2>. QED  BY <1>1, <2>1, <2>2, <2>3
<1>7. CASE /\ ~Rejects(s, pkt) /\ pkt.state # AdminDown
           /\ ~(pkt.state = Down /\ Active(v))
  <2>1. HandleRx(Cfg, s, t, pkt) = Advance(r, t, pkt)
    BY <1>7 DEF HandleRx, v
  <2>2. /\ r \in Sess /\ r.state = v.state /\ r.upSince = v.upSince
        /\ r.peerDiscr # 0 /\ r.detectDeadline \in Int
        /\ r.detectDeadline = t + DetectTime(Cfg, r)
    BY <1>1, RefreshFacts
  <2> HIDE DEF r
  <2>3. r.state # AdminDown
    BY <1>1, <1>7, <2>2 DEF Rejects
  <2>4. r.state = Up => r.upSince \in Int /\ r.upSince <= t
    BY <1>1, <2>2 DEF Good
  <2>5. /\ Good(Advance(r, t, pkt), t)
        /\ r.state = Up => Advance(r, t, pkt).state = Up
    BY <2>2, <2>3, <2>4, AdvanceGood
  <2>. QED  BY <1>1, <2>1, <2>2, <2>5
<1>. QED  BY <1>4, <1>5, <1>6, <1>7

\* Computing the next transmission only changes the backoff factor.
LEMMA AfterComputeNextTxGood ==
  ASSUME NEW s \in Sess, NEW t \in Int, Good(s, t)
  PROVE  /\ Good(AfterComputeNextTx(Cfg, s), t)
         /\ AfterComputeNextTx(Cfg, s).state = s.state
         /\ AfterComputeNextTx(Cfg, s).downReason = s.downReason
<1>1. ASSUME NEW f \in Nat
      PROVE  LET u == [s EXCEPT !.backoffFactor = f] IN
             Good(u, t) /\ u.state = s.state /\ u.downReason = s.downReason
  <2> DEFINE u == [s EXCEPT !.backoffFactor = f]
  <2>1. u \in Sess
    BY FieldTypes, Zenon
  <2>2. /\ u.state = s.state /\ u.downReason = s.downReason
        /\ u.upSince = s.upSince /\ u.detectDeadline = s.detectDeadline
        /\ u.peerDiscr = s.peerDiscr /\ u.peerTxMin = s.peerTxMin
    BY DEF Sess, SessionType
  <2> HIDE DEF u
  <2>3. DetectTime(Cfg, u) = DetectTime(Cfg, s)
    BY <2>2 DEF DetectTime, RxInterval
  <2>4. Good(u, t)
    BY <2>1, <2>2, <2>3 DEF Good, Active
  <2>. QED  BY <2>2, <2>4 DEF u
<1>2. /\ Larger(s.backoffFactor, 1) \in Nat
      /\ 2 * Larger(s.backoffFactor, 1) \in Nat
      /\ 1 \in Nat
  BY DEF Larger, Sess, SessionType
<1>. QED  BY <1>1, <1>2, Zenon DEF AfterComputeNextTx

-----------------------------------------------------------------------------
(* The inductive invariant *)

\* IInv holds initially and every step of the endpoint preserves it.
THEOREM EndpointInvariant == EndpointSpec => []IInv
<1>1. EndpointInit => IInv
  BY EndpointAssumption, NewSessionGood DEF EndpointInit, IInv
<1>2. IInv /\ [EndpointNext]_endpointVars => IInv'
  <2> SUFFICES ASSUME IInv, [EndpointNext]_endpointVars PROVE IInv'
    OBVIOUS
  <2>0. now \in Int /\ now \in 0 .. MaxTime /\ sess \in Sess /\ Good(sess, now)
    BY EndpointAssumption DEF IInv, Good
  <2>1. ASSUME NEW pkt \in Packet, Receive(pkt) PROVE IInv'
    <3> DEFINE u == HandleRx(Cfg, sess, now, pkt)
    <3>1. Good(u, now) /\ u \in Sess
      BY <2>0, HandleRxGood DEF Good
    <3> HIDE DEF u
    <3>2. Good(ArmDetect(Cfg, u, now), now)
      BY <2>0, <3>1, ArmDetectGood
    <3>. QED  BY <2>0, <2>1, <3>1, <3>2 DEF Receive, IInv, u
  <2>2. CASE Expire
    <3>1. Good(GoDown(sess, "timeout"), now)
      BY <2>0, GoDownGood DEF DownReason
    <3>. QED  BY <2>0, <2>2, <3>1 DEF Expire, ExpireIfDue, IInv
  <2>3. CASE Transmit
    BY <2>0, <2>3, AfterComputeNextTxGood DEF Transmit, IInv
  <2>4. CASE AdminDownRoute
    <3>1. Good(GoAdminDown(sess), now) /\ GoAdminDown(sess) \in Sess
      BY <2>0, GoAdminDownGood DEF Good
    <3>. QED  BY <2>0, <2>4, <3>1, AfterComputeNextTxGood DEF AdminDownRoute, IInv
  <2>5. CASE Withdraw
    <3> DEFINE u == [sess EXCEPT !.alive = FALSE]
    <3>1. u \in Sess
      <4>1. FALSE \in BOOLEAN
        OBVIOUS
      <4>. QED  BY <2>0, <4>1, FieldTypes, Zenon
    <3>2. /\ u.state = sess.state /\ u.upSince = sess.upSince
          /\ u.detectDeadline = sess.detectDeadline
          /\ u.peerDiscr = sess.peerDiscr /\ u.peerTxMin = sess.peerTxMin
      BY <2>0 DEF Sess, SessionType
    <3> HIDE DEF u
    <3>3. DetectTime(Cfg, u) = DetectTime(Cfg, sess)
      BY <3>2 DEF DetectTime, RxInterval
    <3>4. Good(u, now)
      BY <2>0, <3>1, <3>2, <3>3 DEF Good, Active
    <3>. QED  BY <2>0, <2>5, <3>4 DEF Withdraw, IInv, u
  <2>6. CASE Tick
    <3>1. now' \in 0 .. MaxTime /\ now' = now + 1 /\ sess' = sess
      BY <2>0, <2>6, EndpointAssumption DEF Tick
    <3>2. Good(sess, now + 1)
      BY <2>0 DEF Good
    <3>. QED  BY <3>1, <3>2 DEF IInv
  <2>7. CASE UNCHANGED endpointVars
    BY <2>0, <2>7 DEF endpointVars, IInv
  <2>. QED  BY <2>1, <2>2, <2>3, <2>4, <2>5, <2>6, <2>7 DEF EndpointNext
<1>. QED  BY <1>1, <1>2, PTL DEF EndpointSpec

\* The fields of the session and the clock keep their types.
THEOREM EndpointTypeOK == EndpointSpec => []EndpointType
<1>1. IInv => EndpointType
  BY DEF IInv, Good, EndpointType, Sess
<1>. QED  BY <1>1, EndpointInvariant, PTL

\* A session is Init or Up exactly while its detect timer is armed, so a
\* silent peer is always noticed and a Down session never times out again.
THEOREM EndpointDetectArmed == EndpointSpec => []DetectArmed
<1>1. IInv => DetectArmed
  BY DEF IInv, Good, DetectArmed
<1>. QED  BY <1>1, EndpointInvariant, PTL

\* A session that came Up is not due before a full detect time has passed.
THEOREM EndpointUpLastsDetectTime == EndpointSpec => []UpLastsDetectTime
<1>1. IInv => UpLastsDetectTime
  BY NoTimeAssumption DEF IInv, Good, UpLastsDetectTime
<1>. QED  BY <1>1, EndpointInvariant, PTL

\* A step takes a session that came Up less than a detect time ago out of Up
\* only for an administrative reason: a stale Down packet is ignored and the
\* session's own timer cannot be due yet.
THEOREM EndpointFreshUpHolds == EndpointSpec => FreshUpHolds
<1> DEFINE Fresh == sess.state = Up /\ now < sess.upSince + DetectTime(Cfg, sess)
           Holds == (/\ sess.state = Up
                     /\ now < sess.upSince + DetectTime(Cfg, sess)
                     /\ sess'.state # Up)
                    => sess'.downReason \in {"remote_admin", "local_admin"}
<1>1. IInv /\ [EndpointNext]_endpointVars => [Holds]_endpointVars
  <2> SUFFICES ASSUME IInv, EndpointNext, Fresh, sess'.state # Up
               PROVE  sess'.downReason \in {"remote_admin", "local_admin"}
    OBVIOUS
  <2>0. now \in Int /\ sess \in Sess /\ Good(sess, now)
    BY EndpointAssumption DEF IInv, Good
  <2>1. ASSUME NEW pkt \in Packet, Receive(pkt)
        PROVE  sess'.downReason \in {"remote_admin", "local_admin"}
    <3> DEFINE u == HandleRx(Cfg, sess, now, pkt)
    <3>1. /\ Good(u, now)
          /\ u.state # Up => u.downReason = "remote_admin"
      BY <2>0, HandleRxGood
    <3>2. sess' = IF Active(u) THEN ArmDetect(Cfg, u, now) ELSE u
      BY <2>1 DEF Receive
    <3> HIDE DEF u
    <3>3. u \in Sess
      BY <3>1 DEF Good
    <3>4. /\ ArmDetect(Cfg, u, now).state = u.state
          /\ ArmDetect(Cfg, u, now).downReason = u.downReason
      BY <3>3 DEF ArmDetect, Sess, SessionType
    <3>. QED  BY <3>1, <3>2, <3>4
  <2>2. CASE Expire
    <3>1. DetectTime(Cfg, sess) \in Nat
      BY IntervalType, <2>0, DetectTimePositive DEF Sess, SessionType
    <3>. QED  BY <2>0, <2>2, <3>1, NoTimeAssumption
              DEF Expire, DetectDue, Good, Sess, SessionType
  <2>3. CASE Transmit
    BY <2>0, <2>3, AfterComputeNextTxGood DEF Transmit
  <2>4. CASE AdminDownRoute
    <3>1. Good(GoAdminDown(sess), now) /\ GoAdminDown(sess) \in Sess
      BY <2>0, GoAdminDownGood DEF Good
    <3>2. GoAdminDown(sess).downReason = "local_admin"
      BY <2>0 DEF GoAdminDown, Sess, SessionType
    <3>. QED  BY <2>0, <2>4, <3>1, <3>2, AfterComputeNextTxGood DEF AdminDownRoute
  <2>5. CASE Withdraw
    <3>1. sess'.state = sess.state
      BY <2>0, <2>5 DEF Withdraw, Sess, SessionType
    <3>. QED  BY <3>1
  <2>6. CASE Tick
    BY <2>6 DEF Tick
  <2>. QED  BY <2>1, <2>2, <2>3, <2>4, <2>5, <2>6 DEF EndpointNext
<1>. QED  BY <1>1, EndpointInvariant, PTL DEF EndpointSpec, FreshUpHolds

-----------------------------------------------------------------------------
(* The backoff *)

Backed(s) ==
  /\ s.backoffFactor \in Nat /\ s.backoffFactor >= 1
  /\ s.backoffFactor = 1 \/ s.backoffFactor * Cfg.minTxFloor < 2 * Cfg.backoffMax

\* Doubling stops once the interval reaches the cap.
LEMMA AfterComputeNextTxBacked ==
  ASSUME NEW s \in Sess, Backed(s)
  PROVE  Backed(AfterComputeNextTx(Cfg, s))
<1> DEFINE f == s.backoffFactor
           base == TxInterval(Cfg, s)
<1>1. /\ Cfg.minTxFloor \in Nat /\ Cfg.backoffMax \in Nat
      /\ Cfg.minTxFloor > 0 /\ Cfg.backoffMax > 0
  BY EndpointAssumption DEF ValidConfig, SessionConfig
<1>2. f \in Nat /\ f >= 1 /\ Larger(f, 1) = f
  BY DEF Backed, Larger
<1>3. base \in Nat /\ base >= Cfg.minTxFloor
  <2>1. s.peerRxMin \in Nat
    BY IntervalType DEF Sess, SessionType
  <2>. QED  BY <2>1, EndpointAssumption
            DEF ValidConfig, SessionConfig, TxInterval, Bounded, Larger, Smaller
<1>4. CASE s.state # Down
  <2>1. AfterComputeNextTx(Cfg, s).backoffFactor = 1
    BY <1>4 DEF AfterComputeNextTx, Sess, SessionType
  <2>. QED  BY <2>1 DEF Backed
<1>5. CASE s.state = Down /\ EffectiveTx(Cfg, s) < Cfg.backoffMax
  <2>1. AfterComputeNextTx(Cfg, s).backoffFactor = 2 * f
    BY <1>2, <1>5 DEF AfterComputeNextTx, Sess, SessionType
  <2>2. base * f < Cfg.backoffMax
    <3>1. base * f \in Nat
      BY <1>2, <1>3
    <3>. QED  BY <1>1, <1>2, <1>5, <3>1 DEF EffectiveTx, Smaller
  <2>3. \A a, b, c \in Nat : a >= b => c * b <= a * c
    OBVIOUS
  <2>4. f * Cfg.minTxFloor <= base * f
    BY <1>1, <1>2, <1>3, <2>3
  <2> HIDE DEF f, base
  <2>5. (2 * f) * Cfg.minTxFloor = 2 * (f * Cfg.minTxFloor)
    BY <1>1, <1>2
  <2>6. f * Cfg.minTxFloor \in Nat /\ base * f \in Nat
    BY <1>1, <1>2, <1>3
  <2>. QED  BY <1>1, <1>2, <2>1, <2>2, <2>4, <2>5, <2>6 DEF Backed
<1>6. CASE s.state = Down /\ ~(EffectiveTx(Cfg, s) < Cfg.backoffMax)
  <2>1. AfterComputeNextTx(Cfg, s).backoffFactor = f
    BY <1>1, <1>2, <1>6 DEF AfterComputeNextTx, Sess, SessionType
  <2>. QED  BY <2>1 DEF Backed
<1>. QED  BY <1>4, <1>5, <1>6

\* Receiving a packet keeps the factor or resets it.
LEMMA HandleRxFactor ==
  ASSUME NEW s \in Sess, NEW t \in Int, NEW pkt \in Packet
  PROVE  HandleRx(Cfg, s, t, pkt).backoffFactor \in {1, s.backoffFactor}
<1> DEFINE v == LearnMode(s, pkt)
           r == Refresh(Cfg, v, t, pkt)
<1>1. v \in Sess /\ v.backoffFactor = s.backoffFactor
  BY DEF LearnMode, Sess, SessionType, PeerMode
<1> HIDE DEF v
<1>2. \A d \in DownReason : GoDown(v, d).backoffFactor = 1
  BY <1>1 DEF GoDown, Sess, SessionType
<1>3. r \in Sess /\ r.backoffFactor = v.backoffFactor
  <2>1. r \in Sess
    BY <1>1, RefreshFacts
  <2>2. r.backoffFactor = v.backoffFactor
    BY <1>1 DEF Refresh, Sess, SessionType
  <2>. QED  BY <2>1, <2>2
<1> HIDE DEF r
<1>4. /\ GoUp(r, t).backoffFactor = 1
      /\ GoInit(r).backoffFactor = 1
      /\ [r EXCEPT !.peerDiscr = pkt.localDiscr].backoffFactor = r.backoffFactor
  BY <1>3 DEF GoUp, GoInit, Sess, SessionType
<1>5. Advance(r, t, pkt).backoffFactor \in {1, r.backoffFactor}
  BY <1>4 DEF Advance
<1>. QED  BY <1>1, <1>2, <1>3, <1>5 DEF HandleRx, v, r, DownReason

\* The backoff factor is at least one and the interval it stands for stays
\* below twice the configured maximum.
THEOREM EndpointBackoffBounded == EndpointSpec => []BackoffBounded
<1>1. EndpointInit => Backed(sess)
  BY DEF EndpointInit, NewSession, Backed
<1>2. IInv /\ Backed(sess) /\ [EndpointNext]_endpointVars => Backed(sess)'
  <2> SUFFICES ASSUME IInv, Backed(sess), [EndpointNext]_endpointVars PROVE Backed(sess')
    BY DEF Backed
  <2>0. now \in Int /\ sess \in Sess /\ Good(sess, now)
    BY EndpointAssumption DEF IInv, Good
  <2>1. ASSUME NEW s, s.backoffFactor \in {1, sess.backoffFactor}
        PROVE  Backed(s)
    BY <2>1 DEF Backed
  <2>2. ASSUME NEW pkt \in Packet, Receive(pkt) PROVE Backed(sess')
    <3> DEFINE u == HandleRx(Cfg, sess, now, pkt)
    <3>1. u \in Sess /\ u.backoffFactor \in {1, sess.backoffFactor}
      BY <2>0, HandleRxGood, HandleRxFactor DEF Good
    <3>2. sess' = IF Active(u) THEN ArmDetect(Cfg, u, now) ELSE u
      BY <2>2 DEF Receive
    <3> HIDE DEF u
    <3>3. ArmDetect(Cfg, u, now).backoffFactor = u.backoffFactor
      BY <3>1 DEF ArmDetect, Sess, SessionType
    <3>4. sess'.backoffFactor \in {1, sess.backoffFactor}
      BY <3>1, <3>2, <3>3
    <3>. QED  BY <2>1, <3>4
  <2>3. CASE Expire
    <3>1. GoDown(sess, "timeout").backoffFactor = 1
      BY <2>0 DEF GoDown, Sess, SessionType
    <3>. QED  BY <2>1, <2>3, <3>1 DEF Expire, ExpireIfDue
  <2>4. CASE Transmit
    BY <2>0, <2>4, AfterComputeNextTxBacked DEF Transmit
  <2>5. CASE AdminDownRoute
    <3>1. GoAdminDown(sess) \in Sess
      BY <2>0, GoAdminDownGood DEF Good
    <3>2. GoAdminDown(sess).backoffFactor = sess.backoffFactor
      BY <2>0 DEF GoAdminDown, Sess, SessionType
    <3>3. Backed(GoAdminDown(sess))
      BY <2>1, <3>2
    <3>4. sess' \in {GoAdminDown(sess), AfterComputeNextTx(Cfg, GoAdminDown(sess))}
      BY <2>5 DEF AdminDownRoute
    <3>. QED  BY <3>1, <3>3, <3>4, AfterComputeNextTxBacked
  <2>6. CASE Withdraw
    <3>1. sess'.backoffFactor = sess.backoffFactor
      BY <2>0, <2>6 DEF Withdraw, Sess, SessionType
    <3>. QED  BY <2>1, <3>1
  <2>7. CASE Tick
    BY <2>7 DEF Tick
  <2>8. CASE UNCHANGED endpointVars
    BY <2>8 DEF endpointVars
  <2>. QED  BY <2>2, <2>3, <2>4, <2>5, <2>6, <2>7, <2>8 DEF EndpointNext
<1>3. Backed(sess) => BackoffBounded
  BY DEF Backed, BackoffBounded
<1>. QED  BY <1>1, <1>2, <1>3, EndpointInvariant, PTL DEF EndpointSpec

HIDE DEF State, AdminDown, Down, Init_, Up

-----------------------------------------------------------------------------
(* The BGP server *)

\* The types of BgpServer's state.
Plugin == [tcp : BOOLEAN, est : BOOLEAN, deleted : BOOLEAN]
Timer == [plug : Nat, stage : {"armed", "fired", "checked", "sending", "ended"},
          what : {"none", "failed", "unreachable"}]
Event == [from : {"api", "fsm", "timer"} \X Nat, status : Status]
Machines == [pc : {"none", "idle", "connected", "opened", "up", "closing", "rearm", "stopped"},
             plug : Nat, stop : BOOLEAN]

Plugins ==
  /\ plug \in Seq(Plugin) /\ fsm \in Machines
  /\ fsm.plug \in 0 .. Len(plug) /\ registered \in 0 .. Len(plug)
  /\ fsm.plug = 0 <=> fsm.pc = "none"
  /\ fsm.pc = "none" => fsm = NoPeer

Timeouts ==
  /\ timer \in Seq(Timer)
  /\ \A i \in DOMAIN timer : /\ timer[i].plug \in 1 .. Len(plug)
                             /\ timer[i].stage = "checked" => timer[i].what # "none"

Events ==
  chan \in Seq(Event) /\ hold \in Status \cup {None} /\ status \in Status \cup {None}

\* Every timeout was started by an AddPeer or for a session that ended; those
\* still to come are counted too.
Owed == (IF api = "adding" THEN 1 ELSE 0)
        + (IF fsm.pc \in {"up", "closing", "rearm"} THEN 1 ELSE 0)

Counted ==
  /\ mode \in Mode /\ ups \in 0 .. mode.ups /\ Len(plug) <= mode.adds
  /\ api \in {"idle", "adding", "storing", "deleting"} /\ routes \subseteq Prefix
  /\ Len(timer) + Owed <= Len(plug) + ups

\* Where AddPeer is called for new peers only, at most the last plugin is not
\* deleted, and it is the one corebgp and peerPlugins know.
Sole ==
  ~mode.again =>
    /\ \A p \in 1 .. Len(plug) - 1 : plug[p].deleted
    /\ fsm.plug # 0 => fsm.plug = Len(plug)
    /\ registered # 0 => registered = fsm.plug
    /\ api = "adding" => fsm.plug = 0
    /\ api = "storing" => fsm.plug # 0
    /\ api = "deleting" => fsm.plug # 0 /\ plug[Len(plug)].deleted
    /\ Len(plug) > 0 /\ fsm.plug = 0 /\ api # "adding" => plug[Len(plug)].deleted

\* A peer that is stored, being stored or being deleted is one corebgp has.
Known ==
  /\ registered # 0 \/ api \in {"storing", "deleting"} => fsm.plug # 0
  /\ api = "deleting" => registered = 0
  /\ api = "adding" => Len(plug) > 0

InSect(i) == timer[i].stage \in {"checked", "sending"}

\* A timeout in its critical section belongs to a plugin that is neither
\* deleted nor established, unless a deletion overtook it.
Section ==
  ~mode.hasty =>
    \A i \in DOMAIN timer :
      InSect(i) => ~plug[timer[i].plug].deleted /\ ~plug[timer[i].plug].est

\* The event that will be shown when no further one is sent.
LastEvent ==
  IF chan # <<>> THEN chan[Len(chan)].status ELSE IF hold # None THEN hold ELSE status

Shown ==
  /\ fsm.pc = "up" => plug[fsm.plug].est
  /\ fsm.pc # "up" => LastEvent # "up"
  /\ ~mode.again /\ ~mode.hasty /\ fsm.pc = "up" /\ api # "deleting" => LastEvent = "up"

\* StatusMatchesPeer, strengthened: only an established plugin has sent Up, and
\* no timeout is between its check and its send while the session runs.
PeerInv == Plugins /\ Timeouts /\ Events /\ Counted /\ Sole /\ Known /\ Section /\ Shown

-----------------------------------------------------------------------------
\* One plugin changes.
LEMMA PlugChange ==
  ASSUME plug \in Seq(Plugin), NEW q \in 1 .. Len(plug), NEW r \in Plugin,
         plug' = [plug EXCEPT ![q] = r]
  PROVE  /\ plug' \in Seq(Plugin) /\ Len(plug') = Len(plug) /\ plug'[q] = r
         /\ \A p \in 1 .. Len(plug) : p # q => plug'[p] = plug[p]
OBVIOUS

\* The state machine goes to another place.
LEMMA FsmMoves ==
  ASSUME fsm \in Machines,
         NEW x \in {"idle", "connected", "opened", "up", "closing", "rearm", "stopped"},
         fsm' = [fsm EXCEPT !.pc = x]
  PROVE  fsm' \in Machines /\ fsm'.pc = x /\ fsm'.plug = fsm.plug /\ fsm'.stop = fsm.stop
BY DEF Machines

\* The event sent last is the one that will be shown.
LEMMA EventSent ==
  ASSUME chan \in Seq(Event), NEW w \in {"api", "fsm", "timer"} \X Nat, NEW s \in Status,
         Send(w, s)
  PROVE  chan' \in Seq(Event) /\ LastEvent' = s
<1>1. [from |-> w, status |-> s] \in Event
  BY DEF Event
<1>2. /\ chan' \in Seq(Event) /\ chan' # <<>>
      /\ chan'[Len(chan')] = [from |-> w, status |-> s]
  BY <1>1 DEF Send
<1> QED
  BY <1>2 DEF LastEvent

\* Cancelling the timeouts of a plugin ends the armed ones only.
LEMMA Cancels ==
  ASSUME timer \in Seq(Timer), NEW p
  PROVE  /\ Cancelled(p) \in Seq(Timer) /\ Len(Cancelled(p)) = Len(timer)
         /\ DOMAIN Cancelled(p) = DOMAIN timer
         /\ \A i \in DOMAIN timer :
              /\ Cancelled(p)[i].plug = timer[i].plug
              /\ Cancelled(p)[i].what = timer[i].what
              /\ Cancelled(p)[i].stage \in {timer[i].stage, "ended"}
<1>1. \A i \in DOMAIN timer : timer[i] \in Timer
  OBVIOUS
<1>2. ASSUME NEW i \in DOMAIN timer
      PROVE  /\ Cancelled(p)[i] \in Timer
             /\ Cancelled(p)[i].plug = timer[i].plug
             /\ Cancelled(p)[i].what = timer[i].what
             /\ Cancelled(p)[i].stage \in {timer[i].stage, "ended"}
  BY <1>1, <1>2 DEF Cancelled, Timer
<1>3. DOMAIN Cancelled(p) = 1 .. Len(timer) /\ DOMAIN timer = 1 .. Len(timer) /\ Len(timer) \in Nat
  BY DEF Cancelled
<1>4. Cancelled(p) = [i \in 1 .. Len(timer) |-> Cancelled(p)[i]]
  BY <1>3, Zenon DEF Cancelled
<1>5. Cancelled(p) \in [1 .. Len(timer) -> Timer]
  BY <1>2, <1>3, <1>4
<1>6. Cancelled(p) \in Seq(Timer) /\ Len(Cancelled(p)) = Len(timer)
  BY <1>3, <1>5
<1> QED
  BY <1>2, <1>3, <1>6

\* Restarting also adds an armed one.
LEMMA Restarts ==
  ASSUME timer \in Seq(Timer), NEW p \in Nat
  PROVE  /\ Restarted(p) \in Seq(Timer) /\ Len(Restarted(p)) = Len(timer) + 1
         /\ \A i \in DOMAIN timer : Restarted(p)[i] = Cancelled(p)[i]
         /\ Restarted(p)[Len(timer) + 1] = [plug |-> p, stage |-> "armed", what |-> "none"]
<1>1. [plug |-> p, stage |-> "armed", what |-> "none"] \in Timer
  BY DEF Timer
<1>2. /\ Cancelled(p) \in Seq(Timer) /\ Len(Cancelled(p)) = Len(timer)
      /\ DOMAIN Cancelled(p) = DOMAIN timer
  BY Cancels
<1> HIDE DEF Cancelled
<1> QED
  BY <1>1, <1>2 DEF Restarted

\* No timeout enters its critical section.
NoEntry ==
  /\ timer' \in Seq(Timer)
  /\ \A i \in DOMAIN timer' : /\ timer'[i].plug \in 1 .. Len(plug)
                              /\ timer'[i].stage = "checked" => timer'[i].what # "none"
  /\ \A i \in DOMAIN timer' :
       InSect(i)' => i \in DOMAIN timer /\ InSect(i) /\ timer'[i].plug = timer[i].plug

\* Cancelling lets no timeout into its critical section,
LEMMA CancelNoEntry ==
  ASSUME Timeouts, NEW p, timer' = Cancelled(p)
  PROVE  NoEntry /\ Len(timer') = Len(timer)
<1>1. timer \in Seq(Timer)
  BY DEF Timeouts
<1>2. /\ timer' \in Seq(Timer) /\ Len(timer') = Len(timer) /\ DOMAIN timer' = DOMAIN timer
      /\ \A i \in DOMAIN timer :
           /\ timer'[i].plug = timer[i].plug /\ timer'[i].what = timer[i].what
           /\ timer'[i].stage \in {timer[i].stage, "ended"}
  BY <1>1, Cancels
<1> QED
  BY <1>2 DEF NoEntry, Timeouts, InSect

\* and neither does restarting.
LEMMA RestartNoEntry ==
  ASSUME Timeouts, Len(plug) \in Nat, NEW p \in 1 .. Len(plug), timer' = Restarted(p)
  PROVE  NoEntry /\ Len(timer') = Len(timer) + 1
<1>1. timer \in Seq(Timer) /\ DOMAIN timer = 1 .. Len(timer) /\ Len(timer) \in Nat
  BY DEF Timeouts
<1>2. \A i \in DOMAIN timer :
        /\ Cancelled(p)[i].plug = timer[i].plug /\ Cancelled(p)[i].what = timer[i].what
        /\ Cancelled(p)[i].stage \in {timer[i].stage, "ended"}
  BY <1>1, Cancels
<1>3. p \in Nat
  OBVIOUS
<1>4. /\ timer' \in Seq(Timer) /\ Len(timer') = Len(timer) + 1
      /\ \A i \in DOMAIN timer : timer'[i] = Cancelled(p)[i]
      /\ timer'[Len(timer) + 1] = [plug |-> p, stage |-> "armed", what |-> "none"]
  BY <1>1, <1>3, Restarts
<1>5. ASSUME NEW i \in DOMAIN timer'
      PROVE  /\ timer'[i].plug \in 1 .. Len(plug)
             /\ timer'[i].stage = "checked" => timer'[i].what # "none"
             /\ InSect(i)' => i \in DOMAIN timer /\ InSect(i) /\ timer'[i].plug = timer[i].plug
  <2>1. i \in DOMAIN timer \/ i = Len(timer) + 1
    BY <1>1, <1>4, <1>5
  <2>2. CASE i \in DOMAIN timer
    BY <1>2, <1>4, <2>2 DEF Timeouts, InSect
  <2>3. CASE i = Len(timer) + 1
    BY <1>4, <2>3 DEF InSect
  <2> QED
    BY <2>1, <2>2, <2>3
<1> QED
  BY <1>4, <1>5 DEF NoEntry

\* Flags set outside the critical sections of their plugin keep Section.
LEMMA SectionKeeps ==
  ASSUME Section, Timeouts, NoEntry, mode' = mode,
         \A p \in 1 .. Len(plug) :
           /\ plug'[p].deleted => plug[p].deleted \/ (mode.hasty \/ ~InSection(p))
           /\ plug'[p].est => plug[p].est \/ ~InSection(p)
  PROVE  Section'
<1> SUFFICES ASSUME ~mode.hasty, NEW i \in DOMAIN timer', InSect(i)'
             PROVE  ~plug'[timer'[i].plug].deleted /\ ~plug'[timer'[i].plug].est
  BY DEF Section
<1>1. i \in DOMAIN timer /\ InSect(i) /\ timer'[i].plug = timer[i].plug
  BY DEF NoEntry
<1>2. InSection(timer[i].plug) /\ timer[i].plug \in 1 .. Len(plug)
  BY <1>1 DEF InSection, InSect, Timeouts
<1>3. ~plug[timer[i].plug].deleted /\ ~plug[timer[i].plug].est
  BY <1>1 DEF Section
<1> QED
  BY <1>1, <1>2, <1>3

\* Sole depends on the deleted flags, the peer and the caller only.
LEMMA SoleKeeps ==
  ASSUME Sole, mode' = mode, Len(plug') = Len(plug), Len(plug) \in Nat,
         \A p \in 1 .. Len(plug) : plug'[p].deleted = plug[p].deleted,
         fsm'.plug = fsm.plug, api' = api, registered' = registered
  PROVE  Sole'
<1>1. Len(plug) > 0 => Len(plug) \in 1 .. Len(plug)
  OBVIOUS
<1>2. \A p \in 1 .. Len(plug) - 1 : p \in 1 .. Len(plug)
  OBVIOUS
<1> SUFFICES ASSUME ~mode.again
             PROVE  Sole'
  BY DEF Sole
<1>3. \A p \in 1 .. Len(plug) - 1 : plug'[p].deleted
  BY <1>2 DEF Sole
<1>4. CASE Len(plug) > 0
  BY <1>1, <1>3, <1>4 DEF Sole
<1>5. CASE ~(Len(plug) > 0)
  BY <1>5 DEF Sole
<1> QED
  BY <1>4, <1>5

-----------------------------------------------------------------------------
\* AddPeer.
\* AddPeer, up to its call of corebgp.
LEMMA AddPeerStep ==
  ASSUME PeerInv, AddPeer
  PROVE  PeerInv'
<1>0. Plugins /\ Timeouts /\ Events /\ Counted /\ Sole /\ Known /\ Section /\ Shown
  BY DEF PeerInv
<1>1. PICK r : r = [tcp |-> FALSE, est |-> FALSE, deleted |-> FALSE]
  OBVIOUS
<1>2. /\ api = "idle" /\ Len(plug) < mode.adds /\ (fsm.plug # 0 => mode.again)
      /\ plug' = Append(plug, r) /\ Send(Caller, "pending") /\ api' = "adding"
      /\ UNCHANGED <<mode, timer, fsm, ups, hold, lock, status, registered, routes>>
  BY <1>1 DEF AddPeer
<1>3. r \in Plugin /\ Len(plug) \in Nat
  BY <1>0, <1>1 DEF Plugin, Plugins
<1>4. /\ plug' \in Seq(Plugin) /\ Len(plug') = Len(plug) + 1 /\ plug'[Len(plug) + 1] = r
      /\ \A p \in 1 .. Len(plug) : plug'[p] = plug[p]
  BY <1>0, <1>2, <1>3 DEF Plugins
<1>5. chan' \in Seq(Event) /\ LastEvent' = "pending"
  <2>1. Caller \in {"api", "fsm", "timer"} \X Nat /\ "pending" \in Status
    BY DEF Caller, Status
  <2> QED
    BY <1>0, <1>2, <2>1, EventSent DEF Events
<1>6. Plugins'
  BY <1>0, <1>2, <1>3, <1>4 DEF Plugins
<1>7. Timeouts'
  BY <1>0, <1>2, <1>3, <1>4 DEF Timeouts
<1>8. Events'
  BY <1>0, <1>2, <1>5 DEF Events
<1>9. Counted'
  <2>1. mode.adds \in Nat
    BY <1>0, BgpAssumption DEF Counted
  <2>2. Owed' = Owed + 1 /\ Owed \in Nat /\ Len(timer) \in Nat /\ ups \in Nat
    BY <1>0, <1>2, BgpAssumption DEF Owed, Timeouts, Counted
  <2>3. Len(timer) + Owed <= Len(plug) + ups
    BY <1>0 DEF Counted
  <2>4. Len(timer') + Owed' <= Len(plug') + ups'
    BY <1>2, <1>3, <1>4, <2>2, <2>3
  <2> QED
    BY <1>0, <1>2, <1>3, <1>4, <2>1, <2>4 DEF Counted
<1>10. Sole'
  <2> SUFFICES ASSUME ~mode.again PROVE Sole'
    BY <1>2 DEF Sole
  <2>1. fsm.plug = 0 /\ registered = 0
    BY <1>0, <1>2 DEF Sole
  <2>2. \A p \in 1 .. Len(plug) : plug[p].deleted
    BY <1>0, <1>2, <1>3, <2>1 DEF Sole
  <2>3. \A p \in 1 .. Len(plug') - 1 : plug'[p].deleted
    BY <1>3, <1>4, <2>2
  <2> QED
    BY <1>2, <2>1, <2>3 DEF Sole
<1>11. Section'
  BY <1>0, <1>2, <1>4 DEF Section, Timeouts, InSect
<1>12. Shown'
  BY <1>0, <1>2, <1>4, <1>5 DEF Shown, Plugins
<1>k. Known'
  BY <1>0, <1>2, <1>3, <1>4 DEF Known
<1> QED
  BY <1>k, <1>6, <1>7, <1>8, <1>9, <1>10, <1>11, <1>12 DEF PeerInv

\* A step that changes no event and only the place of the state machine.
\* The moves of corebgp's state machine that send nothing.
LEMMA MachineMoves ==
  ASSUME PeerInv, fsm.plug # 0,
         NEW x \in {"idle", "connected", "opened", "closing", "rearm", "stopped"},
         fsm' = [fsm EXCEPT !.pc = x], fsm.pc # "up",
         x = "rearm" => fsm.pc = "closing", x # "closing",
         plug' \in Seq(Plugin), Len(plug') = Len(plug),
         \A p \in 1 .. Len(plug) :
           plug'[p].deleted = plug[p].deleted /\ plug'[p].est = plug[p].est,
         UNCHANGED <<mode, ups, api, hold, lock, status, registered>>,
         chan' = chan \/ \E s \in Status : s # "up" /\ Send(Machine, s),
         \/ UNCHANGED timer
         \/ fsm.pc = "rearm" /\ x = "idle" /\ timer' = Restarted(fsm.plug),
         routes' \subseteq Prefix
  PROVE  PeerInv'
<1>0. Plugins /\ Timeouts /\ Events /\ Counted /\ Sole /\ Known /\ Section /\ Shown
  BY DEF PeerInv
<1>1. fsm' \in Machines /\ fsm'.pc = x /\ fsm'.plug = fsm.plug /\ fsm'.stop = fsm.stop
  BY <1>0, FsmMoves DEF Plugins
<1>2. Plugins'
  BY <1>0, <1>1 DEF Plugins
<1>3. chan' \in Seq(Event) /\ LastEvent' # "up"
  <2>1. CASE chan' = chan
    BY <1>0, <2>1 DEF Shown, LastEvent, Events
  <2>2. ASSUME NEW s \in Status, s # "up", Send(Machine, s) PROVE chan' \in Seq(Event) /\ LastEvent' # "up"
    <3>1. Machine \in {"api", "fsm", "timer"} \X Nat
      BY DEF Machine
    <3> QED
      BY <1>0, <2>2, <3>1, EventSent DEF Events
  <2> QED
    BY <2>1, <2>2
<1>4. Events'
  BY <1>0, <1>3 DEF Events
<1>5. NoEntry /\ Len(timer') + Owed' <= Len(timer) + Owed
  <2>1. Len(timer) \in Nat /\ Len(plug) \in Nat /\ fsm.plug \in 1 .. Len(plug)
    BY <1>0 DEF Timeouts, Plugins
  <2>2. CASE timer' = timer
    <3>1. NoEntry
      BY <1>0, <2>2 DEF NoEntry, Timeouts, InSect
    <3>2. Owed' <= Owed
      BY <1>1 DEF Owed
    <3> QED
      BY <2>1, <2>2, <3>1, <3>2 DEF Owed
  <2>3. CASE fsm.pc = "rearm" /\ x = "idle" /\ timer' = Restarted(fsm.plug)
    <3>1. NoEntry /\ Len(timer') = Len(timer) + 1
      BY <1>0, <2>1, <2>3, RestartNoEntry
    <3>2. Owed' + 1 = Owed /\ Owed' \in Nat
      BY <1>1, <2>3 DEF Owed
    <3> QED
      BY <2>1, <3>1, <3>2
  <2> QED
    BY <2>2, <2>3
<1>6. Timeouts'
  BY <1>5 DEF NoEntry, Timeouts
<1>7. Counted'
  <2>1. Len(timer) \in Nat /\ Len(timer') \in Nat /\ Owed \in Nat /\ Owed' \in Nat
    BY <1>0, <1>6 DEF Timeouts, Owed
  <2> QED
    BY <1>0, <1>5, <2>1, BgpAssumption DEF Counted, Plugins
<1>8. Sole'
  BY <1>0, <1>1, SoleKeeps DEF Plugins
<1>9. Section'
  BY <1>0, <1>5, SectionKeeps
<1>10. Shown'
  BY <1>1, <1>3 DEF Shown
<1>k. Known'
  BY <1>0, <1>1 DEF Known
<1> QED
  BY <1>k, <1>2, <1>4, <1>6, <1>7, <1>8, <1>9, <1>10 DEF PeerInv

\* OnEstablished: the flag is set while no timeout of the plugin is in its section.
LEMMA UpMoves ==
  ASSUME PeerInv, OnEstablished
  PROVE  PeerInv'
<1>0. Plugins /\ Timeouts /\ Events /\ Counted /\ Sole /\ Known /\ Section /\ Shown
  BY DEF PeerInv
<1>1. fsm.plug \in 1 .. Len(plug) /\ Len(plug) \in Nat /\ plug \in Seq(Plugin)
  BY <1>0 DEF OnEstablished, Plugins
<1>2. plug[fsm.plug] \in Plugin
  BY <1>1
<1>3. PICK r : r = [plug[fsm.plug] EXCEPT !.est = TRUE]
  OBVIOUS
<1>4. r \in Plugin /\ r.est /\ r.deleted = plug[fsm.plug].deleted
  BY <1>2, <1>3 DEF Plugin
<1>5. plug' = [plug EXCEPT ![fsm.plug] = r]
  BY <1>3 DEF OnEstablished
<1>6. /\ plug' \in Seq(Plugin) /\ Len(plug') = Len(plug) /\ plug'[fsm.plug] = r
      /\ \A p \in 1 .. Len(plug) : p # fsm.plug => plug'[p] = plug[p]
  BY <1>1, <1>4, <1>5, PlugChange
<1>7. /\ fsm.pc = "opened" /\ ~InSection(fsm.plug) /\ ups < mode.ups
      /\ timer' = Cancelled(fsm.plug) /\ Send(Machine, "up") /\ ups' = ups + 1
      /\ fsm' = [fsm EXCEPT !.pc = "up"]
      /\ UNCHANGED <<mode, api, hold, lock, status, registered, routes>>
  BY DEF OnEstablished
<1>8. fsm' \in Machines /\ fsm'.pc = "up" /\ fsm'.plug = fsm.plug
  BY <1>0, <1>7, FsmMoves DEF Plugins
<1>9. Plugins'
  BY <1>0, <1>6, <1>7, <1>8 DEF Plugins
<1>10. NoEntry /\ Len(timer') = Len(timer)
  BY <1>0, <1>7, CancelNoEntry
<1>11. Timeouts'
  BY <1>6, <1>10 DEF NoEntry, Timeouts
<1>12. chan' \in Seq(Event) /\ LastEvent' = "up"
  <2>1. Machine \in {"api", "fsm", "timer"} \X Nat /\ "up" \in Status
    BY DEF Machine, Status
  <2> QED
    BY <1>0, <1>7, <2>1, EventSent DEF Events
<1>13. Events'
  BY <1>0, <1>7, <1>12 DEF Events
<1>14. Counted'
  <2>1. Owed' = Owed + 1 /\ Owed \in Nat /\ Len(timer) \in Nat /\ ups \in Nat
    BY <1>0, <1>7, <1>8, BgpAssumption DEF Owed, Timeouts, Counted
  <2>2. Len(timer) + Owed <= Len(plug) + ups
    BY <1>0 DEF Counted
  <2>3. Len(timer') + Owed' <= Len(plug') + ups'
    BY <1>1, <1>6, <1>7, <1>10, <2>1, <2>2
  <2>4. mode.ups \in Nat
    BY <1>0, BgpAssumption DEF Counted
  <2>5. ups' \in 0 .. mode'.ups
    BY <1>7, <2>1, <2>4
  <2> QED
    BY <1>0, <1>6, <1>7, <2>3, <2>5 DEF Counted
<1>15. \A p \in 1 .. Len(plug) : plug'[p].deleted = plug[p].deleted
  BY <1>4, <1>6
<1>16. Sole'
  BY <1>0, <1>1, <1>6, <1>7, <1>8, <1>15, SoleKeeps
<1>17. Section'
  <2>1. \A p \in 1 .. Len(plug) :
           /\ plug'[p].deleted => plug[p].deleted \/ (mode.hasty \/ ~InSection(p))
           /\ plug'[p].est => plug[p].est \/ ~InSection(p)
    BY <1>6, <1>7, <1>15, Zenon
  <2> QED
    BY <1>0, <1>7, <1>10, <2>1, SectionKeeps
<1>18. Shown'
  BY <1>4, <1>6, <1>8, <1>12 DEF Shown
<1>k. Known'
  BY <1>0, <1>6, <1>7, <1>8 DEF Known
<1> QED
  BY <1>k, <1>9, <1>11, <1>13, <1>14, <1>16, <1>17, <1>18 DEF PeerInv

\* OnClose.
LEMMA CloseMoves ==
  ASSUME PeerInv, OnClose
  PROVE  PeerInv'
<1>0. Plugins /\ Timeouts /\ Events /\ Counted /\ Sole /\ Known /\ Section /\ Shown
  BY DEF PeerInv
<1>1. fsm.plug \in 1 .. Len(plug) /\ Len(plug) \in Nat /\ plug \in Seq(Plugin)
  BY <1>0 DEF OnClose, Plugins
<1>2. plug[fsm.plug] \in Plugin
  BY <1>1
<1>3. PICK r : r = [plug[fsm.plug] EXCEPT !.est = FALSE]
  OBVIOUS
<1>4. r \in Plugin /\ ~r.est /\ r.deleted = plug[fsm.plug].deleted
  BY <1>2, <1>3 DEF Plugin
<1>5. plug' = [plug EXCEPT ![fsm.plug] = r]
  BY <1>3 DEF OnClose
<1>6. /\ plug' \in Seq(Plugin) /\ Len(plug') = Len(plug) /\ plug'[fsm.plug] = r
      /\ \A p \in 1 .. Len(plug) : p # fsm.plug => plug'[p] = plug[p]
  BY <1>1, <1>4, <1>5, PlugChange
<1>7. /\ fsm.pc = "up"
      /\ timer' = Cancelled(fsm.plug) /\ Send(Machine, "down")
      /\ fsm' = [fsm EXCEPT !.pc = "closing"]
      /\ UNCHANGED <<mode, ups, api, hold, lock, status, registered, routes>>
  BY DEF OnClose
<1>8. fsm' \in Machines /\ fsm'.pc = "closing" /\ fsm'.plug = fsm.plug
  BY <1>0, <1>7, FsmMoves DEF Plugins
<1>9. Plugins'
  BY <1>0, <1>6, <1>7, <1>8 DEF Plugins
<1>10. NoEntry /\ Len(timer') = Len(timer)
  BY <1>0, <1>7, CancelNoEntry
<1>11. Timeouts'
  BY <1>6, <1>10 DEF NoEntry, Timeouts
<1>12. chan' \in Seq(Event) /\ LastEvent' = "down"
  <2>1. Machine \in {"api", "fsm", "timer"} \X Nat /\ "down" \in Status
    BY DEF Machine, Status
  <2> QED
    BY <1>0, <1>7, <2>1, EventSent DEF Events
<1>13. Events'
  BY <1>0, <1>7, <1>12 DEF Events
<1>14. Counted'
  <2>1. Owed' = Owed
    BY <1>7, <1>8 DEF Owed
  <2> QED
    BY <1>0, <1>6, <1>7, <1>10, <2>1 DEF Counted
<1>15. \A p \in 1 .. Len(plug) : plug'[p].deleted = plug[p].deleted
  BY <1>4, <1>6
<1>16. Sole'
  BY <1>0, <1>1, <1>6, <1>7, <1>8, <1>15, SoleKeeps
<1>17. Section'
  <2>1. \A p \in 1 .. Len(plug) :
           /\ plug'[p].deleted => plug[p].deleted \/ (mode.hasty \/ ~InSection(p))
           /\ plug'[p].est => plug[p].est \/ ~InSection(p)
    BY <1>4, <1>6, <1>15, Zenon
  <2> QED
    BY <1>0, <1>7, <1>10, <2>1, SectionKeeps
<1>18. Shown'
  BY <1>8, <1>12 DEF Shown
<1>k. Known'
  BY <1>0, <1>6, <1>7, <1>8 DEF Known
<1> QED
  BY <1>k, <1>9, <1>11, <1>13, <1>14, <1>16, <1>17, <1>18 DEF PeerInv

\* AddPeer starts the timeout and asks corebgp.
LEMMA AddToServerStep ==
  ASSUME PeerInv, AddToServer
  PROVE  PeerInv'
<1>0. Plugins /\ Timeouts /\ Events /\ Counted /\ Sole /\ Known /\ Section /\ Shown
  BY DEF PeerInv
<1>1. /\ api = "adding" /\ timer' = Restarted(Len(plug))
      /\ UNCHANGED <<mode, plug, ups, chan, hold, lock, status, registered, routes>>
  BY DEF AddToServer
<1>2. Len(plug) \in Nat /\ Len(plug) \in 1 .. Len(plug)
  BY <1>0, <1>1 DEF Plugins, Known
<1>3. NoEntry /\ Len(timer') = Len(timer) + 1
  BY <1>0, <1>1, <1>2, RestartNoEntry
<1>4. \/ fsm.plug # 0 /\ api' = "idle" /\ fsm' = fsm
      \/ fsm.plug = 0 /\ api' = "storing" /\ fsm' = [pc |-> "idle", plug |-> Len(plug), stop |-> FALSE]
  BY DEF AddToServer
<1>5. Plugins' /\ (fsm'.pc = "up" <=> fsm.pc = "up") /\ (fsm'.pc = "up" => fsm'.plug = fsm.plug)
  <2>1. CASE fsm' = fsm
    BY <1>0, <1>1, <2>1 DEF Plugins
  <2>2. CASE fsm.plug = 0 /\ fsm' = [pc |-> "idle", plug |-> Len(plug), stop |-> FALSE]
    <3>1. fsm' \in Machines /\ fsm'.pc = "idle" /\ fsm'.plug = Len(plug)
      BY <1>2, <2>2 DEF Machines
    <3> QED
      BY <1>0, <1>1, <1>2, <2>2, <3>1 DEF Plugins
  <2> QED
    BY <1>4, <2>1, <2>2
<1>6. Timeouts'
  BY <1>1, <1>3 DEF NoEntry, Timeouts
<1>7. Events'
  BY <1>0, <1>1 DEF Events
<1>8. Counted'
  <2>1. Owed = Owed' + 1 /\ Owed' \in Nat
    BY <1>0, <1>1, <1>4 DEF Owed, Plugins
  <2>2. Len(timer) \in Nat /\ ups \in Nat /\ Len(timer) + Owed <= Len(plug) + ups
    BY <1>0, BgpAssumption DEF Timeouts, Counted
  <2>3. Len(timer') + Owed' <= Len(plug') + ups'
    BY <1>1, <1>2, <1>3, <2>1, <2>2
  <2> QED
    BY <1>0, <1>1, <1>4, <2>3 DEF Counted
<1>9. Sole'
  BY <1>0, <1>1, <1>2, <1>4 DEF Sole, Known
<1>10. Known'
  BY <1>0, <1>1, <1>2, <1>4 DEF Known
<1>11. Section'
  BY <1>0, <1>1, <1>3, SectionKeeps
<1>12. Shown'
  <2>1. LastEvent' = LastEvent
    BY <1>1 DEF LastEvent
  <2> QED
    BY <1>0, <1>1, <1>5, <2>1 DEF Shown
<1> QED
  BY <1>5, <1>6, <1>7, <1>8, <1>9, <1>10, <1>11, <1>12 DEF PeerInv

\* AddPeer stores the plugin.
LEMMA AddStoreStep ==
  ASSUME PeerInv, AddStore
  PROVE  PeerInv'
<1>0. Plugins /\ Timeouts /\ Events /\ Counted /\ Sole /\ Known /\ Section /\ Shown
  BY DEF PeerInv
<1>1. /\ api = "storing" /\ registered' = Len(plug) /\ api' = "idle"
      /\ UNCHANGED <<mode, plug, timer, fsm, ups, chan, hold, lock, status, routes>>
  BY DEF AddStore
<1>2. Len(plug) \in Nat
  BY <1>0 DEF Plugins
<1>3. Plugins' /\ Timeouts' /\ Events'
  BY <1>0, <1>1, <1>2 DEF Plugins, Timeouts, Events
<1>4. Counted'
  BY <1>0, <1>1 DEF Counted, Owed
<1>5. Sole' /\ Known'
  BY <1>0, <1>1, <1>2 DEF Sole, Known
<1>6. Section'
  BY <1>0, <1>1 DEF Section, InSect
<1>7. LastEvent' = LastEvent
  BY <1>1 DEF LastEvent
<1>8. Shown'
  BY <1>0, <1>1, <1>7 DEF Shown
<1> QED
  BY <1>3, <1>4, <1>5, <1>6, <1>8 DEF PeerInv

\* DeletePeer, up to its call of corebgp.
LEMMA DeletePeerStep ==
  ASSUME PeerInv, DeletePeer
  PROVE  PeerInv'
<1>0. Plugins /\ Timeouts /\ Events /\ Counted /\ Sole /\ Known /\ Section /\ Shown
  BY DEF PeerInv
<1>1. /\ api = "idle" /\ registered # 0 /\ (InSection(registered) => mode.hasty)
      /\ timer' = Cancelled(registered)
      /\ registered' = 0 /\ status' = None /\ api' = "deleting"
      /\ UNCHANGED <<mode, fsm, ups, chan, hold, lock, routes>>
  BY DEF DeletePeer
<1>2. registered \in 1 .. Len(plug) /\ Len(plug) \in Nat /\ plug \in Seq(Plugin)
  BY <1>0, <1>1 DEF Plugins
<1>3. plug[registered] \in Plugin
  BY <1>2
<1>4. PICK r : r = [plug[registered] EXCEPT !.deleted = TRUE]
  OBVIOUS
<1>5. r \in Plugin /\ r.deleted /\ r.est = plug[registered].est
  BY <1>3, <1>4 DEF Plugin
<1>6. plug' = [plug EXCEPT ![registered] = r]
  BY <1>4 DEF DeletePeer
<1>7. /\ plug' \in Seq(Plugin) /\ Len(plug') = Len(plug) /\ plug'[registered] = r
      /\ \A p \in 1 .. Len(plug) : p # registered => plug'[p] = plug[p]
  BY <1>2, <1>5, <1>6, PlugChange
<1>8. Plugins'
  BY <1>0, <1>1, <1>2, <1>7 DEF Plugins
<1>9. NoEntry /\ Len(timer') = Len(timer)
  BY <1>0, <1>1, CancelNoEntry
<1>10. Timeouts'
  BY <1>7, <1>9 DEF NoEntry, Timeouts
<1>11. Events'
  BY <1>0, <1>1 DEF Events
<1>12. Counted'
  <2>1. Owed' = Owed
    BY <1>1 DEF Owed
  <2> QED
    BY <1>0, <1>1, <1>7, <1>9, <2>1 DEF Counted
<1>13. Known'
  BY <1>0, <1>1 DEF Known
<1>14. Sole'
  <2> SUFFICES ASSUME ~mode.again PROVE Sole'
    BY <1>1 DEF Sole
  <2>1. registered = Len(plug) /\ fsm.plug = Len(plug)
    BY <1>0, <1>1 DEF Sole, Known
  <2>2. \A p \in 1 .. Len(plug) - 1 : p # registered /\ p \in 1 .. Len(plug) /\ plug[p].deleted
    BY <1>0, <1>2, <2>1 DEF Sole
  <2>3. \A p \in 1 .. Len(plug') - 1 : plug'[p].deleted
    BY <1>7, <2>2, Zenon
  <2> QED
    BY <1>1, <1>2, <1>5, <1>7, <2>1, <2>3 DEF Sole
<1>15. Section'
  <2>1. \A p \in 1 .. Len(plug) :
           /\ plug'[p].deleted => plug[p].deleted \/ (mode.hasty \/ ~InSection(p))
           /\ plug'[p].est => plug[p].est \/ ~InSection(p)
    BY <1>1, <1>5, <1>7, Zenon
  <2> QED
    BY <1>0, <1>1, <1>9, <2>1, SectionKeeps
<1>16. Shown'
  <2>1. LastEvent' = LastEvent \/ LastEvent' = None
    BY <1>1 DEF LastEvent
  <2>2. None # "up"
    BY BgpAssumption DEF Status
  <2>3. fsm.pc = "up" => plug'[fsm.plug].est
    BY <1>0, <1>5, <1>7 DEF Shown, Plugins
  <2> QED
    BY <1>0, <1>1, <2>1, <2>2, <2>3 DEF Shown
<1> QED
  BY <1>8, <1>10, <1>11, <1>12, <1>13, <1>14, <1>15, <1>16 DEF PeerInv

\* DeletePeer, in corebgp.
LEMMA DeleteFromServerStep ==
  ASSUME PeerInv, DeleteFromServer
  PROVE  PeerInv'
<1>0. Plugins /\ Timeouts /\ Events /\ Counted /\ Sole /\ Known /\ Section /\ Shown
  BY DEF PeerInv
<1>1. /\ api = "deleting"
      /\ UNCHANGED <<mode, plug, timer, ups, chan, hold, status, registered, routes>>
  BY DEF DeleteFromServer
<1>2. \/ fsm.pc = "stopped" /\ fsm' = NoPeer /\ api' = "idle"
      \/ fsm.pc # "stopped" /\ fsm' = [fsm EXCEPT !.stop = TRUE] /\ api' = api
  BY DEF DeleteFromServer
<1>3. registered = 0 /\ fsm.plug # 0
  BY <1>0, <1>1 DEF Known
<1>4. Timeouts' /\ Events'
  BY <1>0, <1>1 DEF Timeouts, Events
<1>5. Section'
  BY <1>0, <1>1 DEF Section, InSect
<1>6. LastEvent' = LastEvent
  BY <1>1 DEF LastEvent
<1>7. CASE fsm.pc = "stopped" /\ fsm' = NoPeer /\ api' = "idle"
  <2>1. Plugins'
    BY <1>0, <1>1, <1>7 DEF Plugins, NoPeer, Machines
  <2>2. Counted'
    BY <1>0, <1>1, <1>7 DEF Counted, Owed, NoPeer
  <2>3. Sole' /\ Known'
    BY <1>0, <1>1, <1>3, <1>7 DEF Sole, Known, NoPeer
  <2>4. Shown'
    BY <1>0, <1>6, <1>7 DEF Shown, NoPeer
  <2> QED
    BY <1>4, <1>5, <2>1, <2>2, <2>3, <2>4 DEF PeerInv
<1>8. CASE fsm.pc # "stopped" /\ fsm' = [fsm EXCEPT !.stop = TRUE] /\ api' = api
  <2>1. fsm' \in Machines /\ fsm'.pc = fsm.pc /\ fsm'.plug = fsm.plug
    BY <1>0, <1>8 DEF Plugins, Machines
  <2>2. Plugins'
    BY <1>0, <1>1, <1>3, <2>1 DEF Plugins
  <2>3. Counted'
    BY <1>0, <1>1, <1>8, <2>1 DEF Counted, Owed
  <2>4. Sole' /\ Known'
    BY <1>0, <1>1, <1>8, <2>1 DEF Sole, Known
  <2>5. Shown'
    BY <1>0, <1>1, <1>6, <1>8, <2>1 DEF Shown
  <2> QED
    BY <1>4, <1>5, <2>2, <2>3, <2>4, <2>5 DEF PeerInv
<1> QED
  BY <1>2, <1>7, <1>8

\* handleUpdate.
LEMMA HandleUpdateStep ==
  ASSUME PeerInv, HandleUpdate
  PROVE  PeerInv'
<1>0. Plugins /\ Timeouts /\ Events /\ Counted /\ Sole /\ Known /\ Section /\ Shown
  BY DEF PeerInv
<1>1. UNCHANGED <<mode, plug, timer, fsm, ups, api, chan, hold, lock, status, registered>>
  BY DEF HandleUpdate
<1>2. routes' \subseteq Prefix
  BY <1>0 DEF HandleUpdate, Counted
<1>3. Plugins' /\ Timeouts' /\ Events' /\ Sole' /\ Known' /\ Section'
  BY <1>0, <1>1 DEF Plugins, Timeouts, Events, Sole, Known, Section, InSect
<1>4. Counted'
  BY <1>0, <1>1, <1>2 DEF Counted, Owed
<1>5. Shown'
  BY <1>0, <1>1 DEF Shown, LastEvent
<1> QED
  BY <1>3, <1>4, <1>5 DEF PeerInv

\* A step of the state machine other than OnEstablished and OnClose.
\* A callback of corebgp.
LEMMA CallbackStep ==
  ASSUME PeerInv,
         \/ GetCapabilities \/ OnOpenMessage \/ HandshakeFails
         \/ CloseFlush \/ CloseRearm \/ FsmStops
  PROVE  PeerInv'
<1>0. Plugins /\ routes \subseteq Prefix
  BY DEF PeerInv, Counted
<1>1. fsm.pc # "none" => fsm.plug # 0 /\ fsm.plug \in 1 .. Len(plug)
  BY <1>0 DEF Plugins
<1>2. plug \in Seq(Plugin)
  BY <1>0 DEF Plugins
<1>3. {"pending", "initializing"} \subseteq Status \ {"up"}
  BY DEF Status
<1>4. CASE GetCapabilities
  <2>1. /\ fsm.pc = "idle" /\ fsm' = [fsm EXCEPT !.pc = "connected"] /\ Send(Machine, "pending")
        /\ UNCHANGED <<mode, timer, ups, api, hold, lock, status, registered, routes>>
    BY <1>4 DEF GetCapabilities
  <2>2. PICK r : r = [plug[fsm.plug] EXCEPT !.tcp = TRUE]
    OBVIOUS
  <2>3. plug[fsm.plug] \in Plugin
    BY <1>1, <1>2, <2>1
  <2>4. r \in Plugin /\ r.deleted = plug[fsm.plug].deleted /\ r.est = plug[fsm.plug].est
    BY <2>2, <2>3 DEF Plugin
  <2>5. plug' = [plug EXCEPT ![fsm.plug] = r]
    BY <1>4, <2>2 DEF GetCapabilities
  <2>6. /\ plug' \in Seq(Plugin) /\ Len(plug') = Len(plug) /\ plug'[fsm.plug] = r
        /\ \A p \in 1 .. Len(plug) : p # fsm.plug => plug'[p] = plug[p]
    BY <1>1, <1>2, <2>1, <2>4, <2>5, PlugChange
  <2>7. \A p \in 1 .. Len(plug) :
          plug'[p].deleted = plug[p].deleted /\ plug'[p].est = plug[p].est
    BY <2>4, <2>6, Zenon
  <2> QED
    BY <1>0, <1>1, <1>3, <2>1, <2>6, <2>7, MachineMoves
<1>5. CASE OnOpenMessage
  BY <1>0, <1>1, <1>2, <1>3, <1>5, MachineMoves DEF OnOpenMessage
<1>6. CASE HandshakeFails
  BY <1>0, <1>1, <1>2, <1>6, MachineMoves DEF HandshakeFails
<1>7. CASE CloseFlush
  <2>1. PICK x \in {"idle", "rearm"} : fsm' = [fsm EXCEPT !.pc = x]
    BY <1>7 DEF CloseFlush
  <2>2. routes' \subseteq Prefix
    BY <1>7 DEF CloseFlush
  <2> QED
    BY <1>1, <1>2, <1>7, <2>1, <2>2, MachineMoves DEF CloseFlush
<1>8. CASE CloseRearm
  BY <1>0, <1>1, <1>2, <1>8, MachineMoves DEF CloseRearm
<1>9. CASE FsmStops
  BY <1>0, <1>1, <1>2, <1>9, MachineMoves DEF FsmStops
<1> QED
  BY <1>4, <1>5, <1>6, <1>7, <1>8, <1>9

-----------------------------------------------------------------------------
\* A timeout moves on.
\* One timeout goes to another stage.
LEMMA TimerMoves ==
  ASSUME Timeouts, NEW i \in DOMAIN timer, NEW s \in {"fired", "checked", "sending", "ended"},
         NEW w \in {"none", "failed", "unreachable"},
         s = "checked" => w # "none",
         timer' = [timer EXCEPT ![i] = [timer[i] EXCEPT !.stage = s, !.what = w]]
  PROVE  /\ timer' \in Seq(Timer) /\ Len(timer') = Len(timer) /\ DOMAIN timer' = DOMAIN timer
         /\ timer'[i].stage = s /\ timer'[i].what = w /\ timer'[i].plug = timer[i].plug
         /\ \A j \in DOMAIN timer : j # i => timer'[j] = timer[j]
<1>1. timer \in Seq(Timer) /\ timer[i] \in Timer
  BY DEF Timeouts
<1>2. PICK r : r = [timer[i] EXCEPT !.stage = s, !.what = w]
  OBVIOUS
<1>3. r \in Timer /\ r.stage = s /\ r.what = w /\ r.plug = timer[i].plug
  BY <1>1, <1>2 DEF Timer
<1>4. timer' = [timer EXCEPT ![i] = r]
  BY <1>2
<1>5. /\ timer' \in Seq(Timer) /\ Len(timer') = Len(timer) /\ DOMAIN timer' = DOMAIN timer
  BY <1>1, <1>3, <1>4
<1>6. timer'[i] = r
  BY <1>4
<1>7. \A j \in DOMAIN timer : j # i => timer'[j] = timer[j]
  BY <1>4
<1> QED
  BY <1>3, <1>5, <1>6, <1>7

\* The two updates of a timeout as one.
LEMMA StageSet ==
  ASSUME timer \in Seq(Timer), NEW i \in DOMAIN timer, NEW s, NEW w,
         timer' = [timer EXCEPT ![i].stage = s, ![i].what = w]
  PROVE  timer' = [timer EXCEPT ![i] = [timer[i] EXCEPT !.stage = s, !.what = w]]
<1>1. timer[i] \in Timer
  OBVIOUS
<1> QED
  BY <1>1 DEF Timer

\* A timeout that emits while a session runs would belong to a plugin that is
\* established or deleted, which Section excludes.
LEMMA TimeoutMoves ==
  ASSUME PeerInv, NEW i \in DOMAIN timer, NEW s \in {"fired", "checked", "sending", "ended"},
         NEW w \in {"none", "failed", "unreachable"},
         s = "checked" =>
           /\ w # "none"
           /\ ~plug[timer[i].plug].deleted /\ ~plug[timer[i].plug].est,
         s = "sending" => timer[i].stage = "checked",
         timer' = [timer EXCEPT ![i].stage = s, ![i].what = w],
         chan' = chan \/ (s = "sending" /\ Send(<<"timer", i>>, timer[i].what)),
         UNCHANGED <<mode, plug, fsm, ups, api, hold, lock, status, registered, routes>>
  PROVE  PeerInv'
<1>0. Plugins /\ Timeouts /\ Events /\ Counted /\ Sole /\ Known /\ Section /\ Shown
  BY DEF PeerInv
<1>1. timer \in Seq(Timer)
  BY <1>0 DEF Timeouts
<1>2. /\ timer' \in Seq(Timer) /\ Len(timer') = Len(timer) /\ DOMAIN timer' = DOMAIN timer
      /\ timer'[i].stage = s /\ timer'[i].what = w /\ timer'[i].plug = timer[i].plug
      /\ \A j \in DOMAIN timer : j # i => timer'[j] = timer[j]
  <2>1. timer' = [timer EXCEPT ![i] = [timer[i] EXCEPT !.stage = s, !.what = w]]
    BY <1>1, StageSet
  <2>2. s = "checked" => w # "none"
    OBVIOUS
  <2> QED
    BY <1>0, <2>1, <2>2, TimerMoves
<1>3. Plugins'
  BY <1>0 DEF Plugins
<1>4. Timeouts'
  BY <1>0, <1>2 DEF Timeouts
<1>5. Counted'
  BY <1>0, <1>2 DEF Counted, Owed
<1>6. Sole' /\ Known'
  BY <1>0 DEF Sole, Known
<1>7. Section'
  <2> SUFFICES ASSUME ~mode.hasty, NEW j \in DOMAIN timer, InSect(j)'
               PROVE  ~plug[timer'[j].plug].deleted /\ ~plug[timer'[j].plug].est
    BY <1>2 DEF Section
  <2>1. CASE j = i
    BY <1>0, <1>2, <2>1 DEF Section, InSect
  <2>2. CASE j # i
    BY <1>0, <1>2, <2>2 DEF Section, InSect
  <2> QED
    BY <2>1, <2>2
<1>8. CASE chan' = chan
  <2>1. LastEvent' = LastEvent
    BY <1>8 DEF LastEvent
  <2>2. Events' /\ Shown'
    BY <1>0, <1>8, <2>1 DEF Events, Shown
  <2> QED
    BY <1>3, <1>4, <1>5, <1>6, <1>7, <2>2 DEF PeerInv
<1>9. CASE s = "sending" /\ Send(<<"timer", i>>, timer[i].what)
  <2>1. timer[i].what \in {"failed", "unreachable"} /\ timer[i].plug \in 1 .. Len(plug)
    <3>1. timer[i] \in Timer
      BY <1>1
    <3>2. timer[i].what \in {"none", "failed", "unreachable"}
      BY <3>1 DEF Timer
    <3> QED
      BY <1>0, <1>9, <3>2 DEF Timeouts
  <2>2. <<"timer", i>> \in {"api", "fsm", "timer"} \X Nat /\ timer[i].what \in Status
    BY <1>1, <2>1 DEF Status
  <2>3. chan' \in Seq(Event) /\ LastEvent' = timer[i].what
    BY <1>0, <1>9, <2>2, EventSent DEF Events
  <2>4. Events'
    BY <1>0, <2>3 DEF Events
  <2>5. ~(~mode.again /\ ~mode.hasty /\ fsm.pc = "up")
    <3> SUFFICES ASSUME ~mode.again, ~mode.hasty, fsm.pc = "up" PROVE FALSE
      OBVIOUS
    <3>1. ~plug[timer[i].plug].deleted /\ ~plug[timer[i].plug].est
      BY <1>0, <1>9 DEF Section, InSect
    <3>2. Len(plug) \in Nat /\ fsm.plug = Len(plug) /\ plug[fsm.plug].est
      BY <1>0 DEF Plugins, Sole, Shown
    <3>3. timer[i].plug # Len(plug)
      BY <3>1, <3>2
    <3>4. timer[i].plug \in 1 .. Len(plug) - 1
      BY <2>1, <3>2, <3>3
    <3> QED
      BY <1>0, <3>1, <3>4 DEF Sole
  <2>6. Shown'
    BY <1>0, <2>1, <2>3, <2>5 DEF Shown
  <2> QED
    BY <1>3, <1>4, <1>5, <1>6, <1>7, <2>4, <2>6 DEF PeerInv
<1> QED
  BY <1>8, <1>9

\* A step of a timeout goroutine.
LEMMA TimeoutStep ==
  ASSUME PeerInv, NEW i \in DOMAIN timer, Timeout(i)
  PROVE  PeerInv'
<1>1. timer[i] \in Timer /\ timer[i].plug \in 1 .. Len(plug) /\ plug \in Seq(Plugin)
  BY DEF PeerInv, Timeouts, Plugins
<1>2. timer[i].what \in {"none", "failed", "unreachable"}
  BY <1>1 DEF Timer
<1>3. plug[timer[i].plug] \in Plugin
  BY <1>1
<1>4. ASSUME NEW s \in {"fired", "checked", "sending", "ended"}, SetStage(i, s)
      PROVE  \E w \in {"none", "failed", "unreachable"} :
               timer' = [timer EXCEPT ![i].stage = s, ![i].what = w]
  <2>1. CASE s = "ended"
    BY <1>4, <2>1 DEF SetStage
  <2>2. CASE s # "ended"
    <3>1. timer' = [timer EXCEPT ![i].stage = s, ![i].what = timer[i].what]
      BY <1>1, <1>4, <2>2 DEF SetStage, Timer
    <3> QED
      BY <1>2, <3>1
  <2> QED
    BY <2>1, <2>2
<1>5. CASE Fire(i)
  <2>1. PICK w \in {"none", "failed", "unreachable"} :
               timer' = [timer EXCEPT ![i].stage = "fired", ![i].what = w]
    BY <1>4, <1>5 DEF Fire
  <2> QED
    BY <1>5, <2>1, TimeoutMoves DEF Fire
<1>6. CASE Check(i)
  <2>1. CASE SetStage(i, "ended")
    <3>1. PICK w \in {"none", "failed", "unreachable"} :
               timer' = [timer EXCEPT ![i].stage = "ended", ![i].what = w]
      BY <1>4, <2>1
    <3> QED
      BY <1>6, <3>1, TimeoutMoves DEF Check
  <2>2. CASE ~(plug[timer[i].plug].deleted \/ plug[timer[i].plug].est)
    <3>1. PICK w \in {"failed", "unreachable"} :
               timer' = [timer EXCEPT ![i].stage = "checked", ![i].what = w]
      BY <1>6, <2>2 DEF Check
    <3> QED
      BY <1>6, <2>2, <3>1, TimeoutMoves DEF Check
  <2> QED
    BY <1>6, <2>1, <2>2 DEF Check
<1>7. CASE Emit(i)
  <2>1. PICK w \in {"none", "failed", "unreachable"} :
               timer' = [timer EXCEPT ![i].stage = "sending", ![i].what = w]
    BY <1>4, <1>7 DEF Emit
  <2> QED
    BY <1>7, <2>1, TimeoutMoves DEF Emit
<1>8. CASE Emitted(i)
  <2>1. PICK w \in {"none", "failed", "unreachable"} :
               timer' = [timer EXCEPT ![i].stage = "ended", ![i].what = w]
    BY <1>4, <1>8 DEF Emitted
  <2> QED
    BY <1>8, <2>1, TimeoutMoves DEF Emitted
<1> QED
  BY <1>5, <1>6, <1>7, <1>8 DEF Timeout

-----------------------------------------------------------------------------
\* Taking and storing an event leaves the last one the last.
LEMMA ConsumerStep ==
  ASSUME PeerInv, Consumer
  PROVE  PeerInv'
<1>0. Plugins /\ Timeouts /\ Events /\ Counted /\ Sole /\ Known /\ Section /\ Shown
  BY DEF PeerInv
<1>1. UNCHANGED <<mode, plug, timer, fsm, ups, api, lock, registered, routes>>
  BY DEF Consumer, Take, Store
<1>2. Plugins' /\ Timeouts' /\ Counted' /\ Sole' /\ Known' /\ Section'
  BY <1>0, <1>1 DEF Plugins, Timeouts, Counted, Owed, Sole, Known, Section, InSect
<1>3. None \notin Status
  BY BgpAssumption
<1>4. Events' /\ LastEvent' = LastEvent
  <2>1. CASE Take
    <3>1. hold = None /\ chan # <<>> /\ hold' = Head(chan).status /\ chan' = Tail(chan) /\ status' = status
      BY <2>1 DEF Take
    <3>2. chan \in Seq(Event) /\ Head(chan) = chan[1] /\ chan[1] \in Event /\ Len(chan) \in Nat \ {0}
      BY <1>0, <3>1 DEF Events
    <3>3. chan[1].status \in Status
      BY <3>2 DEF Event
    <3>4. Events'
      BY <1>0, <3>1, <3>2, <3>3 DEF Events
    <3>5. CASE Len(chan) = 1
      <4>1. chan' = <<>>
        BY <3>1, <3>2, <3>5
      <4> QED
        BY <1>3, <3>1, <3>2, <3>3, <3>4, <3>5, <4>1 DEF LastEvent
    <3>6. CASE Len(chan) # 1
      <4>0. chan' \in Seq(Event) /\ Len(chan') = Len(chan) - 1
        BY <3>1, <3>2
      <4>1. Len(chan') \in Nat \ {0} /\ Len(chan') = Len(chan) - 1 /\ chan' # <<>>
        BY <3>2, <3>6, <4>0
      <4>2. \A j \in 1 .. Len(chan) - 1 : chan'[j] = chan[j + 1]
        BY <3>1, <3>2
      <4>3. chan'[Len(chan')] = chan[Len(chan)]
        BY <3>2, <4>1, <4>2
      <4> QED
        BY <3>1, <3>4, <4>1, <4>3 DEF LastEvent
    <3> QED
      BY <3>5, <3>6
  <2>2. CASE Store
    BY <1>0, <2>2 DEF Store, Events, LastEvent
  <2> QED
    BY <2>1, <2>2 DEF Consumer
<1>5. Shown'
  BY <1>0, <1>1, <1>4 DEF Shown
<1> QED
  BY <1>2, <1>4, <1>5 DEF PeerInv

\* Every step keeps the invariant,
LEMMA PeerStep ==
  ASSUME PeerInv, [Next]_vars
  PROVE  PeerInv'
<1>1. CASE AddPeer
  BY <1>1, AddPeerStep
<1>2. CASE DeletePeer
  BY <1>2, DeletePeerStep
<1>3. CASE Api
  BY <1>3, AddToServerStep, AddStoreStep, DeleteFromServerStep DEF Api
<1>4. CASE GetCapabilities \/ OnOpenMessage \/ HandshakeFails
  BY <1>4, CallbackStep
<1>5. CASE HandleUpdate
  BY <1>5, HandleUpdateStep
<1>6. CASE Callback
  BY <1>6, UpMoves, CloseMoves, CallbackStep DEF Callback
<1>7. CASE \E i \in DOMAIN timer : Timeout(i)
  BY <1>7, TimeoutStep
<1>8. CASE Consumer
  BY <1>8, ConsumerStep
<1>9. CASE UNCHANGED vars
  BY <1>9 DEF vars, PeerInv, Plugins, Timeouts, Events, Counted, Owed, Sole, Known, Section, InSect,
              Shown, LastEvent
<1> QED
  BY <1>1, <1>2, <1>3, <1>4, <1>5, <1>6, <1>7, <1>8, <1>9 DEF Next

\* which holds at the start,
LEMMA PeerStart ==
  ASSUME Init
  PROVE  PeerInv
<1>1. Plugins /\ Timeouts /\ Events
  BY DEF Init, Plugins, Machines, NoPeer, Timeouts, Events
<1>2. Counted
  BY BgpAssumption DEF Init, Counted, Owed, NoPeer
<1>3. Sole /\ Known /\ Section
  BY DEF Init, Sole, Known, Section, NoPeer
<1>4. Shown
  BY BgpAssumption DEF Init, Shown, LastEvent, NoPeer, Status
<1> QED
  BY <1>1, <1>2, <1>3, <1>4 DEF PeerInv

\* and gives the property.
LEMMA PeerShows ==
  ASSUME PeerInv
  PROVE  StatusMatchesPeer
<1>0. Plugins /\ Timeouts /\ Events /\ Counted /\ Shown
  BY DEF PeerInv
<1>1. TypeOK
  <2>1. Len(plug) <= mode.adds /\ mode.adds \in Nat /\ mode.ups \in Nat /\ ups \in 0 .. mode.ups
    BY <1>0, BgpAssumption DEF Counted
  <2>2. Len(timer) + Owed <= Len(plug) + ups /\ Owed \in Nat /\ Len(timer) \in Nat /\ Len(plug) \in Nat
    BY <1>0 DEF Counted, Owed, Timeouts, Plugins
  <2>3. Len(timer) <= mode.adds + mode.ups
    BY <2>1, <2>2
  <2>4. \A i \in DOMAIN chan : chan[i].status \in Status
    <3>1. \A i \in DOMAIN chan : chan[i] \in Event
      BY <1>0 DEF Events
    <3> QED
      BY <3>1 DEF Event
  <2> QED
    BY <1>0, <2>1, <2>3, <2>4 DEF TypeOK, Plugins, Events, Counted
<1>2. Quiet => LastEvent = status
  BY DEF Quiet, LastEvent
<1>3. fsm = NoPeer => fsm.pc # "up"
  BY DEF NoPeer
<1>4. Quiet => api # "deleting"
  BY DEF Quiet
<1> QED
  BY <1>0, <1>1, <1>2, <1>3, <1>4 DEF Shown, StatusMatchesPeer

\* For any bounds, prefixes and environments, once every event has been
\* consumed the status the BGP server shows is that of the peer: a deleted peer
\* is not shown as Up by an event that was still on its way, and no timeout,
\* however late, overwrites the Up of a running session (bgp.go AddPeer,
\* DeletePeer, Serve; plugin.go emitTimeoutStatus, OnEstablished, OnClose).
THEOREM ServerStatusMatchesPeer == Spec => []StatusMatchesPeer
<1>1. Init => PeerInv
  BY PeerStart
<1>2. PeerInv /\ [Next]_vars => PeerInv'
  BY PeerStep
<1>3. PeerInv => StatusMatchesPeer
  BY PeerShows
<1> QED
  BY <1>1, <1>2, <1>3, PTL DEF Spec
=============================================================================
