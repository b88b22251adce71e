------------------------- MODULE LivenessPairProofs -------------------------
(***************************************************************************)
(* Proofs about LivenessPair, for every two hosts, every configuration     *)
(* that ManagerConfig.Validate accepts, any number of restarts with any    *)
(* non-zero discriminators and any bound on the packets in flight.         *)
(***************************************************************************)
EXTENDS LivenessPair, FiniteSetTheorems, TLAPS

Sess == SessionType(Discr, Nat, -Horizon .. Horizon)
Time == -Horizon .. Horizon \cup {NoTime}

\* Both ends of a claim to have been heard: who names a peer has heard it.
NamesHeard(local, peer) == peer # 0 => <<local, peer>> \in heard

\* The inductive invariant.  A packet in flight outlives the session that
\* sent it, so it carries the claim on its own.
IInv ==
  /\ UpMeansHandshake
  /\ IsFiniteSet(net)
  /\ \A h \in Host : NamesHeard(sess[h].localDiscr, sess[h].peerDiscr)
  /\ \A m \in net : NamesHeard(m.pkt.localDiscr, m.pkt.peerDiscr)

-----------------------------------------------------------------------------
(* The configuration and its bounds *)

USE DEF State, AdminDown, Down, Init_, Up

\* The numbers of a configuration that passed Validate.
LEMMA CfgFacts ==
  ASSUME scenario \in Scenario
  PROVE  /\ Cfg.detectMult \in Nat /\ Cfg.txMin \in Nat /\ Cfg.rxMin \in Nat
         /\ Cfg.minTxFloor \in Nat /\ Cfg.maxTxCeil \in Nat /\ Cfg.backoffMax \in Nat
         /\ Cfg.detectMult > 0 /\ Cfg.minTxFloor > 0 /\ Cfg.backoffMax > 0
         /\ Cfg.maxTxCeil >= Cfg.minTxFloor
BY PairAssumption DEF Cfg, ValidConfig, SessionConfig

\* The two hosts have each other, and discriminators are not zero.
LEMMA HostFacts ==
  ASSUME scenario \in Scenario
  PROVE  /\ \A h \in Host : Other(h) \in Host
         /\ Discr \subseteq Nat \ {0}
         /\ \A h \in Host : \A i \in 1 .. Len(Discrs[h]) : Discrs[h][i] \in Discr
         /\ \A h \in Host : Discrs[h][1] \in Discr
<1>1. ASSUME NEW h \in Host PROVE Other(h) \in Host
  <2>1. Host # {h}
    <3>1. Cardinality({h}) = 1
      BY FS_Singleton
    <3>2. Cardinality(Host) = 2
      BY PairAssumption
    <3>3. Host = {h} => Cardinality(Host) = 1
      BY <3>1, Zenon
    <3>. QED  BY <3>2, <3>3
  <2>2. \E p \in Host : p # h
    BY <2>1
  <2>. QED  BY <2>2 DEF Other
<1>2. /\ Discrs \in [Host -> Seq(Nat \ {0})]
      /\ \A h \in Host : Discrs[h] # <<>>
  BY PairAssumption DEF Discrs
<1>3. ASSUME NEW h \in Host
      PROVE  /\ Discrs[h] \in Seq(Nat \ {0}) /\ Discrs[h] # <<>>
             /\ 1 \in 1 .. Len(Discrs[h])
             /\ \A i \in 1 .. Len(Discrs[h]) : Discrs[h][i] \in Nat \ {0}
  BY <1>2
<1>. QED  BY <1>1, <1>3 DEF Discr

\* The detect time of a session is at most the horizon.
LEMMA DetectTimeBounded ==
  ASSUME scenario \in Scenario, NEW s, s.peerTxMin \in Nat
  PROVE  /\ Horizon \in Nat
         /\ DetectTime(Cfg, s) \in 0 .. Horizon
<1>1. RxInterval(Cfg, s) \in Nat /\ RxInterval(Cfg, s) <= Cfg.maxTxCeil
  BY CfgFacts DEF RxInterval, Bounded, Larger, Smaller
<1>2. \A m, a, b \in Nat : a <= b => m * a \in Nat /\ m * b \in Nat /\ m * a <= m * b
  OBVIOUS
<1>. QED  BY <1>1, <1>2, CfgFacts DEF DetectTime, Horizon

\* ComputeNextTx picks a moment between now and the longest interval.
LEMMA NextTxBounded ==
  ASSUME scenario \in Scenario, NEW s, s.peerRxMin \in Nat, s.backoffFactor \in Nat
  PROVE  NextTxTimes(Cfg, s, 0) \subseteq 0 .. MaxTx
<1> DEFINE base == TxInterval(Cfg, s)
           eff == base * Larger(s.backoffFactor, 1)
           longest == Larger(Cfg.backoffMax, Cfg.maxTxCeil)
<1>1. base \in Nat /\ base <= Cfg.maxTxCeil
  BY CfgFacts DEF TxInterval, Bounded, Larger, Smaller
<1>2. eff \in Nat
  BY <1>1 DEF Larger
<1>3. longest \in Nat /\ Cfg.backoffMax <= longest /\ Cfg.maxTxCeil <= longest
  BY CfgFacts DEF Larger
<1>4. EffectiveTx(Cfg, s) \in 0 .. longest
  <2> HIDE DEF base, eff, longest
  <2>1. EffectiveTx(Cfg, s) \in {base, Smaller(eff, Cfg.backoffMax)}
    BY CfgFacts DEF EffectiveTx, base, eff
  <2>. QED  BY <1>1, <1>2, <1>3, <2>1, CfgFacts DEF Smaller
<1> HIDE DEF longest
<1>5. \A e \in 0 .. longest : \A d \in -(e \div 10) .. (e \div 10) :
        0 + e + d \in 0 .. longest + longest \div 10
  BY <1>3
<1>. QED  BY <1>4, <1>5 DEF NextTxTimes, MaxTx, longest

-----------------------------------------------------------------------------
(* Sessions *)

\* Assigning a value of the right kind to a field keeps a record a session.
LEMMA FieldTypes ==
  ASSUME NEW s \in Sess
  PROVE  /\ \A v \in State : [s EXCEPT !.state = v] \in Sess
         /\ \A v \in DownReason : [s EXCEPT !.downReason = v] \in Sess
         /\ \A v \in PeerMode : [s EXCEPT !.peerMode = v] \in Sess
         /\ \A v \in Time : [s EXCEPT !.upSince = v] \in Sess
         /\ \A v \in Time : [s EXCEPT !.detectDeadline = v] \in Sess
         /\ \A v \in Time : [s EXCEPT !.lastRx = v] \in Sess
         /\ \A v \in Discr \cup {0} : [s EXCEPT !.peerDiscr = v] \in Sess
         /\ \A v \in Nat : [s EXCEPT !.peerTxMin = v] \in Sess
         /\ \A v \in Nat : [s EXCEPT !.peerRxMin = v] \in Sess
         /\ \A v \in Nat : [s EXCEPT !.backoffFactor = v] \in Sess
BY DEF Sess, SessionType, Time

\* The values that the operators on sessions assign are of the right kind.
LEMMA ValueTypes ==
  ASSUME scenario \in Scenario
  PROVE  /\ AdminDown \in State /\ Down \in State /\ Init_ \in State /\ Up \in State
         /\ {"none", "timeout", "remote_admin", "local_admin", "remote_down"} \subseteq DownReason
         /\ "passive" \in PeerMode /\ "active" \in PeerMode
         /\ 0 \in Time /\ NoTime \in Time /\ 1 \in Nat /\ 0 \in Discr \cup {0}
<1>1. Horizon \in Nat
  BY CfgFacts DEF Horizon
<1>. QED  BY <1>1 DEF DownReason, PeerMode, Time

\* A session as RegisterRoute makes it.
LEMMA NewSessionType ==
  ASSUME scenario \in Scenario, NEW d \in Discr
  PROVE  NewSession(d) \in Sess
BY DEF NewSession, Sess, SessionType, DownReason, PeerMode

\* Computing the next transmission only changes the backoff factor.
LEMMA AfterComputeNextTxFacts ==
  ASSUME NEW s \in Sess
  PROVE  LET u == AfterComputeNextTx(Cfg, s) IN
         /\ u \in Sess
         /\ u.state = s.state
         /\ u.localDiscr = s.localDiscr /\ u.peerDiscr = s.peerDiscr
<1>1. /\ Larger(s.backoffFactor, 1) \in Nat
      /\ 2 * Larger(s.backoffFactor, 1) \in Nat
      /\ 1 \in Nat
  BY DEF Larger, Sess, SessionType
<1>2. \E f \in Nat : AfterComputeNextTx(Cfg, s) = [s EXCEPT !.backoffFactor = f]
  BY <1>1, Zenon DEF AfterComputeNextTx
<1>. QED  BY <1>2 DEF Sess, SessionType

\* A change of a session on the way to another state or deadline that leaves
\* the discriminators alone.
SameDiscrs(u, s) == u.localDiscr = s.localDiscr /\ u.peerDiscr = s.peerDiscr

\* Falling to Down keeps the discriminators.
LEMMA GoDownFacts ==
  ASSUME scenario \in Scenario, NEW s \in Sess, NEW r \in DownReason
  PROVE  /\ GoDown(s, r) \in Sess /\ SameDiscrs(GoDown(s, r), s)
         /\ GoDown(s, r).state = Down
<1>1. GoDown(s, r) \in Sess
  BY FieldTypes, ValueTypes, Zenon DEF GoDown
<1>. QED  BY <1>1 DEF GoDown, SameDiscrs, Sess, SessionType

\* So do AdminDownRoute and the loss of the fields kept for status output.
LEMMA StripFacts ==
  ASSUME scenario \in Scenario, NEW s \in Sess
  PROVE  /\ Strip(s) \in Sess /\ SameDiscrs(Strip(s), s) /\ Strip(s).state = s.state
         /\ GoAdminDown(s) \in Sess /\ SameDiscrs(GoAdminDown(s), s)
         /\ GoAdminDown(s).state = AdminDown
<1>1. Strip(s) \in Sess
  BY FieldTypes, ValueTypes, Zenon DEF Strip
<1>2. GoAdminDown(s) \in Sess
  BY FieldTypes, ValueTypes, Zenon DEF GoAdminDown
<1>3. SameDiscrs(Strip(s), s) /\ Strip(s).state = s.state
  BY DEF Strip, SameDiscrs, Sess, SessionType
<1>4. SameDiscrs(GoAdminDown(s), s) /\ GoAdminDown(s).state = AdminDown
  BY DEF GoAdminDown, SameDiscrs, Sess, SessionType
<1>. QED  BY <1>1, <1>2, <1>3, <1>4

\* Pushing out a passed deadline changes nothing else.
LEMMA ArmDetectFacts ==
  ASSUME scenario \in Scenario, NEW s \in Sess
  PROVE  LET u == ArmDetect(Cfg, s, 0) IN
         u \in Sess /\ SameDiscrs(u, s) /\ u.state = s.state
<1>1. 0 + DetectTime(Cfg, s) \in Time
  <2>1. s.peerTxMin \in Nat
    BY DEF Sess, SessionType
  <2>. QED  BY <2>1, DetectTimeBounded DEF Time
<1>2. \E t \in Time : ArmDetect(Cfg, s, 0) \in {s, [s EXCEPT !.detectDeadline = t]}
  BY <1>1, Zenon DEF ArmDetect
<1>3. PICK t \in Time : ArmDetect(Cfg, s, 0) \in {s, [s EXCEPT !.detectDeadline = t]}
  BY <1>2
<1>4. [s EXCEPT !.detectDeadline = t] \in Sess
  BY FieldTypes, Zenon
<1>5. /\ SameDiscrs([s EXCEPT !.detectDeadline = t], s)
      /\ [s EXCEPT !.detectDeadline = t].state = s.state
  BY DEF SameDiscrs, Sess, SessionType
<1>6. SameDiscrs(s, s)
  BY DEF SameDiscrs
<1>. QED  BY <1>3, <1>4, <1>5, <1>6

\* What Refresh leaves behind: the peer's discriminator is the known one or
\* the sender's.
LEMMA RefreshFacts ==
  ASSUME scenario \in Scenario, NEW s \in Sess, NEW pkt \in Packet
  PROVE  LET u == Refresh(Cfg, s, 0, pkt) IN
         /\ u \in Sess
         /\ u.state = s.state /\ u.localDiscr = s.localDiscr
         /\ u.peerDiscr \in {s.peerDiscr, pkt.localDiscr}
<1> DEFINE pd == IF s.peerDiscr = 0 THEN pkt.localDiscr ELSE s.peerDiscr
           ct == ClampPeer(Cfg, pkt.txMin)
           cr == ClampPeer(Cfg, pkt.rxMin)
           v  == [s EXCEPT !.peerDiscr = pd, !.peerTxMin = ct,
                           !.peerRxMin = cr, !.lastRx = 0]
           d  == 0 + DetectTime(Cfg, v)
           u  == [v EXCEPT !.detectDeadline = d]
<1>1. ct \in Nat /\ cr \in Nat
  <2>1. pkt.txMin \in Nat /\ pkt.rxMin \in Nat
    BY CfgFacts DEF Packet, PacketType
  <2>. QED  BY <2>1, CfgFacts DEF ClampPeer, Smaller
<1>2. pd \in Discr \cup {0} /\ pd \in {s.peerDiscr, pkt.localDiscr}
  BY DEF Packet, PacketType, Sess, SessionType
<1> HIDE DEF pd, ct, cr
<1>3. v \in Sess
  BY <1>1, <1>2, ValueTypes, FieldTypes, Zenon
<1>4. v.state = s.state /\ v.localDiscr = s.localDiscr /\ v.peerDiscr = pd
  BY DEF Sess, SessionType
<1>5. v.peerTxMin \in Nat
  BY <1>3 DEF Sess, SessionType
<1> HIDE DEF v
<1>6. d \in Time
  BY <1>5, DetectTimeBounded DEF Time
<1>7. u \in Sess
  BY <1>3, <1>6, FieldTypes, Zenon
<1>8. u.state = v.state /\ u.localDiscr = v.localDiscr /\ u.peerDiscr = v.peerDiscr
  BY <1>3 DEF Sess, SessionType
<1>9. Refresh(Cfg, s, 0, pkt) = u
  BY DEF Refresh, v, pd, ct, cr
<1> HIDE DEF u
<1>. QED  BY <1>2, <1>4, <1>7, <1>8, <1>9

\* What a packet may do to a session: name its sender as the peer, and bring
\* it Up only by echoing the session's own discriminator.
Learns(u, s, pkt) ==
  /\ u \in Sess
  /\ u.localDiscr = s.localDiscr
  /\ u.peerDiscr \in {s.peerDiscr, pkt.localDiscr}
  /\ u.state = Up => s.state = Up \/ pkt.peerDiscr = s.localDiscr

\* The handshake step comes Up only on an echo of the own discriminator.
LEMMA AdvanceFacts ==
  ASSUME scenario \in Scenario, NEW s \in Sess, NEW pkt \in Packet
  PROVE  Learns(Advance(s, 0, pkt), s, pkt)
<1> DEFINE w == [s EXCEPT !.peerDiscr = pkt.localDiscr]
<1>1. GoUp(s, 0) \in Sess /\ GoInit(s) \in Sess
  BY ValueTypes, FieldTypes, Zenon DEF GoUp, GoInit
<1>2. w \in Sess
  <2>1. pkt.localDiscr \in Discr \cup {0}
    BY DEF Packet, PacketType
  <2>. QED  BY <2>1, FieldTypes, Zenon
<1>3. SameDiscrs(GoUp(s, 0), s) /\ SameDiscrs(GoInit(s), s) /\ GoInit(s).state = Init_
  BY DEF GoUp, GoInit, SameDiscrs, Sess, SessionType
<1>4. /\ w.localDiscr = s.localDiscr /\ w.peerDiscr = pkt.localDiscr
      /\ w.state = s.state
  BY DEF Sess, SessionType
<1> HIDE DEF w
<1>5. \/ Advance(s, 0, pkt) = GoUp(s, 0) /\ Echoes(s, pkt)
      \/ Advance(s, 0, pkt) = GoInit(s)
      \/ Advance(s, 0, pkt) = w
      \/ Advance(s, 0, pkt) = s
  BY DEF Advance, w
<1>. QED  BY <1>1, <1>2, <1>3, <1>4, <1>5 DEF Echoes, SameDiscrs, Learns

\* Session.HandleRx: a rejected packet teaches nothing at all.
LEMMA HandleRxFacts ==
  ASSUME scenario \in Scenario, NEW s \in Sess, NEW pkt \in Packet
  PROVE  /\ Learns(HandleRx(Cfg, s, 0, pkt), s, pkt)
         /\ Rejects(s, pkt) => HandleRx(Cfg, s, 0, pkt) = s
<1> DEFINE v == LearnMode(s, pkt)
           r == Refresh(Cfg, v, 0, pkt)
<1>1. v \in Sess /\ v.state = s.state /\ SameDiscrs(v, s)
  <2>1. v \in Sess
    BY ValueTypes, FieldTypes, Zenon DEF LearnMode
  <2>. QED  BY <2>1 DEF LearnMode, SameDiscrs, Sess, SessionType
<1> HIDE DEF v
<1>2. /\ r \in Sess /\ r.state = v.state /\ r.localDiscr = v.localDiscr
      /\ r.peerDiscr \in {v.peerDiscr, pkt.localDiscr}
  BY <1>1, RefreshFacts
<1> HIDE DEF r
<1>3. CASE Rejects(s, pkt)
  BY <1>3 DEF HandleRx, Learns
<1>4. CASE ~Rejects(s, pkt) /\ pkt.state = AdminDown
  <2>1. HandleRx(Cfg, s, 0, pkt) = GoDown(v, "remote_admin")
    BY <1>4 DEF HandleRx, v
  <2>2. /\ GoDown(v, "remote_admin") \in Sess
        /\ SameDiscrs(GoDown(v, "remote_admin"), v)
        /\ GoDown(v, "remote_admin").state = Down
    BY <1>1, GoDownFacts, ValueTypes
  <2>. QED  BY <1>1, <1>4, <2>1, <2>2 DEF SameDiscrs, Learns
<1>5. CASE ~Rejects(s, pkt) /\ pkt.state = Down /\ Active(v)
  <2>1. HandleRx(Cfg, s, 0, pkt) \in {v, GoDown(v, "remote_down")}
    BY <1>5 DEF HandleRx, v
  <2>2. /\ GoDown(v, "remote_down") \in Sess
        /\ SameDiscrs(GoDown(v, "remote_down"), v)
        /\ GoDown(v, "remote_down").state = Down
    BY <1>1, GoDownFacts, ValueTypes
  <2>. QED  BY <1>1, <1>5, <2>1, <2>2 DEF SameDiscrs, Learns
<1>6. CASE /\ ~Rejects(s, pkt) /\ pkt.state # AdminDown
           /\ ~(pkt.state = Down /\ Active(v))
  <2>1. HandleRx(Cfg, s, 0, pkt) = Advance(r, 0, pkt)
    BY <1>6 DEF HandleRx, v, r
  <2>2. Learns(Advance(r, 0, pkt), r, pkt)
    BY <1>2, AdvanceFacts
  <2>. QED  BY <1>1, <1>2, <1>6, <2>1, <2>2 DEF SameDiscrs, Learns
<1>. QED  BY <1>3, <1>4, <1>5, <1>6

\* manager.HandleRx: the same, with the deadline armed afterwards.
LEMMA ReceivedFacts ==
  ASSUME scenario \in Scenario, NEW s \in Sess, NEW pkt \in Packet
  PROVE  /\ Learns(Received(s, pkt), s, pkt)
         /\ Rejects(s, pkt) => /\ SameDiscrs(Received(s, pkt), s)
                               /\ Received(s, pkt).state = s.state
<1> DEFINE t == HandleRx(Cfg, s, 0, pkt)
           u == IF Active(t) THEN ArmDetect(Cfg, t, 0) ELSE t
<1>1. Learns(t, s, pkt) /\ (Rejects(s, pkt) => t = s)
  BY HandleRxFacts
<1>2. Received(s, pkt) = Strip(u)
  BY DEF Received
<1> HIDE DEF t
<1>3. t \in Sess
  BY <1>1 DEF Learns
<1>4. u \in Sess /\ SameDiscrs(u, t) /\ u.state = t.state
  BY <1>3, ArmDetectFacts DEF SameDiscrs
<1> HIDE DEF u
<1>5. Strip(u) \in Sess /\ SameDiscrs(Strip(u), u) /\ Strip(u).state = u.state
  BY <1>4, StripFacts
<1>. QED  BY <1>1, <1>2, <1>4, <1>5 DEF Learns, SameDiscrs

-----------------------------------------------------------------------------
(* The inductive invariant *)

\* A step that leaves the network and the history alone, gives every session
\* of a host the discriminators it had or none for the peer, and brings none Up,
\* preserves the claims.
LEMMA SessionStep ==
  ASSUME IInv, UNCHANGED <<scenario, stable, cut, heard>>,
         sess' \in [Host -> Sess], tx' \in [Host -> 0 .. MaxTx \cup {NoTime}],
         urgent' \in [Host -> BOOLEAN],
         \A h \in Host :
           \/ SameDiscrs(sess'[h], sess[h]) /\ (sess'[h].state = Up => sess[h].state = Up)
           \/ sess'[h].peerDiscr = 0 /\ sess'[h].state # Up,
         IsFiniteSet(net'), Cardinality(net') <= scenario.maxNet,
         \A m \in net' : m \in net \/ \E h \in Host :
           m = [to |-> Other(h), pkt |-> ControlPacket(Cfg, sess[h], FALSE)]
  PROVE  IInv'
<1>1. /\ scenario' = scenario /\ scenario \in Scenario /\ heard' = heard
      /\ Discr' = Discr /\ Cfg' = Cfg /\ Horizon' = Horizon /\ MaxTx' = MaxTx
      /\ Packet' = Packet
  BY DEF IInv, UpMeansHandshake, TypeOK, Discr, Discrs, Cfg, Horizon, MaxTx, Packet
<1>2. sess \in [Host -> Sess]
  BY DEF IInv, UpMeansHandshake, TypeOK, Sess
<1>3. ASSUME NEW m \in net'
      PROVE  m.to \in Host /\ m.pkt \in Packet /\ NamesHeard(m.pkt.localDiscr, m.pkt.peerDiscr)
  <2>1. CASE m \in net
    BY <2>1 DEF IInv, UpMeansHandshake, TypeOK
  <2>2. ASSUME NEW h \in Host,
               m = [to |-> Other(h), pkt |-> ControlPacket(Cfg, sess[h], FALSE)]
        PROVE  m.to \in Host /\ m.pkt \in Packet /\ NamesHeard(m.pkt.localDiscr, m.pkt.peerDiscr)
    <3>1. sess[h] \in Sess
      BY <1>2
    <3>2. ControlPacket(Cfg, sess[h], FALSE) \in Packet
      BY <1>1, <3>1, CfgFacts DEF ControlPacket, Packet, PacketType, Sess, SessionType
    <3>3. NamesHeard(sess[h].localDiscr, sess[h].peerDiscr)
      BY DEF IInv
    <3>. QED  BY <1>1, <2>2, <3>2, <3>3, HostFacts DEF ControlPacket
  <2>. QED  BY <1>3, <2>1, <2>2
<1>4. TypeOK'
  <2>1. sess' \in [Host -> SessionType(Discr, Nat, -Horizon .. Horizon)]
    BY DEF Sess
  <2>. QED  BY <1>1, <1>3, <2>1 DEF TypeOK, IInv, UpMeansHandshake
<1>5. ASSUME NEW h \in Host
      PROVE  /\ NamesHeard(sess'[h].localDiscr, sess'[h].peerDiscr)
             /\ sess'[h].state = Up => \E d \in Discr :
                  {<<d, sess'[h].localDiscr>>, <<sess'[h].localDiscr, d>>} \subseteq heard
  BY DEF IInv, UpMeansHandshake, NamesHeard, SameDiscrs
<1>6. UpMeansHandshake'
  BY <1>1, <1>4, <1>5 DEF UpMeansHandshake
<1>. QED  BY <1>1, <1>3, <1>5, <1>6 DEF IInv, NamesHeard

\* Deliver: what the receiver learns is what the packet's sender had heard.
LEMMA DeliverStep ==
  ASSUME IInv, NEW m \in net, NEW keep, Deliver(m, keep)
  PROVE  IInv'
<1> DEFINE h == m.to
           s == sess[h]
           u == Received(s, m.pkt)
<1>1. /\ scenario' = scenario /\ scenario \in Scenario
      /\ Discr' = Discr /\ Cfg' = Cfg /\ Horizon' = Horizon /\ MaxTx' = MaxTx
      /\ Packet' = Packet
  BY DEF Deliver, IInv, UpMeansHandshake, TypeOK, Discr, Discrs, Cfg, Horizon, MaxTx, Packet
<1>2. /\ sess \in [Host -> Sess] /\ h \in Host /\ m.pkt \in Packet
      /\ s \in Sess
  BY DEF IInv, UpMeansHandshake, TypeOK, Sess
<1>3. /\ Learns(u, s, m.pkt)
      /\ Rejects(s, m.pkt) => SameDiscrs(u, s) /\ u.state = s.state
  BY <1>1, <1>2, ReceivedFacts
<1>4. sess' = [sess EXCEPT ![h] = u]
  BY DEF Deliver
<1>5. /\ heard \subseteq heard' /\ heard' \subseteq Discr \X Discr
      /\ ~Rejects(s, m.pkt) => <<s.localDiscr, m.pkt.localDiscr>> \in heard'
  <2>1. s.localDiscr \in Discr /\ m.pkt.localDiscr \in Discr
    BY <1>2 DEF Sess, SessionType, Packet, PacketType
  <2>2. heard' = IF Rejects(s, m.pkt) THEN heard
                 ELSE heard \cup {<<s.localDiscr, m.pkt.localDiscr>>}
    BY DEF Deliver
  <2>3. heard \subseteq Discr \X Discr
    BY DEF IInv, UpMeansHandshake, TypeOK
  <2> HIDE DEF s
  <2>. QED  BY <2>1, <2>2, <2>3
<1>6. /\ net' \subseteq net /\ IsFiniteSet(net')
      /\ Cardinality(net') <= scenario.maxNet
  <2>1. IsFiniteSet(net) /\ Cardinality(net) \in Nat /\ Cardinality(net) <= scenario.maxNet
    BY FS_CardinalityType DEF IInv, UpMeansHandshake, TypeOK
  <2>2. net' \in SUBSET net
    BY DEF Deliver
  <2>3. IsFiniteSet(net') /\ Cardinality(net') <= Cardinality(net) /\ Cardinality(net') \in Nat
    BY <2>1, <2>2, FS_Subset, FS_CardinalityType
  <2>4. scenario.maxNet \in Nat
    BY <1>1, PairAssumption
  <2>. QED  BY <2>1, <2>2, <2>3, <2>4
<1>7. /\ NamesHeard(s.localDiscr, s.peerDiscr)
      /\ NamesHeard(m.pkt.localDiscr, m.pkt.peerDiscr)
      /\ s.state = Up => \E d \in Discr : {<<d, s.localDiscr>>, <<s.localDiscr, d>>} \subseteq heard
  BY <1>2 DEF IInv, UpMeansHandshake
<1>8. m.pkt.localDiscr \in Discr /\ s.localDiscr \in Discr /\ s.localDiscr # 0
  BY <1>1, <1>2, HostFacts DEF Packet, PacketType, Sess, SessionType
<1> HIDE DEF u, s, h
<1>9. /\ u.peerDiscr # 0 => <<u.localDiscr, u.peerDiscr>> \in heard'
      /\ u.state = Up => \E d \in Discr : {<<d, u.localDiscr>>, <<u.localDiscr, d>>} \subseteq heard'
  <2>1. CASE Rejects(s, m.pkt)
    BY <1>3, <1>5, <1>7, <2>1 DEF SameDiscrs, NamesHeard
  <2>2. CASE ~Rejects(s, m.pkt)
    <3>1. m.pkt.peerDiscr = s.localDiscr => <<m.pkt.localDiscr, s.localDiscr>> \in heard
      BY <1>7, <1>8 DEF NamesHeard
    <3>. QED  BY <1>3, <1>5, <1>7, <1>8, <2>2, <3>1 DEF Learns, NamesHeard
  <2>. QED  BY <2>1, <2>2
<1>10. sess' \in [Host -> Sess]
  BY <1>2, <1>3, <1>4 DEF Learns
<1>11. TypeOK'
  <2>1. sess' \in [Host -> SessionType(Discr, Nat, -Horizon .. Horizon)]
    BY <1>10 DEF Sess
  <2>2. UNCHANGED <<tx, urgent, stable, cut>>
    BY DEF Deliver
  <2>. QED  BY <1>1, <1>5, <1>6, <2>1, <2>2 DEF TypeOK, IInv, UpMeansHandshake
<1>12. ASSUME NEW g \in Host
       PROVE  /\ sess'[g].peerDiscr # 0 => <<sess'[g].localDiscr, sess'[g].peerDiscr>> \in heard'
              /\ sess'[g].state = Up => \E d \in Discr :
                   {<<d, sess'[g].localDiscr>>, <<sess'[g].localDiscr, d>>} \subseteq heard'
  <2>1. CASE g = h
    BY <1>2, <1>4, <1>9, <2>1
  <2>2. CASE g # h
    <3>1. sess'[g] = sess[g]
      BY <1>2, <1>4, <2>2
    <3>. QED  BY <1>5, <3>1 DEF IInv, UpMeansHandshake, NamesHeard
  <2>. QED  BY <2>1, <2>2
<1>13. UpMeansHandshake'
  BY <1>1, <1>11, <1>12 DEF UpMeansHandshake
<1>. QED  BY <1>5, <1>6, <1>12, <1>13 DEF IInv, NamesHeard

\* The invariant holds when both routes are registered.
LEMMA InitIInv == Init => IInv
<1> SUFFICES ASSUME Init PROVE IInv
  OBVIOUS
<1>1. scenario \in Scenario
  BY DEF Init
<1>2. ASSUME NEW h \in Host
      PROVE  /\ NewSession(Discrs[h][1]) \in Sess
             /\ NextTxTimes(Cfg, NewSession(Discrs[h][1]), 0) \subseteq 0 .. MaxTx
             /\ AfterComputeNextTx(Cfg, NewSession(Discrs[h][1])) \in Sess
             /\ AfterComputeNextTx(Cfg, NewSession(Discrs[h][1])).peerDiscr = 0
             /\ AfterComputeNextTx(Cfg, NewSession(Discrs[h][1])).state # Up
  <2> DEFINE s == NewSession(Discrs[h][1])
  <2>1. s \in Sess
    BY <1>1, HostFacts, NewSessionType
  <2>2. s.peerDiscr = 0 /\ s.state = Down /\ s.peerRxMin \in Nat /\ s.backoffFactor \in Nat
    BY DEF NewSession
  <2> HIDE DEF s
  <2>3. /\ AfterComputeNextTx(Cfg, s) \in Sess
        /\ AfterComputeNextTx(Cfg, s).peerDiscr = 0 /\ AfterComputeNextTx(Cfg, s).state # Up
    BY <2>1, <2>2, AfterComputeNextTxFacts
  <2>4. NextTxTimes(Cfg, s, 0) \subseteq 0 .. MaxTx
    BY <1>1, <2>2, NextTxBounded
  <2>. QED  BY <2>1, <2>3, <2>4 DEF s
<1>3. sess \in [Host -> Sess] /\ tx \in [Host -> 0 .. MaxTx \cup {NoTime}]
  BY <1>2 DEF Init
<1>4. \A h \in Host : sess[h].peerDiscr = 0 /\ sess[h].state # Up
  BY <1>2 DEF Init
<1>5. /\ net = {} /\ IsFiniteSet(net) /\ Cardinality(net) = 0 /\ scenario.maxNet \in Nat
  BY <1>1, FS_EmptySet, PairAssumption DEF Init
<1>6. TypeOK
  <2>1. /\ urgent \in [Host -> BOOLEAN] /\ stable \in BOOLEAN
        /\ cut \subseteq Host /\ heard \subseteq Discr \X Discr
    BY DEF Init
  <2>. QED  BY <1>1, <1>3, <1>5, <2>1 DEF TypeOK, Sess
<1>. QED  BY <1>4, <1>5, <1>6 DEF IInv, UpMeansHandshake, NamesHeard

\* Every step preserves the invariant.
LEMMA NextIInv == IInv /\ [Next]_vars => IInv'
<1> SUFFICES ASSUME IInv, [Next]_vars PROVE IInv'
  OBVIOUS
<1>0. /\ scenario \in Scenario /\ scenario.maxNet \in Nat /\ sess \in [Host -> Sess]
      /\ tx \in [Host -> 0 .. MaxTx \cup {NoTime}] /\ urgent \in [Host -> BOOLEAN]
      /\ IsFiniteSet(net) /\ Cardinality(net) \in Nat /\ Cardinality(net) <= scenario.maxNet
  BY PairAssumption, FS_CardinalityType DEF IInv, UpMeansHandshake, TypeOK, Sess
<1> DEFINE Kept(g) == /\ SameDiscrs(sess'[g], sess[g])
                      /\ sess'[g].state = Up => sess[g].state = Up
<1>1. sess' = sess => sess' \in [Host -> Sess] /\ \A g \in Host : Kept(g)
  BY <1>0 DEF SameDiscrs
<1>2. ASSUME NEW h \in Host, NEW u \in Sess, sess' = [sess EXCEPT ![h] = u],
             SameDiscrs(u, sess[h]), u.state = Up => sess[h].state = Up
      PROVE  sess' \in [Host -> Sess] /\ \A g \in Host : Kept(g)
  <2>1. ASSUME NEW g \in Host PROVE Kept(g)
    <3>1. CASE g = h
      BY <1>0, <1>2, <3>1
    <3>2. CASE g # h
      BY <1>0, <1>2, <3>2 DEF SameDiscrs
    <3>. QED  BY <3>1, <3>2
  <2>. QED  BY <1>0, <1>2, <2>1
<1>3. ASSUME NEW h \in Host, net' = Sent(h)
      PROVE  /\ IsFiniteSet(net') /\ Cardinality(net') <= scenario.maxNet
             /\ \A m \in net' : m \in net \/ \E g \in Host :
                   m = [to |-> Other(g), pkt |-> ControlPacket(Cfg, sess[g], FALSE)]
  <2> DEFINE m == [to |-> Other(h), pkt |-> ControlPacket(Cfg, sess[h], FALSE)]
  <2>1. IsFiniteSet(net \cup {m})
    BY <1>0, FS_AddElement
  <2>2. \/ net' = net
        \/ net' = net \cup {m} /\ Cardinality(net \cup {m}) <= scenario.maxNet
    BY <1>3 DEF Sent
  <2> HIDE DEF m
  <2>3. \A n \in net' : n \in net \/ n = m
    BY <2>2
  <2>. QED  BY <1>0, <2>1, <2>2, <2>3 DEF m
<1>4. net' = net => /\ IsFiniteSet(net') /\ Cardinality(net') <= scenario.maxNet
                    /\ \A m \in net' : m \in net
  BY <1>0
<1>5. ASSUME NEW h \in Host, NEW s \in Sess, NEW t \in NextTxTimes(Cfg, s, 0)
      PROVE  [tx EXCEPT ![h] = t] \in [Host -> 0 .. MaxTx \cup {NoTime}]
  <2>1. s.peerRxMin \in Nat /\ s.backoffFactor \in Nat
    BY DEF Sess, SessionType
  <2>2. t \in 0 .. MaxTx
    BY <1>0, <2>1, NextTxBounded
  <2>. QED  BY <1>0, <2>2
<1> HIDE DEF Kept
<1>6. ASSUME NEW m \in net, NEW keep, Deliver(m, keep) PROVE IInv'
  BY <1>6, DeliverStep
<1>7. ASSUME NEW m \in net, Lose(m) PROVE IInv'
  <2>1. net' \in SUBSET net /\ sess' = sess /\ UNCHANGED <<scenario, tx, urgent, stable, cut, heard>>
    BY <1>7 DEF Lose
  <2>2. IsFiniteSet(net') /\ Cardinality(net') <= Cardinality(net) /\ Cardinality(net') \in Nat
    BY <1>0, <2>1, FS_Subset, FS_CardinalityType
  <2>3. Cardinality(net') <= scenario.maxNet
    BY <1>0, <2>2
  <2>. QED  BY <1>0, <1>1, <2>1, <2>2, <2>3, SessionStep DEF Kept
<1>8. ASSUME NEW h \in Host, Transmit(h) PROVE IInv'
  <2>1. /\ net' = Sent(h) /\ UNCHANGED <<scenario, urgent, stable, cut, heard>>
    BY <1>8 DEF Transmit
  <2>2. sess[h] \in Sess
    BY <1>0
  <2>3. CASE sess[h].state = AdminDown
    <3>1. sess' = sess /\ tx' = [tx EXCEPT ![h] = NoTime]
      BY <1>8, <2>3 DEF Transmit
    <3>2. tx' \in [Host -> 0 .. MaxTx \cup {NoTime}]
      BY <1>0, <3>1
    <3>. QED  BY <1>0, <1>1, <1>3, <2>1, <3>1, <3>2, SessionStep DEF Kept
  <2>4. CASE sess[h].state # AdminDown
    <3> DEFINE u == AfterComputeNextTx(Cfg, sess[h])
    <3>1. /\ \E t \in NextTxTimes(Cfg, sess[h], 0) : tx' = [tx EXCEPT ![h] = t]
          /\ sess' = [sess EXCEPT ![h] = u]
      BY <1>8, <2>4 DEF Transmit
    <3>2. u \in Sess /\ SameDiscrs(u, sess[h]) /\ u.state = sess[h].state
      BY <2>2, AfterComputeNextTxFacts DEF SameDiscrs
    <3> HIDE DEF u
    <3>3. tx' \in [Host -> 0 .. MaxTx \cup {NoTime}]
      BY <1>5, <2>2, <3>1
    <3>4. sess' \in [Host -> Sess] /\ \A g \in Host : Kept(g)
      BY <1>2, <3>1, <3>2
    <3>. QED  BY <1>0, <1>3, <2>1, <3>3, <3>4, SessionStep DEF Kept
  <2>. QED  BY <2>3, <2>4
<1>9. ASSUME NEW h \in Host, TransmitUrgent(h) PROVE IInv'
  <2>1. /\ net' = Sent(h) /\ sess' = sess /\ UNCHANGED <<scenario, tx, stable, cut, heard>>
        /\ urgent' \in [Host -> BOOLEAN]
    BY <1>0, <1>9 DEF TransmitUrgent
  <2>. QED  BY <1>0, <1>1, <1>3, <2>1, SessionStep DEF Kept
<1>10. ASSUME NEW h \in Host, Expire(h) PROVE IInv'
  <2> DEFINE d == ExpireIfDue(sess[h], 0)
             u == Strip(d)
  <2>1. /\ sess' = [sess EXCEPT ![h] = u] /\ net' = net
        /\ UNCHANGED <<scenario, tx, stable, cut, heard>>
        /\ urgent' \in [Host -> BOOLEAN]
    BY <1>0, <1>10 DEF Expire
  <2>2. sess[h] \in Sess
    BY <1>0
  <2>3. d \in Sess /\ SameDiscrs(d, sess[h]) /\ (d.state = Up => sess[h].state = Up)
    <3>1. /\ GoDown(sess[h], "timeout") \in Sess
          /\ SameDiscrs(GoDown(sess[h], "timeout"), sess[h])
          /\ GoDown(sess[h], "timeout").state = Down
      BY <1>0, <2>2, GoDownFacts, ValueTypes
    <3>. QED  BY <2>2, <3>1 DEF ExpireIfDue, SameDiscrs
  <2> HIDE DEF d
  <2>4. u \in Sess /\ SameDiscrs(u, sess[h]) /\ (u.state = Up => sess[h].state = Up)
    BY <1>0, <2>3, StripFacts DEF SameDiscrs
  <2> HIDE DEF u
  <2>5. sess' \in [Host -> Sess] /\ \A g \in Host : Kept(g)
    BY <1>2, <2>1, <2>4
  <2>. QED  BY <1>0, <1>4, <2>1, <2>5, SessionStep DEF Kept
<1>11. CASE Tick
  <2>1. /\ net' = net /\ UNCHANGED <<scenario, urgent, stable, cut, heard>>
        /\ tx' = [h \in Host |-> IF tx[h] = NoTime THEN NoTime ELSE tx[h] - 1]
        /\ \A h \in Host : tx[h] # 0
    BY <1>11 DEF Tick
  <2>2. tx' \in [Host -> 0 .. MaxTx \cup {NoTime}]
    <3>1. MaxTx \in Int
      BY <1>0, CfgFacts DEF MaxTx, Larger
    <3>. QED  BY <1>0, <2>1, <3>1
  <2>3. ASSUME NEW t \in Time PROVE Older(t) \in Time
    <3>1. Horizon \in Nat
      BY <1>0, CfgFacts DEF Horizon
    <3>. QED  BY <3>1, NoTimeAssumption DEF Older, Time, Larger
  <2>4. ASSUME NEW h \in Host
        PROVE  sess'[h] \in Sess /\ Kept(h)
    <3> DEFINE a == Older(sess[h].upSince)
               b == Older(sess[h].detectDeadline)
    <3>1. sess'[h] = [sess[h] EXCEPT !.upSince = a, !.detectDeadline = b]
      BY <1>11 DEF Tick
    <3>2. sess[h] \in Sess
      BY <1>0
    <3>3. a \in Time /\ b \in Time
      BY <2>3, <3>2 DEF Sess, SessionType, Time
    <3> HIDE DEF a, b
    <3>4. sess'[h] \in Sess
      <4>1. [sess[h] EXCEPT !.upSince = a] \in Sess
        BY <3>2, <3>3, FieldTypes, Zenon
      <4>2. [[sess[h] EXCEPT !.upSince = a] EXCEPT !.detectDeadline = b] \in Sess
        BY <3>3, <4>1, FieldTypes, Zenon
      <4>. QED  BY <3>1, <4>2
    <3>5. SameDiscrs(sess'[h], sess[h]) /\ sess'[h].state = sess[h].state
      BY <3>1, <3>2 DEF SameDiscrs, Sess, SessionType
    <3>. QED  BY <3>4, <3>5 DEF Kept
  <2>5. sess' \in [Host -> Sess]
    BY <1>11, <2>4 DEF Tick
  <2>. QED  BY <1>0, <1>4, <2>1, <2>2, <2>4, <2>5, SessionStep DEF Kept
<1>12. ASSUME NEW h \in Host, Restart(h) PROVE IInv'
  <2>1. PICK i \in 1 .. Len(Discrs[h]) - 1 :
          LET s == NewSession(Discrs[h][i + 1]) IN
          /\ sess' = [sess EXCEPT ![h] = AfterComputeNextTx(Cfg, s)]
          /\ \E t \in NextTxTimes(Cfg, s, 0) : tx' = [tx EXCEPT ![h] = t]
    BY <1>12 DEF Restart
  <2> DEFINE s == NewSession(Discrs[h][i + 1])
             u == AfterComputeNextTx(Cfg, s)
  <2>2. /\ net' = net /\ UNCHANGED <<scenario, stable, cut, heard>>
        /\ urgent' \in [Host -> BOOLEAN]
    BY <1>0, <1>12 DEF Restart
  <2>3. Discrs[h][i + 1] \in Discr
    <3>1. Discrs[h] \in Seq(Nat \ {0})
      BY <1>0, PairAssumption DEF Discrs
    <3>2. i + 1 \in 1 .. Len(Discrs[h])
      BY <3>1
    <3>. QED  BY <1>0, <3>2, HostFacts
  <2>4. s \in Sess /\ s.peerDiscr = 0 /\ s.state = Down
    BY <1>0, <2>3, NewSessionType DEF NewSession
  <2> HIDE DEF s
  <2>5. u \in Sess /\ u.peerDiscr = 0 /\ u.state # Up
    BY <2>4, AfterComputeNextTxFacts
  <2>6. tx' \in [Host -> 0 .. MaxTx \cup {NoTime}]
    BY <1>5, <2>1, <2>4 DEF s
  <2>7. sess' = [sess EXCEPT ![h] = u]
    BY <2>1 DEF s
  <2> HIDE DEF u
  <2>8. sess' \in [Host -> Sess]
    BY <1>0, <2>5, <2>7
  <2>9. ASSUME NEW g \in Host
        PROVE  Kept(g) \/ (sess'[g].peerDiscr = 0 /\ sess'[g].state # Up)
    <3>1. CASE g = h
      BY <1>0, <2>5, <2>7, <3>1
    <3>2. CASE g # h
      BY <1>0, <2>7, <3>2 DEF Kept, SameDiscrs
    <3>. QED  BY <3>1, <3>2
  <2>. QED  BY <1>0, <1>4, <2>2, <2>6, <2>8, <2>9, SessionStep DEF Kept
<1>13. ASSUME NEW h \in Host, AdminDownRoute(h) PROVE IInv'
  <2> DEFINE d == GoAdminDown(sess[h])
             u == Strip(d)
  <2>1. sess' = [sess EXCEPT ![h] = u] /\ net' = net
        /\ UNCHANGED <<scenario, tx, urgent, stable, cut, heard>>
    BY <1>13 DEF AdminDownRoute
  <2>2. d \in Sess /\ SameDiscrs(d, sess[h]) /\ d.state = AdminDown
    BY <1>0, StripFacts
  <2> HIDE DEF d
  <2>3. u \in Sess /\ SameDiscrs(u, sess[h]) /\ u.state # Up
    BY <1>0, <2>2, StripFacts DEF SameDiscrs
  <2> HIDE DEF u
  <2>4. sess' \in [Host -> Sess] /\ \A g \in Host : Kept(g)
    BY <1>2, <2>1, <2>3
  <2>. QED  BY <1>0, <1>4, <2>1, <2>4, SessionStep DEF Kept
<1>14. ASSUME NEW c \in scenario.cuts, Stabilise(c) PROVE IInv'
  <2>1. /\ UNCHANGED <<scenario, sess, tx, urgent, net, heard>>
        /\ stable' \in BOOLEAN /\ cut' \subseteq Host
    BY <1>0, <1>14, PairAssumption DEF Stabilise
  <2>2. /\ Discr' = Discr /\ Horizon' = Horizon /\ MaxTx' = MaxTx /\ Packet' = Packet
    BY <2>1 DEF Discr, Discrs, Cfg, Horizon, MaxTx, Packet
  <2>3. TypeOK'
    BY <2>1, <2>2 DEF IInv, UpMeansHandshake, TypeOK
  <2>. QED  BY <2>1, <2>2, <2>3 DEF IInv, UpMeansHandshake, NamesHeard
<1>15. CASE UNCHANGED vars
  <2>1. /\ Discr' = Discr /\ Horizon' = Horizon /\ MaxTx' = MaxTx /\ Packet' = Packet
    BY <1>15 DEF vars, Discr, Discrs, Cfg, Horizon, MaxTx, Packet
  <2>2. TypeOK'
    BY <1>15, <2>1 DEF vars, IInv, UpMeansHandshake, TypeOK
  <2>. QED  BY <1>15, <2>1, <2>2 DEF vars, IInv, UpMeansHandshake, NamesHeard
<1>. QED
  BY <1>6, <1>7, <1>8, <1>9, <1>10, <1>11, <1>12, <1>13, <1>14, <1>15
  DEF Next, Progress, Fault

\* No session of either host is ever Up without a completed two-way handshake
\* between two incarnations, whatever the network loses, duplicates, delays or
\* delivers after a restart.
THEOREM PairUpMeansHandshake == Spec => []UpMeansHandshake
<1>1. IInv => UpMeansHandshake
  BY DEF IInv
<1>. QED  BY <1>1, InitIInv, NextIInv, PTL DEF Spec
=============================================================================
