---------------------------- MODULE LivenessPair ----------------------------
(***************************************************************************)
(* Two managers probing each other over a network that delays, reorders,   *)
(* duplicates and loses packets, and that may become stable for good.      *)
(*                                                                         *)
(* The clock is relative: the operators of LivenessSession are applied at  *)
(* time 0 and Tick moves every recorded time one unit into the past.       *)
(* Ages that no test can tell apart any more are merged (Horizon).  Each   *)
(* scheduler keeps up with the clock: no unit passes while a transmission  *)
(* or a timeout is due; what happens when it lags is in LivenessScheduler. *)
(***************************************************************************)
EXTENDS LivenessSession, FiniteSets, Sequences

CONSTANTS
  Host,         \* the two hosts
  Scenario      \* environments, with these fields:
                \*   cfg     the configuration both hosts run with
                \*   discrs  host -> the discriminators its incarnations draw
                \*   maxNet  bound on the packets in flight
                \*   cuts    sets of hosts that packets may stop reaching
                \*   admin   whether AdminDownRoute may be called

VARIABLES
  scenario,     \* the environment, never changes
  sess,         \* host -> its session
  tx,           \* host -> units until the scheduled transmission, or NoTime
  urgent,       \* host -> tryExpire has queued an immediate transmission
  net,          \* packets in flight, each with the host it is for
  stable,       \* the network has become reliable and nothing restarts
  cut,          \* hosts that no packet reaches any more
  heard         \* history: <<d, e>> when incarnation d accepted a packet of e

vars == <<scenario, sess, tx, urgent, net, stable, cut, heard>>

ASSUME PairAssumption ==
  /\ Cardinality(Host) = 2
  /\ \A s \in Scenario : /\ ValidConfig(s.cfg)
                         /\ s.discrs \in [Host -> Seq(Nat \ {0})]
                         /\ \A h \in Host : s.discrs[h] # <<>>
                         /\ s.maxNet \in Nat \ {0}
                         /\ s.cuts \subseteq SUBSET Host
                         /\ s.admin \in BOOLEAN

Cfg == scenario.cfg
Discrs == scenario.discrs

Other(h) == CHOOSE p \in Host : p # h

Discr == UNION {{Discrs[h][i] : i \in 1 .. Len(Discrs[h])} : h \in Host}

Packet == PacketType(Discr, {Cfg.txMin, Cfg.rxMin})
Horizon == Cfg.detectMult * Cfg.maxTxCeil

\* The longest interval to the next transmission, with its jitter.
MaxTx == LET longest == Larger(Cfg.backoffMax, Cfg.maxTxCeil) IN longest + longest \div 10

TypeOK ==
  /\ scenario \in Scenario
  /\ sess \in [Host -> SessionType(Discr, Nat, -Horizon .. Horizon)]
  /\ tx \in [Host -> 0 .. MaxTx \cup {NoTime}]
  /\ urgent \in [Host -> BOOLEAN]
  /\ \A m \in net : m.to \in Host /\ m.pkt \in Packet
  /\ Cardinality(net) <= scenario.maxNet
  /\ stable \in BOOLEAN
  /\ cut \subseteq Host
  /\ heard \subseteq Discr \X Discr

\* RegisterRoute on both sides; the first transmission is computed at once.
Init ==
  /\ scenario \in Scenario
  /\ sess = [h \in Host |-> AfterComputeNextTx(Cfg, NewSession(Discrs[h][1]))]
  /\ tx \in [Host -> UNION {NextTxTimes(Cfg, NewSession(Discrs[h][1]), 0) : h \in Host}]
  /\ urgent = [h \in Host |-> FALSE]
  /\ net = {}
  /\ stable = FALSE
  /\ cut = {}
  /\ heard = {}

\* The fields a session keeps for status output only are not carried along.
Strip(s) == [s EXCEPT !.lastRx = NoTime, !.downReason = "none"]

\* manager.HandleRx, as in LivenessEndpoint.
Received(s, pkt) ==
  LET t == HandleRx(Cfg, s, 0, pkt)
  IN  Strip(IF Active(t) THEN ArmDetect(Cfg, t, 0) ELSE t)

\* A packet arrives; the network may keep a duplicate unless it is stable.
Deliver(m, keep) ==
  LET h == m.to IN
  /\ m \in net
  /\ h \notin cut
  /\ keep => ~stable
  /\ sess' = [sess EXCEPT ![h] = Received(@, m.pkt)]
  /\ heard' = IF Rejects(sess[h], m.pkt) THEN heard
              ELSE heard \cup {<<sess[h].localDiscr, m.pkt.localDiscr>>}
  /\ net' = IF keep THEN net ELSE net \ {m}
  /\ UNCHANGED <<scenario, tx, urgent, stable, cut>>

Lose(m) ==
  /\ m \in net
  /\ stable => m.to \in cut
  /\ net' = net \ {m}
  /\ UNCHANGED <<scenario, sess, tx, urgent, stable, cut, heard>>

\* The latency of a stable network is short against the intervals: a packet
\* arrives before the next timer fires.
Quiet == stable => net = {}

\* doTX: put the packet on the wire; a full network loses it.
Sent(h) ==
  LET m == [to |-> Other(h), pkt |-> ControlPacket(Cfg, sess[h], FALSE)]
  IN  IF Cardinality(net \cup {m}) <= scenario.maxNet THEN net \cup {m} ELSE net

\* The scheduler pops the scheduled TX event; AdminDown ends the chain.
Transmit(h) ==
  /\ tx[h] = 0
  /\ Quiet
  /\ net' = Sent(h)
  /\ IF sess[h].state = AdminDown
     THEN tx' = [tx EXCEPT ![h] = NoTime] /\ UNCHANGED sess
     ELSE /\ \E t \in NextTxTimes(Cfg, sess[h], 0) : tx' = [tx EXCEPT ![h] = t]
          /\ sess' = [sess EXCEPT ![h] = AfterComputeNextTx(Cfg, @)]
  /\ UNCHANGED <<scenario, urgent, stable, cut, heard>>

\* The scheduler pops the TX event of tryExpire; it is not the scheduled one,
\* so scheduleTx finds that marker set and computes nothing.
TransmitUrgent(h) ==
  /\ urgent[h]
  /\ Quiet
  /\ net' = Sent(h)
  /\ urgent' = [urgent EXCEPT ![h] = FALSE]
  /\ UNCHANGED <<scenario, sess, tx, stable, cut, heard>>

\* The scheduler pops the detect event: tryExpire.
Expire(h) ==
  /\ DetectDue(sess[h], 0)
  /\ Quiet
  /\ sess' = [sess EXCEPT ![h] = Strip(ExpireIfDue(@, 0))]
  /\ urgent' = [urgent EXCEPT ![h] = TRUE]
  /\ UNCHANGED <<scenario, tx, net, stable, cut, heard>>

Older(t) ==
  IF t = NoTime THEN NoTime ELSE Larger(t - 1, -Horizon)

\* One unit of time passes.  A stable network delivers within a unit.
Tick ==
  /\ \A h \in Host : tx[h] # 0 /\ ~urgent[h] /\ ~DetectDue(sess[h], 0)
  /\ Quiet
  /\ sess' = [h \in Host |-> [sess[h] EXCEPT !.upSince = Older(@),
                                             !.detectDeadline = Older(@)]]
  /\ tx' = [h \in Host |-> IF tx[h] = NoTime THEN NoTime ELSE tx[h] - 1]
  /\ UNCHANGED <<scenario, urgent, net, stable, cut, heard>>

\* The daemon restarts, or the route is withdrawn and registered again: a new
\* session with a new discriminator.
Restart(h) ==
  /\ ~stable
  /\ \E i \in 1 .. Len(Discrs[h]) - 1 :
       /\ sess[h].localDiscr = Discrs[h][i]
       /\ LET s == NewSession(Discrs[h][i + 1]) IN
          /\ sess' = [sess EXCEPT ![h] = AfterComputeNextTx(Cfg, s)]
          /\ \E t \in NextTxTimes(Cfg, s, 0) : tx' = [tx EXCEPT ![h] = t]
  /\ urgent' = [urgent EXCEPT ![h] = FALSE]
  /\ UNCHANGED <<scenario, net, stable, cut, heard>>

\* AdminDownRoute: its scheduleTx finds the marker of the pending event set.
AdminDownRoute(h) ==
  /\ scenario.admin
  /\ ~stable
  /\ sess[h].state # AdminDown
  /\ sess' = [sess EXCEPT ![h] = Strip(GoAdminDown(@))]
  /\ UNCHANGED <<scenario, tx, urgent, net, stable, cut, heard>>

\* From now on the network delivers, except to the hosts cut off.
Stabilise(c) ==
  /\ ~stable
  /\ stable' = TRUE
  /\ cut' = c
  /\ UNCHANGED <<scenario, sess, tx, urgent, net, heard>>

Progress ==
  \/ \E m \in net : Deliver(m, FALSE)
  \/ stable /\ \E m \in net : Lose(m)
  \/ \E h \in Host : Transmit(h) \/ TransmitUrgent(h) \/ Expire(h)
  \/ Tick

Fault ==
  \/ \E m \in net : Deliver(m, TRUE)
  \/ \E m \in net : ~stable /\ Lose(m)
  \/ \E h \in Host : Restart(h) \/ AdminDownRoute(h)
  \/ \E c \in scenario.cuts : Stabilise(c)

Next == Progress \/ Fault

Leads(h) ==
  /\ tx[Other(h)] = 0
  /\ sess[h].state > sess[Other(h)].state
  /\ Transmit(h)

\* Both schedulers and both receivers keep running, and time passes: weak
\* fairness.  The jitter of ComputeNextTx, drawn afresh for every
\* transmission, breaks ties: a session that is Init again and again when
\* its transmission is due does not lose the race against the peer's packet
\* every time.  That is strong fairness of Leads.
Spec ==
  /\ Init /\ [][Next]_vars
  /\ WF_vars(Progress)
  /\ \A h \in Host : SF_vars(Leads(h))

-----------------------------------------------------------------------------

\* The state is well typed, and coming Up is proof of two-way reachability
\* between two incarnations: this one and some incarnation of the peer have
\* each accepted a packet of the other, however packets are delayed, duplicated
\* or left over from before a restart (session.go:333-372: the packet must echo
\* our discriminator and its sender be at least Init).
UpMeansHandshake ==
  TypeOK /\ \A h \in Host :
    sess[h].state = Up =>
      \E d \in Discr : {<<d, sess[h].localDiscr>>, <<sess[h].localDiscr, d>>} \subseteq heard

BothUp == \A h \in Host : sess[h].state = Up

\* The next three say what a stable network leads to.  It stays stable, no link
\* is cut or mended and no host taken AdminDown from then on: <>[](P => Q) is
\* P ~> []Q.

\* Once the network delivers and nobody is AdminDown, both sides come Up and
\* stay Up, whatever was lost, duplicated or reordered before.
Converges ==
  <>[](stable /\ cut = {} /\ (\A h \in Host : sess[h].state # AdminDown) => BothUp)

\* If packets to one side stop arriving, both sides leave Up for good: the
\* deaf side by its detect timer, the other by the Down it is then sent.
OneWayLossDetected ==
  <>[](stable /\ cut # {} => \A h \in Host : sess[h].state # Up)

\* When one side is taken AdminDown the other leaves Up for good: by the
\* AdminDown packet or, should it be lost, by its own detect timer.
AdminDownReachesPeer ==
  <>[](stable /\ (\E h \in Host : sess[h].state = AdminDown)
         => \A h \in Host : sess[h].state # Up)
=============================================================================
