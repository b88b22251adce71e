-------------------------- MODULE LivenessEndpoint --------------------------
(***************************************************************************)
(* One liveness session inside its manager, against an arbitrary peer and  *)
(* an arbitrary network: any control packet may arrive at any moment, any  *)
(* number of times, in any order.  The receiver goroutine, the scheduler   *)
(* goroutine and the callers of the manager take the steps; each step runs *)
(* under the session's mutex.                                              *)
(***************************************************************************)
EXTENDS LivenessSession

CONSTANTS
  Cfg,            \* the configuration of this manager
  Discr,          \* discriminators that occur; non-zero
  LocalDiscr,     \* the one drawn for this session
  PeerInterval,   \* intervals a peer may advertise
  MaxTime         \* bound on the clock

ASSUME EndpointAssumption ==
  /\ ValidConfig(Cfg)
  /\ Discr \subseteq Nat \ {0}
  /\ LocalDiscr \in Discr
  /\ PeerInterval \subseteq Nat
  /\ MaxTime \in Nat

VARIABLES sess, now

endpointVars == <<sess, now>>

Packet == PacketType(Discr, PeerInterval)

\* What HandleRx clamps to: nothing learned yet, or between floor and ceiling.
Interval == {0} \cup Cfg.minTxFloor .. Cfg.maxTxCeil

EndpointType ==
  /\ sess \in SessionType(Discr, Interval, Int)
  /\ now \in 0 .. MaxTime

EndpointInit ==
  /\ sess = NewSession(LocalDiscr)
  /\ now = 0

\* manager.HandleRx for a packet of this session's peer: the state machine,
\* then scheduleDetect for a session that is (still) active.  A withdrawn
\* session is no longer found in the sessions map.
Receive(pkt) ==
  /\ sess.alive
  /\ LET s == HandleRx(Cfg, sess, now, pkt)
     IN  sess' = IF Active(s) THEN ArmDetect(Cfg, s, now) ELSE s
  /\ UNCHANGED now

\* The scheduler pops the detect event of the current deadline.
Expire ==
  /\ DetectDue(sess, now)
  /\ sess' = ExpireIfDue(sess, now)
  /\ UNCHANGED now

\* The scheduler sends and computes the time of the next transmission.
Transmit ==
  /\ sess.alive
  /\ sess.state # AdminDown
  /\ sess' = AfterComputeNextTx(Cfg, sess)
  /\ UNCHANGED now

\* AdminDownRoute; its scheduleTx computes a next transmission unless one is
\* already scheduled.
AdminDownRoute ==
  /\ sess.alive
  /\ sess.state # AdminDown
  /\ LET s == GoAdminDown(sess) IN sess' \in {s, AfterComputeNextTx(Cfg, s)}
  /\ UNCHANGED now

\* WithdrawRoute: the session leaves the map and is marked not managed.
Withdraw ==
  /\ sess.alive
  /\ sess' = [sess EXCEPT !.alive = FALSE]
  /\ UNCHANGED now

Tick ==
  /\ now < MaxTime
  /\ now' = now + 1
  /\ UNCHANGED sess

EndpointNext ==
  \/ \E pkt \in Packet : Receive(pkt)
  \/ Expire
  \/ Transmit
  \/ AdminDownRoute
  \/ Withdraw
  \/ Tick

EndpointSpec == EndpointInit /\ [][EndpointNext]_endpointVars

-----------------------------------------------------------------------------

\* The detect timer runs exactly while the session is Init or Up: no path
\* into Down or AdminDown leaves a deadline behind, and no active session is
\* without the timer that would notice a silent peer (session.go:224, 278,
\* 304, 331; manager.go:697).
DetectArmed == sess.detectDeadline # NoTime <=> Active(sess)

\* A session that came Up cannot be due for a timeout before one full detect
\* time has passed, whatever intervals the peer advertises meanwhile, and a
\* known peer discriminator is behind every active session.
UpLastsDetectTime ==
  /\ sess.state = Up =>
       /\ sess.upSince # NoTime
       /\ sess.upSince <= now
       /\ sess.detectDeadline >= sess.upSince + DetectTime(Cfg, sess)
  /\ Active(sess) => sess.peerDiscr # 0

\* Within one detect time of coming Up, only an administrative action, local
\* or remote, brings the session down again: neither a Down packet leaked
\* from the peer's earlier timeout nor this side's own timer does
\* (session.go:284-295, rfc7 "earlier Down is ignored as stale").
FreshUpHolds ==
  [][ (/\ sess.state = Up
       /\ now < sess.upSince + DetectTime(Cfg, sess)
       /\ sess'.state # Up)
      => sess'.downReason \in {"remote_admin", "local_admin"} ]_endpointVars

\* The backoff neither collapses to zero nor doubles past the cap: while
\* Down the factor times the shortest interval stays below twice the cap.
\* With the floor and the cap the daemon uses (50ms, 1s) the 32-bit factor
\* cannot wrap (session.go:163-173).
BackoffBounded ==
  /\ sess.backoffFactor >= 1
  /\ sess.backoffFactor = 1 \/ sess.backoffFactor * Cfg.minTxFloor < 2 * Cfg.backoffMax
=============================================================================
