-------------------------- MODULE ReconcilerProofs --------------------------
(***************************************************************************)
(* Proofs about Reconciler and Services, for any endpoints, groups,        *)
(* requests and callers, and any bounds on ledger changes, commands, calls *)
(* and failures.                                                           *)
(*                                                                         *)
(* The invariant says of each slot that the service in it stands, and that *)
(* nothing is left in the kernel for an empty one, as long as no call has  *)
(* failed and the daemon has not restarted.  Each operation of a service   *)
(* has a lemma that says what it leaves alone in any case, and what it     *)
(* makes of a service that stands when no call fails; a sequence of calls  *)
(* is taken apart one call at a time.  UpdateGroups runs outside the lock  *)
(* in two halves: between them the routes and the senders of the publisher *)
(* are those of the new request, the PIM sender is that of the old (Half). *)
(***************************************************************************)
EXTENDS Reconciler, TLAPS

\* The peers of service s in t are those of the endpoints in E.
Peered(t, s, E) == \A e \in Endpoint : <<s, e>> \in t.peers <=> e \in E
\* Sender w runs one goroutine, or none.
On(t, w) == t.worker[w].cur = "live" /\ t.worker[w].old = 0
Off(t, w) == t.worker[w].cur # "live" /\ t.worker[w].old = 0

\* The unicast service of request q, or none, is set up in t.
UniAt(t, q) ==
    IF q = NoReq
    THEN t.tun["unicast"] = NoTunnel /\ Peered(t, "unicast", {}) /\ t.rules = "none"
    ELSE /\ t.tun["unicast"] = [ep |-> q.ep, up |-> TRUE] /\ Peered(t, "unicast", {q.ep})
         /\ t.rules = IF q.kind = "edge" THEN "owned" ELSE "none"

\* The senders of a publisher of pub and a subscriber of sub run, no others.
Manned(t, pub, sub) ==
    /\ IF pub = {} THEN Off(t, "heartbeat") /\ Off(t, "register")
                   ELSE On(t, "heartbeat") /\ On(t, "register")
    /\ IF sub = {} THEN Off(t, "pim") ELSE On(t, "pim")

\* Tunnel, peer and senders of a multicast service.
Base(t, q) ==
    IF q = NoReq
    THEN /\ t.tun["multicast"] = NoTunnel /\ Peered(t, "multicast", {})
         /\ Manned(t, {}, {}) /\ \A g \in Group : t.routes[g] = "none"
    ELSE /\ t.tun["multicast"] = [ep |-> q.ep, up |-> TRUE] /\ Peered(t, "multicast", {q.ep})
         /\ Manned(t, q.pub, q.sub)

\* Routes and group lists are those of a request, or of its parts.
Routed(t, q) == \A g \in Group : t.routes[g] = RouteFor(q, g)
Lists(t, pub, sub) ==
    /\ pub # {} => t.worker["heartbeat"].groups = pub /\ t.worker["register"].groups = pub
    /\ sub # {} => t.worker["pim"].groups = sub

\* The details of a multicast service that no group is both published and
\* subscribed through.
Exact(t, q) == q # NoReq => Routed(t, q) /\ Lists(t, q.pub, q.sub)

\* Between the two halves of UpdateGroups.
Half(t, old, new) ==
    /\ old # NoReq /\ new # NoReq /\ new.ep = old.ep /\ ((old.pub = {}) <=> (new.pub = {}))
    /\ Separate => Routed(t, new) /\ Lists(t, new.pub, old.sub)

\* What is held, wanted or under way was asked for by some user.
Wished ==
    /\ \A s \in Svc : /\ chain[s] \in Wishes(s) /\ slot[s] \in Wishes(s) /\ loop.view[s] \in Wishes(s)
                      /\ cached # NoData => cached[s] \in Wishes(s)
    /\ loop.old \in Wishes("multicast")
    /\ loop.pc \in {"pim", "fallback"} => loop.view["multicast"] # NoReq /\ mode.multi # {}
    /\ loop.pc = "pim" => loop.old # NoReq

\* Failures and crashes are only used up.
Count == faults <= mode.faults /\ left["crash"] <= mode.left["crash"]

\* The services in the slots are set up; between the two halves of UpdateGroups
\* the multicast service is that of the old request but for routes and senders.
Stands ==
    /\ UniAt(sys, slot["unicast"])
    /\ Base(sys, slot["multicast"])
    /\ IF loop.pc = "pim" THEN slot["multicast"] = loop.old /\ Half(sys, loop.old, loop.view["multicast"])
       ELSE Separate => Exact(sys, slot["multicast"])

\* As long as nothing failed or crashed the services stand and nothing waits for
\* ever; without multicast nothing ever does.
Healthy ==
    /\ Unharmed /\ mode.apart => ~Blocked /\ Stands
    /\ mode.multi = {} => ~Blocked

\* Commands given one at a time: at most one is under way, it wants what the
\* file says, and so does what is queued for the loop.
CtlInv ==
  mode.patient =>
    /\ \A c, d \in Client : ctl[c].pc # "idle" /\ ctl[d].pc # "idle" => c = d
    /\ \A c \in Client : ctl[c].pc # "idle" => ctl[c].want = file /\ enableCh = <<>>
    /\ enableCh # <<>> => enableCh = <<file>>
    /\ LastCommandWins
\* KernelMatchesServices, LoopAlive and LastCommandWins, strengthened.
RInv == TypeOK /\ Wished /\ Count /\ Healthy /\ CtlInv

Outcome == [sys : SysType, end : {"ok", "error", "hang"}, harm : BOOLEAN]
Tun == [ep : Endpoint \cup {NoEp}, up : BOOLEAN]
Sender == [cur : {"none", "live", "dead"}, old : Nat, groups : SUBSET Group]

\* What the operations of the other service leave alone.
UniSame(s, t) ==
    /\ t.tun["unicast"] = s.tun["unicast"] /\ t.rules = s.rules
    /\ \A e \in Endpoint : <<"unicast", e>> \in t.peers <=> <<"unicast", e>> \in s.peers
MultiSame(s, t) ==
    /\ t.tun["multicast"] = s.tun["multicast"]
    /\ \A e \in Endpoint : <<"multicast", e>> \in t.peers <=> <<"multicast", e>> \in s.peers
    /\ t.routes = s.routes /\ t.worker = s.worker

\* An outcome p after an outcome o.
With(p, o) == [p EXCEPT !.harm = @ \/ o.harm]

\* What With makes of two outcomes.
LEMMA WithOutcome ==
  ASSUME NEW p \in Outcome, NEW o \in Outcome
  PROVE  /\ With(p, o) \in Outcome /\ With(p, o).sys = p.sys /\ With(p, o).end = p.end
         /\ ~With(p, o).harm => ~p.harm /\ ~o.harm
<1>1. (p.harm \/ o.harm) \in BOOLEAN
  BY Zenon DEF Outcome
<1>2. PICK h \in BOOLEAN : h = (p.harm \/ o.harm)
  BY <1>1, Zenon
<1>3. With(p, o) = [p EXCEPT !.harm = h]
  BY <1>2, Zenon DEF With
<1>4. /\ With(p, o) \in Outcome /\ With(p, o).sys = p.sys /\ With(p, o).end = p.end
      /\ With(p, o).harm = h
  BY <1>3, Zenon DEF Outcome
<1> QED
  BY <1>2, <1>4, Zenon

\* The fields of the outcomes of a single call.
LEMMA Outcomes ==
  ASSUME NEW t \in SysType
  PROVE  /\ Ok(t) \in Outcome /\ Ok(t).sys = t /\ Ok(t).end = "ok" /\ ~Ok(t).harm
         /\ Error(t) \in Outcome /\ Error(t).sys = t /\ Error(t).end = "error" /\ ~Error(t).harm
         /\ Fault(t) \in Outcome /\ Fault(t).sys = t /\ Fault(t).end = "error" /\ Fault(t).harm
         /\ Lapse(t) \in Outcome /\ Lapse(t).sys = t /\ Lapse(t).end = "ok" /\ Lapse(t).harm
         /\ Hang(t) \in Outcome /\ Hang(t).sys = t /\ Hang(t).end = "hang" /\ ~Hang(t).harm
BY Zenon DEF Ok, Error, Fault, Lapse, Hang, Outcome

\* The fields of a system,
LEMMA SysFields ==
  ASSUME NEW s \in SysType
  PROVE  /\ s.tun \in [Svc -> Tun] /\ s.routes \in [Group -> {"none", "src", "plain"}]
         /\ s.rules \in {"none", "owned", "leaked"} /\ s.peers \in SUBSET (Svc \X Endpoint)
         /\ s.worker \in [Worker -> Sender]
BY Zenon DEF SysType, Tun, Sender

\* and setting each of them.
LEMMA SetTun ==
  ASSUME NEW s \in SysType, NEW v \in [Svc -> Tun]
  PROVE  /\ [s EXCEPT !.tun = v] \in SysType /\ [s EXCEPT !.tun = v].tun = v
         /\ [s EXCEPT !.tun = v].routes = s.routes /\ [s EXCEPT !.tun = v].rules = s.rules
         /\ [s EXCEPT !.tun = v].peers = s.peers /\ [s EXCEPT !.tun = v].worker = s.worker
BY Zenon DEF SysType, Tun, Sender

\* Setting the peers.
LEMMA SetPeers ==
  ASSUME NEW s \in SysType, NEW v \in SUBSET (Svc \X Endpoint)
  PROVE  /\ [s EXCEPT !.peers = v] \in SysType /\ [s EXCEPT !.peers = v].tun = s.tun
         /\ [s EXCEPT !.peers = v].routes = s.routes /\ [s EXCEPT !.peers = v].rules = s.rules
         /\ [s EXCEPT !.peers = v].peers = v /\ [s EXCEPT !.peers = v].worker = s.worker
BY Zenon DEF SysType

\* Setting the rules.
LEMMA SetRules ==
  ASSUME NEW s \in SysType, NEW v \in {"none", "owned", "leaked"}
  PROVE  /\ [s EXCEPT !.rules = v] \in SysType /\ [s EXCEPT !.rules = v].tun = s.tun
         /\ [s EXCEPT !.rules = v].routes = s.routes /\ [s EXCEPT !.rules = v].rules = v
         /\ [s EXCEPT !.rules = v].peers = s.peers /\ [s EXCEPT !.rules = v].worker = s.worker
BY Zenon DEF SysType

\* Setting the routes.
LEMMA SetRoute ==
  ASSUME NEW s \in SysType, NEW v \in [Group -> {"none", "src", "plain"}]
  PROVE  /\ [s EXCEPT !.routes = v] \in SysType /\ [s EXCEPT !.routes = v].tun = s.tun
         /\ [s EXCEPT !.routes = v].routes = v /\ [s EXCEPT !.routes = v].rules = s.rules
         /\ [s EXCEPT !.routes = v].peers = s.peers /\ [s EXCEPT !.routes = v].worker = s.worker
BY Zenon DEF SysType

\* Setting the senders.
LEMMA SetWorker ==
  ASSUME NEW s \in SysType, NEW v \in [Worker -> Sender]
  PROVE  /\ [s EXCEPT !.worker = v] \in SysType /\ [s EXCEPT !.worker = v].tun = s.tun
         /\ [s EXCEPT !.worker = v].routes = s.routes /\ [s EXCEPT !.worker = v].rules = s.rules
         /\ [s EXCEPT !.worker = v].peers = s.peers /\ [s EXCEPT !.worker = v].worker = v
BY Zenon DEF SysType, Sender

\* createBaseTunnel.
LEMMA CreateTunnelOut ==
  ASSUME NEW s \in SysType, NEW svc \in Svc, NEW ep \in Endpoint, NEW x \in CreateTunnel(s, svc, ep)
  PROVE  /\ x \in Outcome /\ x.end # "hang"
         /\ x.sys.routes = s.routes /\ x.sys.rules = s.rules /\ x.sys.peers = s.peers
         /\ x.sys.worker = s.worker
         /\ \A v \in Svc : v # svc => x.sys.tun[v] = s.tun[v]
         /\ ~x.harm /\ s.tun[svc].ep = NoEp =>
              x.end = "ok" /\ x.sys.tun[svc].ep = ep /\ x.sys.tun[svc].up = TRUE
<1>1. s.tun \in [Svc -> Tun] /\ s.tun[svc] \in Tun
  BY SysFields, Zenon
<1>2. PICK a : a = [s.tun EXCEPT ![svc] = [s.tun[svc] EXCEPT !.ep = IF @ = NoEp THEN ep ELSE @]]
  BY Zenon
<1>3. PICK b : b = [a EXCEPT ![svc] = [a[svc] EXCEPT !.up = TRUE]]
  BY Zenon
<1>4. a \in [Svc -> Tun] /\ \A v \in Svc : v # svc => a[v] = s.tun[v]
  BY <1>1, <1>2, Zenon DEF Tun
<1>5. b \in [Svc -> Tun] /\ \A v \in Svc : v # svc => b[v] = s.tun[v]
  BY <1>3, <1>4, Zenon DEF Tun
<1>6. PICK made, up : made = [s EXCEPT !.tun = a] /\ up = [made EXCEPT !.tun = b]
  BY Zenon
<1>7. /\ made \in SysType /\ made.tun = a /\ made.routes = s.routes /\ made.rules = s.rules
      /\ made.peers = s.peers /\ made.worker = s.worker
  BY <1>4, <1>6, SetTun, Zenon
<1>8. /\ up \in SysType /\ up.tun = b /\ up.routes = s.routes /\ up.rules = s.rules
      /\ up.peers = s.peers /\ up.worker = s.worker
  BY <1>5, <1>6, <1>7, SetTun, Zenon
<1>9. made = [s EXCEPT !.tun[svc].ep = IF @ = NoEp THEN ep ELSE @]
  BY <1>2, <1>6, Zenon
<1>10. up = [made EXCEPT !.tun[svc].up = TRUE]
  BY <1>3, <1>6, <1>7, Zenon
<1>11. x \in {Ok(up), Fault(s), Fault(made), Fault(up)}
  BY <1>9, <1>10, Zenon DEF CreateTunnel
<1>12. s.tun[svc].ep = NoEp => b[svc].ep = ep /\ b[svc].up = TRUE
  BY <1>1, <1>2, <1>3, <1>4, Zenon DEF Tun
<1>13. CASE x = Ok(up)
  BY <1>5, <1>8, <1>12, <1>13, Outcomes
<1>14. CASE x = Fault(up)
  BY <1>5, <1>8, <1>14, Outcomes
<1>15. CASE x = Fault(made)
  BY <1>4, <1>7, <1>15, Outcomes
<1>16. CASE x = Fault(s)
  BY <1>16, Outcomes, Zenon
<1> QED
  BY <1>11, <1>13, <1>14, <1>15, <1>16, Zenon

\* Tunnels are equal when their fields are.
LEMMA TunEq ==
  ASSUME NEW v \in Tun, NEW e
  PROVE  /\ v = NoTunnel <=> v.ep = NoEp /\ v.up = FALSE
         /\ v = [ep |-> e, up |-> TRUE] <=> v.ep = e /\ v.up = TRUE
BY DEF Tun, NoTunnel

\* TunnelDown and TunnelDelete.
LEMMA RemoveTunnelOut ==
  ASSUME NEW s \in SysType, NEW svc \in Svc, NEW x \in RemoveTunnel(s, svc)
  PROVE  /\ x \in Outcome /\ x.end # "hang"
         /\ x.sys.rules = s.rules /\ x.sys.peers = s.peers /\ x.sys.worker = s.worker
         /\ svc # "multicast" => x.sys.routes = s.routes
         /\ \A v \in Svc : v # svc => x.sys.tun[v] = s.tun[v]
         /\ ~x.harm /\ s.tun[svc].ep # NoEp =>
              /\ x.end = "ok" /\ x.sys.tun[svc] = NoTunnel
              /\ svc = "multicast" => \A g \in Group : x.sys.routes[g] = "none"
<1>1. s.tun \in [Svc -> Tun] /\ s.tun[svc] \in Tun
  BY SysFields, Zenon
<1>2. PICK a : a = [s.tun EXCEPT ![svc] = [s.tun[svc] EXCEPT !.up = FALSE]]
  BY Zenon
<1>3. a \in [Svc -> Tun] /\ \A v \in Svc : v # svc => a[v] = s.tun[v]
  BY <1>1, <1>2, Zenon DEF Tun
<1>4. PICK s1 : s1 = [s EXCEPT !.tun = a]
  BY Zenon
<1>5. /\ s1 \in SysType /\ s1.tun = a /\ s1.routes = s.routes /\ s1.rules = s.rules
      /\ s1.peers = s.peers /\ s1.worker = s.worker
  BY <1>3, <1>4, SetTun, Zenon
<1>6. s1 = [s EXCEPT !.tun[svc].up = FALSE]
  BY <1>2, <1>4, Zenon
<1>7. PICK down : down = WithoutRoutes(s1, svc)
  BY Zenon
<1>8. /\ down \in SysType /\ down.tun = a /\ down.rules = s.rules
      /\ down.peers = s.peers /\ down.worker = s.worker
      /\ svc # "multicast" => down.routes = s.routes
      /\ svc = "multicast" => \A g \in Group : down.routes[g] = "none"
  <2>1. CASE svc = "multicast"
    <3>1. PICK v : v = [g \in Group |-> "none"]
      BY Zenon
    <3>2. v \in [Group -> {"none", "src", "plain"}] /\ \A g \in Group : v[g] = "none"
      BY <3>1, Zenon
    <3>3. down = [s1 EXCEPT !.routes = v]
      BY <1>7, <2>1, <3>1, Zenon DEF WithoutRoutes
    <3> QED
      BY <1>5, <2>1, <3>2, <3>3, SetRoute, Zenon
  <2>2. CASE svc # "multicast"
    BY <1>5, <1>7, <2>2, Zenon DEF WithoutRoutes
  <2> QED
    BY <2>1, <2>2, Zenon
<1>9. PICK b : b = [a EXCEPT ![svc] = NoTunnel]
  BY Zenon
<1>10. b \in [Svc -> Tun] /\ b[svc] = NoTunnel /\ \A v \in Svc : v # svc => b[v] = s.tun[v]
  BY <1>3, <1>9, Zenon DEF Tun, NoTunnel
<1>11. PICK gone : gone = [down EXCEPT !.tun = b]
  BY Zenon
<1>12. /\ gone \in SysType /\ gone.tun = b /\ gone.rules = s.rules
       /\ gone.peers = s.peers /\ gone.worker = s.worker /\ gone.routes = down.routes
  BY <1>8, <1>10, <1>11, SetTun, Zenon
<1>13. gone = [down EXCEPT !.tun[svc] = NoTunnel]
  BY <1>8, <1>9, <1>11, Zenon
<1>14. IF s.tun[svc].ep = NoEp THEN x = Error(s) ELSE x \in {Ok(gone), Fault(s), Fault(down)}
  BY <1>6, <1>7, <1>13, Zenon DEF RemoveTunnel
<1>15. CASE x = Error(s) /\ s.tun[svc].ep = NoEp
  BY <1>15, Outcomes, Zenon
<1>16. CASE x = Ok(gone)
  BY <1>8, <1>10, <1>12, <1>16, Outcomes
<1>17. CASE x = Fault(down)
  BY <1>3, <1>8, <1>17, Outcomes
<1>18. CASE x = Fault(s)
  BY <1>18, Outcomes, Zenon
<1> QED
  BY <1>14, <1>15, <1>16, <1>17, <1>18, Zenon

\* AddPeer and DeletePeer of the BGP server, as a service calls them.
LEMMA PeerOut ==
  ASSUME NEW s \in SysType, NEW svc \in Svc, NEW ep \in Endpoint
  PROVE  /\ \A x \in AddPeer(s, svc, ep) :
              /\ x \in Outcome /\ x.end # "hang"
              /\ x.sys.tun = s.tun /\ x.sys.routes = s.routes /\ x.sys.rules = s.rules
              /\ x.sys.worker = s.worker
              /\ \A v \in Svc : \A e \in Endpoint : v # svc =>
                   (<<v, e>> \in x.sys.peers <=> <<v, e>> \in s.peers)
              /\ ~x.harm =>
                   /\ x.end = "ok"
                   /\ Peered(s, svc, {}) => Peered(x.sys, svc, {ep})
         /\ \A x \in DeletePeer(s, svc, ep) :
              /\ x \in Outcome /\ x.end = "ok"
              /\ x.sys.tun = s.tun /\ x.sys.routes = s.routes /\ x.sys.rules = s.rules
              /\ x.sys.worker = s.worker
              /\ \A v \in Svc : \A e \in Endpoint : v # svc =>
                   (<<v, e>> \in x.sys.peers <=> <<v, e>> \in s.peers)
              /\ Peered(s, svc, {ep}) => Peered(x.sys, svc, {})
<1>1. s.peers \in SUBSET (Svc \X Endpoint)
  BY SysFields, Zenon
<1>2. PICK a, b : a = s.peers \cup {<<svc, ep>>} /\ b = s.peers \ {<<svc, ep>>}
  BY Zenon
<1>3. a \in SUBSET (Svc \X Endpoint) /\ b \in SUBSET (Svc \X Endpoint)
  BY <1>1, <1>2
<1>4. \A v \in Svc : \A e \in Endpoint : v # svc =>
          (<<v, e>> \in a <=> <<v, e>> \in s.peers) /\ (<<v, e>> \in b <=> <<v, e>> \in s.peers)
  BY <1>2, Zenon
<1>5. \A e \in Endpoint : (<<svc, e>> \in a <=> <<svc, e>> \in s.peers \/ e = ep)
                       /\ (<<svc, e>> \in b <=> <<svc, e>> \in s.peers /\ e # ep)
  BY <1>2, Zenon
<1>6. PICK p, q : p = [s EXCEPT !.peers = a] /\ q = [s EXCEPT !.peers = b]
  BY Zenon
<1>7. /\ p \in SysType /\ p.tun = s.tun /\ p.routes = s.routes /\ p.rules = s.rules
      /\ p.peers = a /\ p.worker = s.worker
  BY <1>3, <1>6, SetPeers, Zenon
<1>8. /\ q \in SysType /\ q.tun = s.tun /\ q.routes = s.routes /\ q.rules = s.rules
      /\ q.peers = b /\ q.worker = s.worker
  BY <1>3, <1>6, SetPeers, Zenon
<1>9. AddPeer(s, svc, ep) = {Ok(p), Fault(s)} /\ DeletePeer(s, svc, ep) = {Ok(q)}
  BY <1>2, <1>6, Zenon DEF AddPeer, DeletePeer
<1>10. Peered(s, svc, {}) => Peered(p, svc, {ep})
  BY <1>5, <1>7, Zenon DEF Peered
<1>11. Peered(s, svc, {ep}) => Peered(q, svc, {})
  BY <1>5, <1>8, Zenon DEF Peered
<1>12. ASSUME NEW x \in AddPeer(s, svc, ep)
       PROVE  /\ x \in Outcome /\ x.end # "hang"
              /\ x.sys.tun = s.tun /\ x.sys.routes = s.routes /\ x.sys.rules = s.rules
              /\ x.sys.worker = s.worker
              /\ \A v \in Svc : \A e \in Endpoint : v # svc =>
                   (<<v, e>> \in x.sys.peers <=> <<v, e>> \in s.peers)
              /\ ~x.harm =>
                   /\ x.end = "ok"
                   /\ Peered(s, svc, {}) => Peered(x.sys, svc, {ep})
  <2>1. CASE x = Ok(p)
    BY <1>4, <1>7, <1>10, <2>1, Outcomes, Zenon
  <2>2. CASE x = Fault(s)
    BY <2>2, Outcomes, Zenon
  <2> QED
    BY <1>9, <2>1, <2>2, Zenon
<1>13. ASSUME NEW x \in DeletePeer(s, svc, ep)
       PROVE  /\ x \in Outcome /\ x.end = "ok"
              /\ x.sys.tun = s.tun /\ x.sys.routes = s.routes /\ x.sys.rules = s.rules
              /\ x.sys.worker = s.worker
              /\ \A v \in Svc : \A e \in Endpoint : v # svc =>
                   (<<v, e>> \in x.sys.peers <=> <<v, e>> \in s.peers)
              /\ Peered(s, svc, {ep}) => Peered(x.sys, svc, {})
  <2>1. x = Ok(q)
    BY <1>9, Zenon
  <2> QED
    BY <1>4, <1>8, <1>11, <2>1, Outcomes, Zenon
<1> QED
  BY <1>12, <1>13, Zenon

\* What a unicast operation may do to the system in any case.
UniOut(s, x) == x \in Outcome /\ x.end # "hang" /\ MultiSame(s, x.sys)

\* MultiSame is transitive.
LEMMA MultiSameTrans ==
  ASSUME NEW s, NEW t, NEW u, MultiSame(s, t), MultiSame(t, u)
  PROVE  MultiSame(s, u)
BY Zenon DEF MultiSame

\* The two services.
LEMMA SvcNames == "unicast" \in Svc /\ "multicast" \in Svc
BY Zenon DEF Svc

\* createBaseTunnel for the unicast slot.
LEMMA CreateUni ==
  ASSUME NEW s \in SysType, NEW ep \in Endpoint, NEW x \in CreateTunnel(s, "unicast", ep)
  PROVE  /\ UniOut(s, x) /\ x.sys.rules = s.rules /\ x.sys.peers = s.peers
         /\ ~x.harm /\ s.tun["unicast"] = NoTunnel =>
              x.end = "ok" /\ x.sys.tun["unicast"] = [ep |-> ep, up |-> TRUE]
<1>1. /\ x \in Outcome /\ x.end # "hang"
      /\ x.sys.routes = s.routes /\ x.sys.rules = s.rules /\ x.sys.peers = s.peers
      /\ x.sys.worker = s.worker
      /\ \A v \in Svc : v # "unicast" => x.sys.tun[v] = s.tun[v]
      /\ ~x.harm /\ s.tun["unicast"].ep = NoEp =>
              x.end = "ok" /\ x.sys.tun["unicast"].ep = ep /\ x.sys.tun["unicast"].up = TRUE
  BY SvcNames, CreateTunnelOut, Zenon
<1>2. UniOut(s, x)
  BY <1>1, SvcNames, Zenon DEF UniOut, MultiSame
<1>3. x.sys \in SysType
  BY <1>1, Zenon DEF Outcome
<1>4. s.tun["unicast"] \in Tun /\ x.sys.tun["unicast"] \in Tun
  BY <1>3, SysFields, SvcNames, Zenon
<1> QED
  BY <1>1, <1>2, <1>4, TunEq, Zenon

\* AddPeer for the unicast slot.
LEMMA AddUni ==
  ASSUME NEW s \in SysType, NEW ep \in Endpoint, NEW x \in AddPeer(s, "unicast", ep)
  PROVE  /\ UniOut(s, x) /\ x.sys.rules = s.rules /\ x.sys.tun = s.tun
         /\ ~x.harm => x.end = "ok"
         /\ ~x.harm /\ Peered(s, "unicast", {}) => Peered(x.sys, "unicast", {ep})
<1>1. /\ x \in Outcome /\ x.end # "hang"
      /\ x.sys.tun = s.tun /\ x.sys.routes = s.routes /\ x.sys.rules = s.rules
      /\ x.sys.worker = s.worker
      /\ \A v \in Svc : \A e \in Endpoint : v # "unicast" =>
           (<<v, e>> \in x.sys.peers <=> <<v, e>> \in s.peers)
      /\ ~x.harm =>
           /\ x.end = "ok"
           /\ Peered(s, "unicast", {}) => Peered(x.sys, "unicast", {ep})
  BY SvcNames, PeerOut, Zenon
<1> QED
  BY <1>1, SvcNames, Zenon DEF UniOut, MultiSame

\* DeletePeer for the unicast slot.
LEMMA DeleteUni ==
  ASSUME NEW s \in SysType, NEW ep \in Endpoint, NEW x \in DeletePeer(s, "unicast", ep)
  PROVE  /\ UniOut(s, x) /\ x.sys.rules = s.rules /\ x.sys.tun = s.tun /\ x.end = "ok"
         /\ Peered(s, "unicast", {ep}) => Peered(x.sys, "unicast", {})
<1>1. /\ x \in Outcome /\ x.end = "ok"
      /\ x.sys.tun = s.tun /\ x.sys.routes = s.routes /\ x.sys.rules = s.rules
      /\ x.sys.worker = s.worker
      /\ \A v \in Svc : \A e \in Endpoint : v # "unicast" =>
           (<<v, e>> \in x.sys.peers <=> <<v, e>> \in s.peers)
      /\ Peered(s, "unicast", {ep}) => Peered(x.sys, "unicast", {})
  BY SvcNames, PeerOut, Zenon
<1> QED
  BY <1>1, SvcNames, Zenon DEF UniOut, MultiSame

\* Removal of the tunnel of the unicast slot.
LEMMA RemoveUni ==
  ASSUME NEW s \in SysType, NEW x \in RemoveTunnel(s, "unicast")
  PROVE  /\ UniOut(s, x) /\ x.sys.rules = s.rules /\ x.sys.peers = s.peers
         /\ ~x.harm /\ s.tun["unicast"].ep # NoEp => x.end = "ok" /\ x.sys.tun["unicast"] = NoTunnel
<1>1. /\ x \in Outcome /\ x.end # "hang"
      /\ x.sys.rules = s.rules /\ x.sys.peers = s.peers /\ x.sys.worker = s.worker
      /\ x.sys.routes = s.routes
      /\ \A v \in Svc : v # "unicast" => x.sys.tun[v] = s.tun[v]
      /\ ~x.harm /\ s.tun["unicast"].ep # NoEp => x.end = "ok" /\ x.sys.tun["unicast"] = NoTunnel
  BY SvcNames, RemoveTunnelOut
<1> QED
  BY <1>1, SvcNames, Zenon DEF UniOut, MultiSame

\* IBRLService.Setup: without a failure it ends well and the service is up.
LEMMA SetupIBRLOut ==
  ASSUME NEW s \in SysType, NEW r \in Req, NEW x \in SetupIBRL(s, r), r.kind = "ibrl"
  PROVE  /\ UniOut(s, x)
         /\ ~x.harm /\ UniAt(s, NoReq) => x.end = "ok" /\ UniAt(x.sys, r)
<1>1. r.ep \in Endpoint /\ r # NoReq
  BY ReconcilerAssumption, Zenon DEF Req
<1>2. PICK o \in CreateTunnel(s, "unicast", r.ep) :
        \/ o.end # "ok" /\ x = o
        \/ o.end = "ok" /\ \E p \in AddPeer(o.sys, "unicast", r.ep) : x = With(p, o)
  BY DEF SetupIBRL, Then, With
<1>3. /\ UniOut(s, o) /\ o.sys.rules = s.rules /\ o.sys.peers = s.peers
      /\ ~o.harm /\ s.tun["unicast"] = NoTunnel =>
              o.end = "ok" /\ o.sys.tun["unicast"] = [ep |-> r.ep, up |-> TRUE]
  BY <1>1, CreateUni, Zenon
<1>4. o \in Outcome /\ o.sys \in SysType
  BY <1>3, Zenon DEF UniOut, Outcome
<1>5. CASE o.end # "ok" /\ x = o
  BY <1>3, <1>5, Zenon DEF UniAt
<1>6. CASE o.end = "ok" /\ \E p \in AddPeer(o.sys, "unicast", r.ep) : x = With(p, o)
  <2>1. PICK p \in AddPeer(o.sys, "unicast", r.ep) : x = With(p, o)
    BY <1>6, Zenon
  <2>2. /\ UniOut(o.sys, p) /\ p.sys.rules = o.sys.rules /\ p.sys.tun = o.sys.tun
        /\ ~p.harm => p.end = "ok"
        /\ ~p.harm /\ Peered(o.sys, "unicast", {}) => Peered(p.sys, "unicast", {r.ep})
    BY <1>1, <1>4, AddUni, Zenon
  <2>3. /\ x \in Outcome /\ x.sys = p.sys /\ x.end = p.end /\ (~x.harm => ~p.harm /\ ~o.harm)
    BY <1>4, <2>1, <2>2, WithOutcome, Zenon DEF UniOut
  <2>4. UniOut(s, x)
    BY <1>3, <2>2, <2>3, MultiSameTrans, Zenon DEF UniOut
  <2>5. Peered(s, "unicast", {}) => Peered(o.sys, "unicast", {})
    BY <1>3, Zenon DEF Peered
  <2>6. ASSUME ~x.harm, UniAt(s, NoReq) PROVE x.end = "ok" /\ UniAt(x.sys, r)
    BY <1>1, <1>3, <2>2, <2>3, <2>5, <2>6, Zenon DEF UniAt
  <2> QED
    BY <2>4, <2>6, Zenon
<1> QED
  BY <1>2, <1>5, <1>6, Zenon

\* IBRLService.Teardown: without a failure nothing is left.
LEMMA TeardownIBRLOut ==
  ASSUME NEW s \in SysType, NEW r \in Req, NEW x \in TeardownIBRL(s, r), r.kind = "ibrl"
  PROVE  /\ UniOut(s, x)
         /\ ~x.harm /\ UniAt(s, r) => x.end = "ok" /\ UniAt(x.sys, NoReq)
<1>1. r.ep \in Endpoint /\ r # NoReq /\ r.ep # NoEp
  BY ReconcilerAssumption, Zenon DEF Req
<1>2. PICK o \in DeletePeer(s, "unicast", r.ep) :
        \/ o.end # "ok" /\ x = o
        \/ o.end = "ok" /\ \E p \in RemoveTunnel(o.sys, "unicast") : x = With(p, o)
  BY DEF TeardownIBRL, Then, With
<1>3. /\ UniOut(s, o) /\ o.sys.rules = s.rules /\ o.sys.tun = s.tun /\ o.end = "ok"
      /\ Peered(s, "unicast", {r.ep}) => Peered(o.sys, "unicast", {})
  BY <1>1, DeleteUni, Zenon
<1>4. o \in Outcome /\ o.sys \in SysType
  BY <1>3, Zenon DEF UniOut, Outcome
<1>5. PICK p \in RemoveTunnel(o.sys, "unicast") : x = With(p, o)
  BY <1>2, <1>3, Zenon
<1>6. /\ UniOut(o.sys, p) /\ p.sys.rules = o.sys.rules /\ p.sys.peers = o.sys.peers
      /\ ~p.harm /\ o.sys.tun["unicast"].ep # NoEp => p.end = "ok" /\ p.sys.tun["unicast"] = NoTunnel
  BY <1>4, RemoveUni, Zenon
<1>7. /\ x \in Outcome /\ x.sys = p.sys /\ x.end = p.end /\ (~x.harm => ~p.harm /\ ~o.harm)
  BY <1>4, <1>5, <1>6, WithOutcome, Zenon DEF UniOut
<1>8. UniOut(s, x)
  BY <1>3, <1>6, <1>7, MultiSameTrans, Zenon DEF UniOut
<1>9. ASSUME ~x.harm, UniAt(s, r) PROVE x.end = "ok" /\ UniAt(x.sys, NoReq)
  <2>1. Peered(p.sys, "unicast", {})
    BY <1>1, <1>3, <1>6, <1>9, Zenon DEF UniAt, Peered
  <2> QED
    BY <1>1, <1>3, <1>6, <1>7, <1>9, <2>1 DEF UniAt
<1> QED
  BY <1>8, <1>9, Zenon

\* Rules of edge filtering.
LEMMA RulesOut ==
  ASSUME NEW s \in SysType
  PROVE  /\ \A x \in CreateRules(s) :
              /\ UniOut(s, x) /\ x.sys.tun = s.tun /\ x.sys.peers = s.peers
              /\ ~x.harm => x.end = "ok"
         /\ \A x \in FlushRules(s) :
              /\ UniOut(s, x) /\ x.sys.tun = s.tun /\ x.sys.peers = s.peers
              /\ ~x.harm => x.end = "ok" /\ (s.rules = "owned" => x.sys.rules = "none")
         /\ \A x \in {Ok([s EXCEPT !.rules = "owned"])} :
              /\ UniOut(s, x) /\ x.sys.tun = s.tun /\ x.sys.peers = s.peers
              /\ x.end = "ok" /\ x.sys.rules = "owned"
<1>1. ASSUME NEW v \in {"none", "owned", "leaked"}
      PROVE  /\ [s EXCEPT !.rules = v] \in SysType /\ [s EXCEPT !.rules = v].tun = s.tun
             /\ [s EXCEPT !.rules = v].rules = v /\ [s EXCEPT !.rules = v].peers = s.peers
             /\ MultiSame(s, [s EXCEPT !.rules = v])
  BY SetRules, Zenon DEF MultiSame
<1>2. MultiSame(s, s)
  BY Zenon DEF MultiSame
<1>3. PICK none, owned, leaked :
        /\ none = [s EXCEPT !.rules = "none"] /\ owned = [s EXCEPT !.rules = "owned"]
        /\ leaked = [s EXCEPT !.rules = "leaked"]
  BY Zenon
<1>4. /\ none \in SysType /\ none.tun = s.tun /\ none.peers = s.peers
      /\ none.rules = "none" /\ MultiSame(s, none)
  BY <1>1, <1>3, Zenon
<1>5. /\ owned \in SysType /\ owned.tun = s.tun /\ owned.peers = s.peers
      /\ owned.rules = "owned" /\ MultiSame(s, owned)
  BY <1>1, <1>3, Zenon
<1>6. /\ leaked \in SysType /\ leaked.tun = s.tun /\ leaked.peers = s.peers
      /\ leaked.rules = "leaked" /\ MultiSame(s, leaked)
  BY <1>1, <1>3, Zenon
<1>7. CreateRules(s) = {Ok(leaked), Fault(s), Fault(leaked)}
  BY <1>3, Zenon DEF CreateRules
<1>8. FlushRules(s) = IF s.rules # "owned" THEN {Ok(s)} ELSE {Ok(none), Fault(leaked), Lapse(leaked)}
  BY <1>3, Zenon DEF FlushRules
<1>9. ASSUME NEW x \in CreateRules(s)
      PROVE  /\ UniOut(s, x) /\ x.sys.tun = s.tun /\ x.sys.peers = s.peers
             /\ ~x.harm => x.end = "ok"
  <2>1. CASE x = Ok(leaked)
    BY <1>6, <2>1, Outcomes, Zenon DEF UniOut
  <2>2. CASE x = Fault(s)
    BY <1>2, <2>2, Outcomes, Zenon DEF UniOut
  <2>3. CASE x = Fault(leaked)
    BY <1>6, <2>3, Outcomes, Zenon DEF UniOut
  <2> QED
    BY <1>7, <2>1, <2>2, <2>3, Zenon
<1>10. ASSUME NEW x \in FlushRules(s)
      PROVE  /\ UniOut(s, x) /\ x.sys.tun = s.tun /\ x.sys.peers = s.peers
             /\ ~x.harm => x.end = "ok" /\ (s.rules = "owned" => x.sys.rules = "none")
  <2>1. CASE x = Ok(s) /\ s.rules # "owned"
    BY <1>2, <2>1, Outcomes, Zenon DEF UniOut
  <2>2. CASE x = Ok(none)
    BY <1>4, <2>2, Outcomes, Zenon DEF UniOut
  <2>3. CASE x = Fault(leaked)
    BY <1>6, <2>3, Outcomes, Zenon DEF UniOut
  <2>4. CASE x = Lapse(leaked)
    BY <1>6, <2>4, Outcomes, Zenon DEF UniOut
  <2> QED
    BY <1>8, <2>1, <2>2, <2>3, <2>4, Zenon
<1>11. ASSUME NEW x \in {Ok([s EXCEPT !.rules = "owned"])}
      PROVE  /\ UniOut(s, x) /\ x.sys.tun = s.tun /\ x.sys.peers = s.peers
             /\ x.end = "ok" /\ x.sys.rules = "owned"
  <2>1. x = Ok(owned)
    BY <1>3, Zenon
  <2> QED
    BY <1>5, <2>1, Outcomes, Zenon DEF UniOut
<1> QED
  BY <1>9, <1>10, <1>11, Zenon

\* One unicast call after another.
LEMMA UniThen ==
  ASSUME NEW s, NEW o, NEW p, NEW x, UniOut(s, o), UniOut(o.sys, p), x = With(p, o)
  PROVE  /\ UniOut(s, x) /\ x.sys = p.sys /\ x.end = p.end
         /\ ~x.harm => ~p.harm /\ ~o.harm
<1>1. /\ x \in Outcome /\ x.sys = p.sys /\ x.end = p.end /\ (~x.harm => ~p.harm /\ ~o.harm)
  BY WithOutcome, Zenon DEF UniOut
<1>2. MultiSame(s, x.sys)
  BY <1>1, MultiSameTrans, Zenon DEF UniOut
<1> QED
  BY <1>1, <1>2, Zenon DEF UniOut

\* EdgeFilteringService.Setup.
LEMMA SetupEdgeOut ==
  ASSUME NEW s \in SysType, NEW r \in Req, NEW x \in SetupEdgeFiltering(s, r), r.kind = "edge"
  PROVE  /\ UniOut(s, x)
         /\ ~x.harm /\ UniAt(s, NoReq) => x.end = "ok" /\ UniAt(x.sys, r)
<1>1. r.ep \in Endpoint /\ r # NoReq
  BY ReconcilerAssumption, Zenon DEF Req
<1>2. PICK A : A = CreateTunnel(s, "unicast", r.ep)
  BY Zenon
<1>3. PICK B : B = Then(A, CreateRules)
  BY Zenon
<1>4. PICK C : C = Then(B, LAMBDA t : AddPeer(t, "unicast", r.ep))
  BY Zenon
<1>5. x \in Then(C, LAMBDA t : {Ok([t EXCEPT !.rules = "owned"])})
  BY <1>2, <1>3, <1>4, Zenon DEF SetupEdgeFiltering
<1>6. PICK c \in C :
        \/ c.end # "ok" /\ x = c
        \/ c.end = "ok" /\ \E p \in {Ok([c.sys EXCEPT !.rules = "owned"])} : x = With(p, c)
  BY <1>5, Zenon DEF Then, With
<1>7. PICK b \in B :
        \/ b.end # "ok" /\ c = b
        \/ b.end = "ok" /\ \E p \in AddPeer(b.sys, "unicast", r.ep) : c = With(p, b)
  BY <1>4, <1>6 DEF Then, With
<1>8. PICK a \in A :
        \/ a.end # "ok" /\ b = a
        \/ a.end = "ok" /\ \E p \in CreateRules(a.sys) : b = With(p, a)
  BY <1>3, <1>7 DEF Then, With
<1>9. /\ UniOut(s, a) /\ a.sys.peers = s.peers
      /\ ~a.harm /\ s.tun["unicast"] = NoTunnel =>
              a.end = "ok" /\ a.sys.tun["unicast"] = [ep |-> r.ep, up |-> TRUE]
  BY <1>1, <1>2, <1>8, CreateUni, Zenon
<1>10. /\ UniOut(s, b) /\ b.sys.peers = s.peers
       /\ ~b.harm /\ s.tun["unicast"] = NoTunnel =>
               b.end = "ok" /\ b.sys.tun["unicast"] = [ep |-> r.ep, up |-> TRUE]
  <2>1. CASE a.end # "ok" /\ b = a
    BY <1>9, <2>1, Zenon
  <2>2. CASE a.end = "ok" /\ \E p \in CreateRules(a.sys) : b = With(p, a)
    <3>1. PICK p \in CreateRules(a.sys) : b = With(p, a)
      BY <2>2, Zenon
    <3>2. a.sys \in SysType
      BY <1>9, Zenon DEF UniOut, Outcome
    <3>3. /\ UniOut(a.sys, p) /\ p.sys.tun = a.sys.tun /\ p.sys.peers = a.sys.peers
          /\ ~p.harm => p.end = "ok"
      BY <3>1, <3>2, RulesOut, Zenon
    <3>4. /\ UniOut(s, b) /\ b.sys = p.sys /\ b.end = p.end /\ (~b.harm => ~p.harm /\ ~a.harm)
      BY <1>9, <3>1, <3>3, UniThen
    <3> QED
      BY <1>9, <3>3, <3>4, Zenon
  <2> QED
    BY <1>8, <2>1, <2>2, Zenon
<1>11. /\ UniOut(s, c)
       /\ ~c.harm /\ s.tun["unicast"] = NoTunnel /\ Peered(s, "unicast", {}) =>
            /\ c.end = "ok" /\ c.sys.tun["unicast"] = [ep |-> r.ep, up |-> TRUE]
            /\ Peered(c.sys, "unicast", {r.ep})
  <2>1. CASE b.end # "ok" /\ c = b
    BY <1>10, <2>1, Zenon
  <2>2. CASE b.end = "ok" /\ \E p \in AddPeer(b.sys, "unicast", r.ep) : c = With(p, b)
    <3>1. PICK p \in AddPeer(b.sys, "unicast", r.ep) : c = With(p, b)
      BY <2>2, Zenon
    <3>2. b.sys \in SysType
      BY <1>10, Zenon DEF UniOut, Outcome
    <3>3. /\ UniOut(b.sys, p) /\ p.sys.tun = b.sys.tun
          /\ ~p.harm => p.end = "ok"
          /\ ~p.harm /\ Peered(b.sys, "unicast", {}) => Peered(p.sys, "unicast", {r.ep})
      BY <1>1, <3>1, <3>2, AddUni, Zenon
    <3>4. /\ UniOut(s, c) /\ c.sys = p.sys /\ c.end = p.end /\ (~c.harm => ~p.harm /\ ~b.harm)
      BY <1>10, <3>1, <3>3, UniThen
    <3>5. Peered(s, "unicast", {}) => Peered(b.sys, "unicast", {})
      BY <1>10, Zenon DEF Peered
    <3> QED
      BY <1>10, <3>3, <3>4, <3>5, Zenon
  <2> QED
    BY <1>7, <2>1, <2>2, Zenon
<1>12. CASE c.end # "ok" /\ x = c
  BY <1>11, <1>12, Zenon DEF UniAt
<1>13. CASE c.end = "ok" /\ \E p \in {Ok([c.sys EXCEPT !.rules = "owned"])} : x = With(p, c)
  <2>1. PICK p \in {Ok([c.sys EXCEPT !.rules = "owned"])} : x = With(p, c)
    BY <1>13, Zenon
  <2>2. c.sys \in SysType
    BY <1>11, Zenon DEF UniOut, Outcome
  <2>3. /\ UniOut(c.sys, p) /\ p.sys.tun = c.sys.tun /\ p.sys.peers = c.sys.peers
        /\ p.end = "ok" /\ p.sys.rules = "owned"
    BY <2>1, <2>2, RulesOut, Zenon
  <2>4. /\ UniOut(s, x) /\ x.sys = p.sys /\ x.end = p.end /\ (~x.harm => ~p.harm /\ ~c.harm)
    BY <1>11, <2>1, <2>3, UniThen
  <2>5. Peered(c.sys, "unicast", {r.ep}) => Peered(x.sys, "unicast", {r.ep})
    BY <2>3, <2>4, Zenon DEF Peered
  <2>6. ASSUME ~x.harm, UniAt(s, NoReq) PROVE x.end = "ok" /\ UniAt(x.sys, r)
    BY <1>1, <1>11, <2>3, <2>4, <2>5, <2>6, Zenon DEF UniAt
  <2> QED
    BY <2>4, <2>6, Zenon
<1> QED
  BY <1>6, <1>12, <1>13, Zenon

\* An outcome p after an outcome o whose error, if any, is remembered.
Over(p, o) ==
    [p EXCEPT !.harm = @ \/ o.harm, !.end = IF @ = "ok" THEN o.end ELSE @]

\* What Over makes of two outcomes.
LEMMA OverOutcome ==
  ASSUME NEW p \in Outcome, NEW o \in Outcome
  PROVE  /\ Over(p, o) \in Outcome /\ Over(p, o).sys = p.sys
         /\ Over(p, o).end \in {p.end, o.end}
         /\ p.end = "ok" /\ o.end = "ok" => Over(p, o).end = "ok"
         /\ ~Over(p, o).harm => ~p.harm /\ ~o.harm
<1>1. (p.harm \/ o.harm) \in BOOLEAN
  BY Zenon DEF Outcome
<1>2. PICK h \in BOOLEAN : h = (p.harm \/ o.harm)
  BY <1>1, Zenon
<1>3. PICK e : e = IF p.end = "ok" THEN o.end ELSE p.end
  BY Zenon
<1>4. Over(p, o) = [p EXCEPT !.harm = h, !.end = e]
  BY <1>2, <1>3, Zenon DEF Over
<1>5. e \in {"ok", "error", "hang"}
  BY <1>3, Zenon DEF Outcome
<1>6. /\ Over(p, o) \in Outcome /\ Over(p, o).sys = p.sys /\ Over(p, o).end = e
      /\ Over(p, o).harm = h
  BY <1>4, <1>5, Zenon DEF Outcome
<1> QED
  BY <1>2, <1>3, <1>6, Zenon

\* One unicast call after another whose error is remembered.
LEMMA UniOver ==
  ASSUME NEW s, NEW o, NEW p, NEW x, UniOut(s, o), UniOut(o.sys, p), x = Over(p, o)
  PROVE  /\ UniOut(s, x) /\ x.sys = p.sys /\ (p.end = "ok" /\ o.end = "ok" => x.end = "ok")
         /\ ~x.harm => ~p.harm /\ ~o.harm
<1>1. /\ x \in Outcome /\ x.sys = p.sys /\ x.end \in {p.end, o.end}
      /\ p.end = "ok" /\ o.end = "ok" => x.end = "ok"
      /\ ~x.harm => ~p.harm /\ ~o.harm
  BY OverOutcome, Zenon DEF UniOut
<1>2. MultiSame(s, x.sys)
  BY <1>1, MultiSameTrans, Zenon DEF UniOut
<1> QED
  BY <1>1, <1>2, Zenon DEF UniOut

\* EdgeFilteringService.Teardown.
LEMMA TeardownEdgeOut ==
  ASSUME NEW s \in SysType, NEW r \in Req, NEW x \in TeardownEdgeFiltering(s, r), r.kind = "edge"
  PROVE  /\ UniOut(s, x)
         /\ ~x.harm /\ UniAt(s, r) => x.end = "ok" /\ UniAt(x.sys, NoReq)
<1>1. r.ep \in Endpoint /\ r # NoReq /\ r.ep # NoEp
  BY ReconcilerAssumption, Zenon DEF Req
<1>2. PICK A : A = FlushRules(s)
  BY Zenon
<1>3. PICK B : B = Despite(A, LAMBDA t : DeletePeer(t, "unicast", r.ep))
  BY Zenon
<1>4. x \in Despite(B, LAMBDA t : RemoveTunnel(t, "unicast"))
  BY <1>2, <1>3, Zenon DEF TeardownEdgeFiltering
<1>5. PICK b \in B :
        \/ b.end = "hang" /\ x = b
        \/ b.end # "hang" /\ \E p \in RemoveTunnel(b.sys, "unicast") : x = Over(p, b)
  <2>1. x \in UNION {IF o.end = "hang" THEN {o}
                     ELSE {Over(p, o) : p \in RemoveTunnel(o.sys, "unicast")} : o \in B}
    BY <1>4, Zenon DEF Despite, Over
  <2> QED
    BY <2>1, Zenon
<1>6. PICK a \in A :
        \/ a.end = "hang" /\ b = a
        \/ a.end # "hang" /\ \E p \in DeletePeer(a.sys, "unicast", r.ep) : b = Over(p, a)
  <2>1. b \in UNION {IF o.end = "hang" THEN {o}
                     ELSE {Over(p, o) : p \in DeletePeer(o.sys, "unicast", r.ep)} : o \in A}
    BY <1>3, <1>5, Zenon DEF Despite, Over
  <2> QED
    BY <2>1, Zenon
<1>7. /\ UniOut(s, a) /\ a.sys.tun = s.tun /\ a.sys.peers = s.peers
      /\ ~a.harm => a.end = "ok" /\ (s.rules = "owned" => a.sys.rules = "none")
  BY <1>2, <1>6, RulesOut, Zenon
<1>8. PICK p \in DeletePeer(a.sys, "unicast", r.ep) : b = Over(p, a)
  BY <1>6, <1>7, Zenon DEF UniOut
<1>9. a.sys \in SysType
  BY <1>7, Zenon DEF UniOut, Outcome
<1>10. /\ UniOut(a.sys, p) /\ p.sys.rules = a.sys.rules /\ p.sys.tun = a.sys.tun /\ p.end = "ok"
       /\ Peered(a.sys, "unicast", {r.ep}) => Peered(p.sys, "unicast", {})
  BY <1>1, <1>8, <1>9, DeleteUni, Zenon
<1>11. /\ UniOut(s, b) /\ b.sys = p.sys /\ (a.end = "ok" => b.end = "ok")
       /\ ~b.harm => ~p.harm /\ ~a.harm
  BY <1>7, <1>8, <1>10, UniOver
<1>12. PICK q \in RemoveTunnel(b.sys, "unicast") : x = Over(q, b)
  BY <1>5, <1>11, Zenon DEF UniOut
<1>13. b.sys \in SysType
  BY <1>11, Zenon DEF UniOut, Outcome
<1>14. /\ UniOut(b.sys, q) /\ q.sys.rules = b.sys.rules /\ q.sys.peers = b.sys.peers
       /\ ~q.harm /\ b.sys.tun["unicast"].ep # NoEp => q.end = "ok" /\ q.sys.tun["unicast"] = NoTunnel
  BY <1>12, <1>13, RemoveUni, Zenon
<1>15. /\ UniOut(s, x) /\ x.sys = q.sys /\ (q.end = "ok" /\ b.end = "ok" => x.end = "ok")
       /\ ~x.harm => ~q.harm /\ ~b.harm
  BY <1>11, <1>12, <1>14, UniOver
<1>16. ASSUME ~x.harm, UniAt(s, r) PROVE x.end = "ok" /\ UniAt(x.sys, NoReq)
  <2>1. s.tun["unicast"].ep = r.ep /\ s.rules = "owned" /\ Peered(s, "unicast", {r.ep})
    BY <1>1, <1>16 DEF UniAt
  <2>2. Peered(q.sys, "unicast", {})
    BY <1>7, <1>10, <1>11, <1>14, <2>1, Zenon DEF Peered
  <2>3. q.end = "ok" /\ q.sys.tun["unicast"] = NoTunnel
    BY <1>1, <1>7, <1>10, <1>11, <1>14, <1>15, <1>16, <2>1, Zenon
  <2> QED
    BY <1>7, <1>10, <1>11, <1>14, <1>15, <1>16, <2>1, <2>2, <2>3, Zenon DEF UniAt
<1> QED
  BY <1>15, <1>16, Zenon

-----------------------------------------------------------------------------
\* What a call about routes and senders leaves alone.
Kept(s, t) == t.tun = s.tun /\ t.rules = s.rules /\ t.peers = s.peers

\* The senders other than those of W are as they were.
OthersKept(s, t, W) == \A u \in Worker : u \notin W => t.worker[u] = s.worker[u]

\* Setting the routes of some groups.
LEMMA SetRoutesAre ==
  ASSUME NEW s \in SysType, NEW gs, NEW kind \in {"none", "src", "plain"}
  PROVE  /\ SetRoutes(s, gs, kind) \in SysType /\ Kept(s, SetRoutes(s, gs, kind))
         /\ SetRoutes(s, gs, kind).worker = s.worker
         /\ \A g \in Group : SetRoutes(s, gs, kind).routes[g] = IF g \in gs THEN kind ELSE s.routes[g]
<1>1. s.routes \in [Group -> {"none", "src", "plain"}]
  BY SysFields, Zenon
<1>2. PICK v : v = [g \in Group |-> IF g \in gs THEN kind ELSE s.routes[g]]
  BY Zenon
<1>3. v \in [Group -> {"none", "src", "plain"}]
  BY <1>1, <1>2, Zenon
<1>4. SetRoutes(s, gs, kind) = [s EXCEPT !.routes = v]
  BY <1>2, Zenon DEF SetRoutes
<1> QED
  BY <1>2, <1>3, <1>4, SetRoute DEF Kept

\* A call that only changes routes, and how.
RouteCall(s, x, gs, kind) ==
    /\ x \in Outcome /\ x.end # "hang" /\ Kept(s, x.sys) /\ x.sys.worker = s.worker
    /\ ~x.harm => /\ x.end = "ok"
                  /\ \A g \in Group : x.sys.routes[g] = IF g \in gs THEN kind ELSE s.routes[g]

\* Doing nothing keeps everything.
LEMMA KeptSelf == ASSUME NEW s PROVE Kept(s, s)
BY Zenon DEF Kept

\* Adding routes.
LEMMA AddRoutesOut ==
  ASSUME NEW s \in SysType, NEW gs, NEW kind \in {"src", "plain"}, NEW x \in AddRoutes(s, gs, kind)
  PROVE  RouteCall(s, x, gs, kind)
<1>1. ASSUME NEW hs
      PROVE  /\ SetRoutes(s, hs, kind) \in SysType /\ Kept(s, SetRoutes(s, hs, kind))
             /\ SetRoutes(s, hs, kind).worker = s.worker
             /\ \A g \in Group : SetRoutes(s, hs, kind).routes[g] = IF g \in hs THEN kind ELSE s.routes[g]
  BY SetRoutesAre
<1>2. x = Ok(SetRoutes(s, gs, kind)) \/ \E hs : x = Fault(SetRoutes(s, hs, kind))
  BY Zenon DEF AddRoutes
<1>3. CASE x = Ok(SetRoutes(s, gs, kind))
  <2>1. PICK t : t = SetRoutes(s, gs, kind)
    BY Zenon
  <2>2. /\ t \in SysType /\ Kept(s, t) /\ t.worker = s.worker
        /\ \A g \in Group : t.routes[g] = IF g \in gs THEN kind ELSE s.routes[g]
    BY <1>1, <2>1, Zenon
  <2>3. x \in Outcome /\ x.sys = t /\ x.end = "ok"
    BY <1>3, <2>1, <2>2, Outcomes, Zenon
  <2> QED
    BY <2>2, <2>3, Zenon DEF RouteCall
<1>4. ASSUME NEW hs, x = Fault(SetRoutes(s, hs, kind)) PROVE RouteCall(s, x, gs, kind)
  BY <1>1, <1>4, Outcomes DEF RouteCall
<1> QED
  BY <1>2, <1>3, <1>4, Zenon

\* Deleting routes that are there.
LEMMA DeleteRoutesOut ==
  ASSUME NEW s \in SysType, NEW gs, NEW kinds, NEW x \in DeleteRoutes(s, gs, kinds)
  PROVE  /\ x \in Outcome /\ x.end # "hang" /\ Kept(s, x.sys) /\ x.sys.worker = s.worker
         /\ (\A g \in gs : s.routes[g] \in kinds) => RouteCall(s, x, gs, "none")
<1>1. ASSUME NEW hs
      PROVE  /\ SetRoutes(s, hs, "none") \in SysType /\ Kept(s, SetRoutes(s, hs, "none"))
             /\ SetRoutes(s, hs, "none").worker = s.worker
             /\ \A g \in Group : SetRoutes(s, hs, "none").routes[g] = IF g \in hs THEN "none" ELSE s.routes[g]
  BY SetRoutesAre
<1>2. PICK there : there = {g \in gs : s.routes[g] \in kinds}
  BY Zenon
<1>3. \/ there = gs /\ x = Ok(SetRoutes(s, gs, "none"))
      \/ \E hs : x = Fault(SetRoutes(s, hs, "none"))
      \/ there # gs /\ \E hs : x = Error(SetRoutes(s, hs, "none"))
  BY <1>2, Zenon DEF DeleteRoutes
<1>4. (\A g \in gs : s.routes[g] \in kinds) => there = gs
  BY <1>2, Zenon
<1>5. CASE x = Ok(SetRoutes(s, gs, "none"))
  <2>1. PICK t : t = SetRoutes(s, gs, "none")
    BY Zenon
  <2>2. /\ t \in SysType /\ Kept(s, t) /\ t.worker = s.worker
        /\ \A g \in Group : t.routes[g] = IF g \in gs THEN "none" ELSE s.routes[g]
    BY <1>1, <2>1, Zenon
  <2>3. x \in Outcome /\ x.sys = t /\ x.end = "ok"
    BY <1>5, <2>1, <2>2, Outcomes, Zenon
  <2> QED
    BY <2>2, <2>3, Zenon DEF RouteCall
<1>6. ASSUME NEW hs, x = Fault(SetRoutes(s, hs, "none"))
      PROVE  /\ x \in Outcome /\ x.end # "hang" /\ Kept(s, x.sys) /\ x.sys.worker = s.worker
             /\ RouteCall(s, x, gs, "none")
  BY <1>1, <1>6, Outcomes DEF RouteCall
<1>7. ASSUME NEW hs, x = Error(SetRoutes(s, hs, "none"))
      PROVE  /\ x \in Outcome /\ x.end # "hang" /\ Kept(s, x.sys) /\ x.sys.worker = s.worker
  BY <1>1, <1>7, Outcomes
<1>8. RouteCall(s, x, gs, "none") => x \in Outcome /\ x.end # "hang" /\ Kept(s, x.sys) /\ x.sys.worker = s.worker
  BY Zenon DEF RouteCall
<1> QED
  BY <1>3, <1>4, <1>5, <1>6, <1>7, <1>8, Zenon

-----------------------------------------------------------------------------
\* Only sender w may have changed from s to t.
Only(s, t, w) ==
    /\ t \in SysType /\ Kept(s, t) /\ t.routes = s.routes /\ OthersKept(s, t, {w})

\* Sender w is v.
Has(t, w, v) == t.worker[w] = v

\* Replacing one sender.
LEMMA PutWorker ==
  ASSUME NEW s \in SysType, NEW w \in Worker, NEW v \in Sender, NEW t,
         t = [s EXCEPT !.worker[w] = v]
  PROVE  Only(s, t, w) /\ Has(t, w, v)
<1>1. s.worker \in [Worker -> Sender]
  BY SysFields, Zenon
<1>2. PICK a : a = [s.worker EXCEPT ![w] = v]
  BY Zenon
<1>3. a \in [Worker -> Sender] /\ a[w] = v /\ \A u \in Worker : u # w => a[u] = s.worker[u]
  BY <1>1, <1>2, Zenon
<1>4. t = [s EXCEPT !.worker = a]
  BY <1>2, Zenon
<1>5. /\ t \in SysType /\ t.tun = s.tun /\ t.routes = s.routes /\ t.rules = s.rules
      /\ t.peers = s.peers /\ t.worker = a
  <2>1. [s EXCEPT !.worker = a] \in SysType
    BY <1>3, SetWorker, Zenon
  <2> QED
    BY <1>3, <1>4, <2>1, Zenon DEF SysType
<1>6. Kept(s, t)
  BY <1>5, Zenon DEF Kept
<1>7. OthersKept(s, t, {w})
  BY <1>3, <1>5, Zenon DEF OthersKept
<1> QED
  BY <1>3, <1>5, <1>6, <1>7, Zenon DEF Only, Has

\* A call about one sender.
SenderCall(s, x, w) ==
    /\ x \in Outcome /\ Kept(s, x.sys) /\ x.sys.routes = s.routes /\ OthersKept(s, x.sys, {w})

\* Sender w has been started for the groups gs.
Begun(s, t, w, gs) == t.worker[w].groups = gs /\ (Off(s, w) => On(t, w))

\* Sender w is as it was but for its groups, which are now gs.
Told(s, t, w, gs) ==
    /\ t.worker[w].groups = gs
    /\ t.worker[w].cur = s.worker[w].cur /\ t.worker[w].old = s.worker[w].old

\* A sender that is started, when it was off, is on.
LEMMA StartedIs ==
  ASSUME NEW s \in SysType, NEW w \in Worker, NEW gs \in SUBSET Group, NEW t,
         t = Started(s, w, gs)
  PROVE  Only(s, t, w) /\ Begun(s, t, w, gs)
<1>1. s.worker[w] \in Sender
  BY SysFields, Zenon
<1>2. PICK n : n = s.worker[w].old + (IF s.worker[w].cur = "live" THEN 1 ELSE 0)
  BY Zenon
<1>3. n \in Nat /\ (Off(s, w) => n = 0)
  BY <1>1, <1>2 DEF Sender, Off
<1>4. PICK v : v = [cur |-> "live", groups |-> gs, old |-> n]
  BY Zenon
<1>5. v \in Sender /\ v.cur = "live" /\ v.groups = gs /\ v.old = n
  BY <1>3, <1>4, Zenon DEF Sender
<1>6. t = [s EXCEPT !.worker[w] = v]
  BY <1>2, <1>4, Zenon DEF Started
<1>7. Only(s, t, w) /\ Has(t, w, v)
  BY <1>5, <1>6, PutWorker, Zenon
<1> QED
  BY <1>3, <1>5, <1>7, Zenon DEF On, Begun, Has

\* The calls that leave the system as it is.
LEMMA CallSelf ==
  ASSUME NEW s \in SysType, NEW w
  PROVE  SenderCall(s, Fault(s), w) /\ SenderCall(s, Ok(s), w) /\ SenderCall(s, Hang(s), w)
BY Outcomes, KeptSelf, Zenon DEF SenderCall, OthersKept

\* Replacing the groups of a sender.
LEMMA SetGroups ==
  ASSUME NEW s \in SysType, NEW w \in Worker, NEW gs \in SUBSET Group, NEW t,
         t = [s EXCEPT !.worker[w].groups = gs]
  PROVE  Only(s, t, w) /\ Told(s, t, w, gs)
<1>1. s.worker[w] \in Sender
  BY SysFields, Zenon
<1>2. PICK v : v = [s.worker[w] EXCEPT !.groups = gs]
  BY Zenon
<1>3. v \in Sender /\ v.groups = gs /\ v.cur = s.worker[w].cur /\ v.old = s.worker[w].old
  BY <1>1, <1>2, Zenon DEF Sender
<1>4. t = [s EXCEPT !.worker[w] = v]
  BY <1>2, Zenon
<1>5. Only(s, t, w) /\ Has(t, w, v)
  BY <1>3, <1>4, PutWorker, Zenon
<1> QED
  BY <1>3, <1>5, Zenon DEF Told, Has

\* The current goroutine of sender w is now c.
Left(s, t, w, c) == t.worker[w].cur = c /\ t.worker[w].old = s.worker[w].old

\* Replacing the goroutine of a sender.
LEMMA SetCur ==
  ASSUME NEW s \in SysType, NEW w \in Worker, NEW c \in {"none", "live", "dead"}, NEW t,
         t = [s EXCEPT !.worker[w].cur = c]
  PROVE  Only(s, t, w) /\ Left(s, t, w, c)
<1>1. s.worker[w] \in Sender
  BY SysFields, Zenon
<1>2. PICK v : v = [s.worker[w] EXCEPT !.cur = c]
  BY Zenon
<1>3. v \in Sender /\ v.cur = c /\ v.old = s.worker[w].old
  BY <1>1, <1>2, Zenon DEF Sender
<1>4. t = [s EXCEPT !.worker[w] = v]
  BY <1>2, Zenon
<1>5. Only(s, t, w) /\ Has(t, w, v)
  BY <1>3, <1>4, PutWorker, Zenon
<1> QED
  BY <1>3, <1>5, Zenon DEF Left, Has

\* Forgetting a goroutine that is still running.
LEMMA SetOld ==
  ASSUME NEW s \in SysType, NEW w \in Worker, NEW n \in Nat, NEW t,
         t = [s EXCEPT !.worker[w].old = n]
  PROVE  Only(s, t, w)
<1>1. s.worker[w] \in Sender
  BY SysFields, Zenon
<1>2. PICK v : v = [s.worker[w] EXCEPT !.old = n]
  BY Zenon
<1>3. v \in Sender /\ v.old = n /\ v.cur = s.worker[w].cur
  BY <1>1, <1>2, Zenon DEF Sender
<1>4. t = [s EXCEPT !.worker[w] = v]
  BY <1>2, Zenon
<1>5. Only(s, t, w) /\ Has(t, w, v)
  BY <1>3, <1>4, PutWorker, Zenon
<1> QED
  BY <1>3, <1>5, Zenon

\* Start of a sender.
LEMMA StartOut ==
  ASSUME NEW s \in SysType, NEW w \in Worker, NEW gs \in SUBSET Group, NEW x,
         \/ x = Ok(Started(s, w, gs)) \/ x = Fault(s)
         \/ x = Fault([s EXCEPT !.worker[w].groups = gs])
  PROVE  /\ SenderCall(s, x, w) /\ x.end # "hang"
         /\ ~x.harm => x.end = "ok" /\ Begun(s, x.sys, w, gs)
<1>1. CASE x = Ok(Started(s, w, gs))
  <2>1. PICK t : t = Started(s, w, gs)
    BY Zenon
  <2>2. Only(s, t, w) /\ Begun(s, t, w, gs)
    BY <2>1, StartedIs, Zenon
  <2>3. x \in Outcome /\ x.sys = t /\ x.end = "ok"
    BY <1>1, <2>1, <2>2, Outcomes, Zenon DEF Only
  <2> QED
    BY <2>2, <2>3, Zenon DEF SenderCall, Only
<1>2. CASE x = Fault(s)
  <2>1. SenderCall(s, x, w)
    BY <1>2, CallSelf, Zenon
  <2>2. x.end # "hang" /\ x.harm
    BY <1>2, Outcomes, Zenon
  <2> QED
    BY <2>1, <2>2, Zenon
<1>3. CASE x = Fault([s EXCEPT !.worker[w].groups = gs])
  <2>1. PICK t : t = [s EXCEPT !.worker[w].groups = gs]
    BY Zenon
  <2>2. Only(s, t, w)
    BY <2>1, SetGroups, Zenon
  <2>3. x \in Outcome /\ x.sys = t /\ x.end = "error" /\ x.harm
    BY <1>3, <2>1, <2>2, Outcomes, Zenon DEF Only
  <2> QED
    BY <2>2, <2>3, Zenon DEF SenderCall, Only
<1> QED
  BY <1>1, <1>2, <1>3, Zenon

\* Close of a sender that is on stops it and does not wait for ever.
LEMMA StopOut ==
  ASSUME NEW s \in SysType, NEW w \in Worker, NEW stopped \in {"none", "dead"}, NEW x \in StopOne(s, w, stopped)
  PROVE  /\ SenderCall(s, x, w)
         /\ On(s, w) => x.end = "ok" /\ Off(x.sys, w)
<1>1. s.worker[w] \in Sender
  BY SysFields, Zenon
<1>2. PICK t : t = [s EXCEPT !.worker[w].cur = stopped]
  BY Zenon
<1>3. Only(s, t, w) /\ Left(s, t, w, stopped)
  <2>1. stopped \in {"none", "live", "dead"}
    BY Zenon
  <2> QED
    BY <1>2, <2>1, SetCur, Zenon
<1>4. PICK n : n = s.worker[w].old - 1
  BY Zenon
<1>5. PICK u : u = [s EXCEPT !.worker[w].old = n]
  BY Zenon
<1>6. s.worker[w].old # 0 => n \in Nat
  BY <1>1, <1>4 DEF Sender
<1>7. s.worker[w].old # 0 => Only(s, u, w)
  BY <1>5, <1>6, SetOld, Zenon
<1>8. \/ s.worker[w].cur = "live" /\ x = Ok(t)
      \/ s.worker[w].old # 0 /\ (x = Hang(u) \/ x = Ok(u))
  BY <1>2, <1>4, <1>5, Zenon DEF StopOne
<1>9. CASE s.worker[w].cur = "live" /\ x = Ok(t)
  BY <1>3, <1>9, Outcomes, Zenon DEF SenderCall, On, Off, Only, Left
<1>10. CASE s.worker[w].old # 0 /\ (x = Hang(u) \/ x = Ok(u))
  BY <1>7, <1>10, Outcomes DEF SenderCall, On, Only
<1> QED
  BY <1>8, <1>9, <1>10, Zenon

\* Close of a sender: what it leaves alone, and that it stops a sender that is on.
Closes(s, x, w) == SenderCall(s, x, w) /\ (On(s, w) => x.end = "ok" /\ Off(x.sys, w))

\* Close of each of the senders.
LEMMA CloseOut ==
  ASSUME NEW s \in SysType
  PROVE  /\ \A x \in CloseHeartbeat(s) : Closes(s, x, "heartbeat")
         /\ \A x \in CloseRegister(s) : Closes(s, x, "register")
         /\ \A x \in ClosePim(s) : Closes(s, x, "pim")
<1>1. "heartbeat" \in Worker /\ "register" \in Worker /\ "pim" \in Worker
  BY Zenon DEF Worker
<1>2. ASSUME NEW w \in Worker, NEW stopped \in {"none", "dead"}, NEW x \in StopOne(s, w, stopped)
      PROVE  Closes(s, x, w)
  BY StopOut, Zenon DEF Closes
<1>3. ASSUME NEW w, s.worker[w].cur = "none" PROVE Closes(s, Ok(s), w)
  BY <1>3, CallSelf, Zenon DEF Closes, On
<1>4. ASSUME NEW w, ~Running(s.worker[w]) PROVE Closes(s, Hang(s), w)
  BY <1>4, CallSelf, Zenon DEF Closes, On, Running
<1>5. \A x \in CloseHeartbeat(s) : Closes(s, x, "heartbeat")
  BY <1>1, <1>2, <1>3, Zenon DEF CloseHeartbeat
<1>6. \A x \in CloseRegister(s) : Closes(s, x, "register")
  BY <1>1, <1>2, <1>3, Zenon DEF CloseRegister
<1>7. \A x \in ClosePim(s) : Closes(s, x, "pim")
  BY <1>1, <1>2, <1>4, Zenon DEF ClosePim
<1> QED
  BY <1>5, <1>6, <1>7, Zenon

\* UpdateGroups of a sender.
LEMMA TellOut ==
  ASSUME NEW s \in SysType, NEW w \in Worker, NEW gs \in SUBSET Group, NEW x,
         x = Ok([s EXCEPT !.worker[w].groups = gs])
  PROVE  SenderCall(s, x, w) /\ x.end = "ok" /\ Told(s, x.sys, w, gs)
<1>1. PICK t : t = [s EXCEPT !.worker[w].groups = gs]
  BY Zenon
<1>2. Only(s, t, w) /\ Told(s, t, w, gs)
  BY <1>1, SetGroups, Zenon
<1>3. x \in Outcome /\ x.sys = t /\ x.end = "ok"
  BY <1>1, <1>2, Outcomes, Zenon DEF Only
<1> QED
  BY <1>2, <1>3, Zenon DEF SenderCall, Only

-----------------------------------------------------------------------------
\* A call, or several, about routes and the senders of W.
LineOut(s, x, W) == x \in Outcome /\ Kept(s, x.sys) /\ OthersKept(s, x.sys, W)

\* One such call after another.
LEMMA LineThen ==
  ASSUME NEW s, NEW o, NEW p, NEW x, NEW W, LineOut(s, o, W), LineOut(o.sys, p, W), x = With(p, o)
  PROVE  /\ LineOut(s, x, W) /\ x.sys = p.sys /\ x.end = p.end
         /\ ~x.harm => ~p.harm /\ ~o.harm
<1>1. /\ x \in Outcome /\ x.sys = p.sys /\ x.end = p.end /\ (~x.harm => ~p.harm /\ ~o.harm)
  BY WithOutcome, Zenon DEF LineOut
<1>2. Kept(s, x.sys) /\ OthersKept(s, x.sys, W)
  BY <1>1, Zenon DEF LineOut, Kept, OthersKept
<1> QED
  BY <1>1, <1>2, Zenon DEF LineOut

\* Which calls are such.
LEMMA LineOf ==
  ASSUME NEW s, NEW x, NEW W
  PROVE  /\ x \in Outcome /\ Kept(s, x.sys) /\ x.sys.worker = s.worker => LineOut(s, x, W)
         /\ \A w \in W : SenderCall(s, x, w) => LineOut(s, x, W)
BY Zenon DEF LineOut, SenderCall, OthersKept

\* The part of Setup for a publisher.
Publish(t, r) ==
    Then(Then(AddRoutes(t, r.pub, "src"), LAMBDA u : StartHeartbeat(u, r.pub)),
         LAMBDA u : StartRegister(u, r.pub))

\* The part of Setup for a subscriber.
Subscribe(t, r) ==
    Then(AddRoutes(t, r.sub \ r.pub, "plain"), LAMBDA u : StartPim(u, r.sub))

\* The senders of a publisher.
Ways == {"heartbeat", "register"}

\* The three senders.
LEMMA WorkerNames == "heartbeat" \in Worker /\ "register" \in Worker /\ "pim" \in Worker
BY Zenon DEF Worker

\* The fields of a request.
LEMMA ReqFields ==
  ASSUME NEW r \in Req
  PROVE  /\ r # NoReq /\ r.ep \in Endpoint /\ r.ep # NoEp
         /\ r.pub \in SUBSET Group /\ r.sub \in SUBSET Group
BY ReconcilerAssumption, Zenon DEF Req

\* Setup of a publisher.
LEMMA PublishOut ==
  ASSUME NEW s \in SysType, NEW r \in Req, NEW x \in Publish(s, r)
  PROVE  /\ LineOut(s, x, Ways) /\ x.end # "hang"
         /\ ~x.harm => /\ x.end = "ok"
                       /\ \A g \in Group : x.sys.routes[g] = IF g \in r.pub THEN "src" ELSE s.routes[g]
                       /\ Begun(s, x.sys, "heartbeat", r.pub) /\ Begun(s, x.sys, "register", r.pub)
<1>1. PICK A : A = AddRoutes(s, r.pub, "src")
  BY Zenon
<1>2. PICK B : B = Then(A, LAMBDA u : StartHeartbeat(u, r.pub))
  BY Zenon
<1>3. x \in Then(B, LAMBDA u : StartRegister(u, r.pub))
  BY <1>1, <1>2, Zenon DEF Publish
<1>4. PICK b \in B :
        \/ b.end # "ok" /\ x = b
        \/ b.end = "ok" /\ \E p \in StartRegister(b.sys, r.pub) : x = With(p, b)
  BY <1>3 DEF Then, With
<1>5. PICK a \in A :
        \/ a.end # "ok" /\ b = a
        \/ a.end = "ok" /\ \E p \in StartHeartbeat(a.sys, r.pub) : b = With(p, a)
  BY <1>2, <1>4 DEF Then, With
<1>6. RouteCall(s, a, r.pub, "src")
  BY <1>1, <1>5, AddRoutesOut, Zenon
<1>7. /\ LineOut(s, a, Ways) /\ a.end # "hang" /\ a.sys.worker = s.worker
      /\ ~a.harm => a.end = "ok" /\ \A g \in Group : a.sys.routes[g] = IF g \in r.pub THEN "src" ELSE s.routes[g]
  BY <1>6, LineOf, Zenon DEF RouteCall
<1>8. /\ LineOut(s, b, Ways) /\ b.end # "hang"
      /\ ~b.harm => /\ b.end = "ok"
                    /\ \A g \in Group : b.sys.routes[g] = IF g \in r.pub THEN "src" ELSE s.routes[g]
                    /\ Begun(s, b.sys, "heartbeat", r.pub)
                    /\ b.sys.worker["register"] = s.worker["register"]
  <2>1. CASE a.end # "ok" /\ b = a
    BY <1>7, <2>1, Zenon
  <2>2. CASE a.end = "ok" /\ \E p \in StartHeartbeat(a.sys, r.pub) : b = With(p, a)
    <3>1. PICK p \in StartHeartbeat(a.sys, r.pub) : b = With(p, a)
      BY <2>2, Zenon
    <3>2. a.sys \in SysType
      BY <1>7, Zenon DEF LineOut, Outcome
    <3>3. p = Ok(Started(a.sys, "heartbeat", r.pub)) \/ p = Fault(a.sys)
      BY <3>1, Zenon DEF StartHeartbeat
    <3>4. /\ SenderCall(a.sys, p, "heartbeat") /\ p.end # "hang"
          /\ ~p.harm => p.end = "ok" /\ Begun(a.sys, p.sys, "heartbeat", r.pub)
      BY <3>2, <3>3, StartOut, ReqFields, WorkerNames, Zenon
    <3>5. LineOut(a.sys, p, Ways)
      BY <3>4, LineOf, Zenon DEF Ways
    <3>6. /\ LineOut(s, b, Ways) /\ b.sys = p.sys /\ b.end = p.end /\ (~b.harm => ~p.harm /\ ~a.harm)
      BY <1>7, <3>1, <3>5, LineThen
    <3>7. p.sys.routes = a.sys.routes /\ p.sys.worker["register"] = s.worker["register"]
      BY <1>7, <3>4, WorkerNames, Zenon DEF SenderCall, OthersKept
    <3>8. Begun(a.sys, p.sys, "heartbeat", r.pub) => Begun(s, p.sys, "heartbeat", r.pub)
      BY <1>7, Zenon DEF Begun, Off
    <3> QED
      BY <1>7, <3>4, <3>6, <3>7, <3>8, Zenon
  <2> QED
    BY <1>5, <2>1, <2>2, Zenon
<1>9. CASE b.end # "ok" /\ x = b
  BY <1>8, <1>9, Zenon
<1>10. CASE b.end = "ok" /\ \E p \in StartRegister(b.sys, r.pub) : x = With(p, b)
  <2>1. PICK p \in StartRegister(b.sys, r.pub) : x = With(p, b)
    BY <1>10, Zenon
  <2>2. b.sys \in SysType
    BY <1>8, Zenon DEF LineOut, Outcome
  <2>3. p = Ok(Started(b.sys, "register", r.pub)) \/ p = Fault(b.sys)
    BY <2>1, Zenon DEF StartRegister
  <2>4. /\ SenderCall(b.sys, p, "register") /\ p.end # "hang"
        /\ ~p.harm => p.end = "ok" /\ Begun(b.sys, p.sys, "register", r.pub)
    BY <2>2, <2>3, StartOut, ReqFields, WorkerNames, Zenon
  <2>5. LineOut(b.sys, p, Ways)
    BY <2>4, LineOf, Zenon DEF Ways
  <2>6. /\ LineOut(s, x, Ways) /\ x.sys = p.sys /\ x.end = p.end /\ (~x.harm => ~p.harm /\ ~b.harm)
    BY <1>8, <2>1, <2>5, LineThen
  <2>7. p.sys.routes = b.sys.routes /\ p.sys.worker["heartbeat"] = b.sys.worker["heartbeat"]
    BY <2>4, WorkerNames, Zenon DEF SenderCall, OthersKept
  <2>8. Begun(s, b.sys, "heartbeat", r.pub) => Begun(s, p.sys, "heartbeat", r.pub)
    BY <2>7, Zenon DEF Begun, On
  <2>9. b.sys.worker["register"] = s.worker["register"] /\ Begun(b.sys, p.sys, "register", r.pub)
          => Begun(s, p.sys, "register", r.pub)
    BY Zenon DEF Begun, Off
  <2> QED
    BY <1>8, <2>4, <2>6, <2>7, <2>8, <2>9, Zenon
<1> QED
  BY <1>4, <1>9, <1>10, Zenon

\* Setup of a subscriber.
LEMMA SubscribeOut ==
  ASSUME NEW s \in SysType, NEW r \in Req, NEW x \in Subscribe(s, r)
  PROVE  /\ LineOut(s, x, {"pim"}) /\ x.end # "hang"
         /\ ~x.harm => /\ x.end = "ok"
                       /\ \A g \in Group : x.sys.routes[g] = IF g \in r.sub \ r.pub THEN "plain" ELSE s.routes[g]
                       /\ Begun(s, x.sys, "pim", r.sub)
<1>1. PICK A : A = AddRoutes(s, r.sub \ r.pub, "plain")
  BY Zenon
<1>2. x \in Then(A, LAMBDA u : StartPim(u, r.sub))
  BY <1>1, Zenon DEF Subscribe
<1>3. PICK a \in A :
        \/ a.end # "ok" /\ x = a
        \/ a.end = "ok" /\ \E p \in StartPim(a.sys, r.sub) : x = With(p, a)
  BY <1>2 DEF Then, With
<1>4. RouteCall(s, a, r.sub \ r.pub, "plain")
  BY <1>1, <1>3, AddRoutesOut, Zenon
<1>5. /\ LineOut(s, a, {"pim"}) /\ a.end # "hang" /\ a.sys.worker = s.worker
      /\ ~a.harm => a.end = "ok" /\ \A g \in Group : a.sys.routes[g] = IF g \in r.sub \ r.pub THEN "plain" ELSE s.routes[g]
  BY <1>4, LineOf, Zenon DEF RouteCall
<1>6. CASE a.end # "ok" /\ x = a
  BY <1>5, <1>6, Zenon
<1>7. CASE a.end = "ok" /\ \E p \in StartPim(a.sys, r.sub) : x = With(p, a)
  <2>1. PICK p \in StartPim(a.sys, r.sub) : x = With(p, a)
    BY <1>7, Zenon
  <2>2. a.sys \in SysType
    BY <1>5, Zenon DEF LineOut, Outcome
  <2>3. \/ p = Ok(Started(a.sys, "pim", r.sub)) \/ p = Fault(a.sys)
        \/ p = Fault([a.sys EXCEPT !.worker["pim"].groups = r.sub])
    BY <2>1, Zenon DEF StartPim
  <2>4. /\ SenderCall(a.sys, p, "pim") /\ p.end # "hang"
        /\ ~p.harm => p.end = "ok" /\ Begun(a.sys, p.sys, "pim", r.sub)
    BY <2>2, <2>3, StartOut, ReqFields, WorkerNames, Zenon
  <2>5. LineOut(a.sys, p, {"pim"})
    BY <2>4, LineOf, Zenon
  <2>6. /\ LineOut(s, x, {"pim"}) /\ x.sys = p.sys /\ x.end = p.end /\ (~x.harm => ~p.harm /\ ~a.harm)
    BY <1>5, <2>1, <2>5, LineThen
  <2>7. p.sys.routes = a.sys.routes
    BY <2>4, Zenon DEF SenderCall
  <2>8. Begun(a.sys, p.sys, "pim", r.sub) => Begun(s, p.sys, "pim", r.sub)
    BY <1>5, Zenon DEF Begun, Off
  <2> QED
    BY <1>5, <2>4, <2>6, <2>7, <2>8, Zenon
<1> QED
  BY <1>3, <1>6, <1>7, Zenon

-----------------------------------------------------------------------------
\* What an operation of a multicast service may do to the system in any case.
MultiOut(s, x) == x \in Outcome /\ UniSame(s, x.sys)

\* UniSame is transitive.
LEMMA UniSameTrans ==
  ASSUME NEW s, NEW t, NEW u, UniSame(s, t), UniSame(t, u)
  PROVE  UniSame(s, u)
BY Zenon DEF UniSame

\* One multicast call after another.
LEMMA MultiThen ==
  ASSUME NEW s, NEW o, NEW p, NEW x, MultiOut(s, o), MultiOut(o.sys, p), x = With(p, o)
  PROVE  /\ MultiOut(s, x) /\ x.sys = p.sys /\ x.end = p.end
         /\ ~x.harm => ~p.harm /\ ~o.harm
<1>1. /\ x \in Outcome /\ x.sys = p.sys /\ x.end = p.end /\ (~x.harm => ~p.harm /\ ~o.harm)
  BY WithOutcome, Zenon DEF MultiOut
<1>2. UniSame(s, x.sys)
  BY <1>1, UniSameTrans, Zenon DEF MultiOut
<1> QED
  BY <1>1, <1>2, Zenon DEF MultiOut

\* Calls about routes and senders leave the unicast service alone.
LEMMA LineIsMulti ==
  ASSUME NEW s, NEW x, NEW W, LineOut(s, x, W)
  PROVE  MultiOut(s, x)
BY Zenon DEF LineOut, MultiOut, Kept, UniSame

\* createBaseTunnel for the multicast slot.
LEMMA CreateMulti ==
  ASSUME NEW s \in SysType, NEW ep \in Endpoint, NEW x \in CreateTunnel(s, "multicast", ep)
  PROVE  /\ MultiOut(s, x) /\ x.end # "hang" /\ x.sys.peers = s.peers
         /\ x.sys.routes = s.routes /\ x.sys.worker = s.worker
         /\ ~x.harm /\ s.tun["multicast"] = NoTunnel =>
              x.end = "ok" /\ x.sys.tun["multicast"] = [ep |-> ep, up |-> TRUE]
<1>1. /\ x \in Outcome /\ x.end # "hang"
      /\ x.sys.routes = s.routes /\ x.sys.rules = s.rules /\ x.sys.peers = s.peers
      /\ x.sys.worker = s.worker
      /\ \A v \in Svc : v # "multicast" => x.sys.tun[v] = s.tun[v]
      /\ ~x.harm /\ s.tun["multicast"].ep = NoEp =>
              x.end = "ok" /\ x.sys.tun["multicast"].ep = ep /\ x.sys.tun["multicast"].up = TRUE
  BY SvcNames, CreateTunnelOut, Zenon
<1>2. MultiOut(s, x)
  BY <1>1, SvcNames, Zenon DEF MultiOut, UniSame
<1>3. x.sys \in SysType
  BY <1>1, Zenon DEF Outcome
<1>4. s.tun["multicast"] \in Tun /\ x.sys.tun["multicast"] \in Tun
  BY <1>3, SysFields, SvcNames, Zenon
<1> QED
  BY <1>1, <1>2, <1>4, TunEq, Zenon

\* AddPeer for the multicast slot.
LEMMA AddMulti ==
  ASSUME NEW s \in SysType, NEW ep \in Endpoint, NEW x \in AddPeer(s, "multicast", ep)
  PROVE  /\ MultiOut(s, x) /\ x.end # "hang"
         /\ x.sys.tun = s.tun /\ x.sys.routes = s.routes /\ x.sys.worker = s.worker
         /\ ~x.harm => x.end = "ok"
         /\ ~x.harm /\ Peered(s, "multicast", {}) => Peered(x.sys, "multicast", {ep})
<1>1. /\ x \in Outcome /\ x.end # "hang"
      /\ x.sys.tun = s.tun /\ x.sys.routes = s.routes /\ x.sys.rules = s.rules
      /\ x.sys.worker = s.worker
      /\ \A v \in Svc : \A e \in Endpoint : v # "multicast" =>
           (<<v, e>> \in x.sys.peers <=> <<v, e>> \in s.peers)
      /\ ~x.harm =>
           /\ x.end = "ok"
           /\ Peered(s, "multicast", {}) => Peered(x.sys, "multicast", {ep})
  BY SvcNames, PeerOut, Zenon
<1> QED
  BY <1>1, SvcNames, Zenon DEF MultiOut, UniSame

\* DeletePeer for the multicast slot.
LEMMA DeleteMulti ==
  ASSUME NEW s \in SysType, NEW ep \in Endpoint, NEW x \in DeletePeer(s, "multicast", ep)
  PROVE  /\ MultiOut(s, x) /\ x.end = "ok"
         /\ x.sys.tun = s.tun /\ x.sys.routes = s.routes /\ x.sys.worker = s.worker
         /\ Peered(s, "multicast", {ep}) => Peered(x.sys, "multicast", {})
<1>1. /\ x \in Outcome /\ x.end = "ok"
      /\ x.sys.tun = s.tun /\ x.sys.routes = s.routes /\ x.sys.rules = s.rules
      /\ x.sys.worker = s.worker
      /\ \A v \in Svc : \A e \in Endpoint : v # "multicast" =>
           (<<v, e>> \in x.sys.peers <=> <<v, e>> \in s.peers)
      /\ Peered(s, "multicast", {ep}) => Peered(x.sys, "multicast", {})
  BY SvcNames, PeerOut, Zenon
<1> QED
  BY <1>1, SvcNames, Zenon DEF MultiOut, UniSame

\* Removal of the tunnel of the multicast slot, and of its routes with it.
LEMMA RemoveMulti ==
  ASSUME NEW s \in SysType, NEW x \in RemoveTunnel(s, "multicast")
  PROVE  /\ MultiOut(s, x) /\ x.end # "hang" /\ x.sys.peers = s.peers /\ x.sys.worker = s.worker
         /\ ~x.harm /\ s.tun["multicast"].ep # NoEp =>
              /\ x.end = "ok" /\ x.sys.tun["multicast"] = NoTunnel
              /\ \A g \in Group : x.sys.routes[g] = "none"
<1>1. /\ x \in Outcome /\ x.end # "hang"
      /\ x.sys.rules = s.rules /\ x.sys.peers = s.peers /\ x.sys.worker = s.worker
      /\ \A v \in Svc : v # "multicast" => x.sys.tun[v] = s.tun[v]
      /\ ~x.harm /\ s.tun["multicast"].ep # NoEp =>
           /\ x.end = "ok" /\ x.sys.tun["multicast"] = NoTunnel
           /\ \A g \in Group : x.sys.routes[g] = "none"
  BY SvcNames, RemoveTunnelOut
<1> QED
  BY <1>1, SvcNames, Zenon DEF MultiOut, UniSame

\* The multicast service of request r, set up for the groups of pub and sub and
\* the peers of E.
Made(t, r, pub, sub, E) ==
    /\ t.tun["multicast"] = [ep |-> r.ep, up |-> TRUE] /\ Peered(t, "multicast", E)
    /\ Manned(t, pub, sub) /\ Lists(t, pub, sub)
    /\ \A g \in Group : t.routes[g] = IF g \in pub THEN "src" ELSE IF g \in sub THEN "plain" ELSE "none"

\* The publisher added to the bare service,
LEMMA MadePublished ==
  ASSUME NEW s \in SysType, NEW t \in SysType, NEW r \in Req, r.pub # {}, Made(s, r, {}, {}, {}),
         Kept(s, t), OthersKept(s, t, Ways), Begun(s, t, "heartbeat", r.pub), Begun(s, t, "register", r.pub),
         \A g \in Group : t.routes[g] = IF g \in r.pub THEN "src" ELSE s.routes[g]
  PROVE  Made(t, r, r.pub, {}, {})
<1>1. t.worker["pim"] = s.worker["pim"]
  BY WorkerNames, Zenon DEF OthersKept, Ways
<1>2. Off(s, "heartbeat") /\ Off(s, "register") /\ Off(s, "pim")
  BY Zenon DEF Made, Manned
<1>3. Off(t, "pim")
  BY <1>1, <1>2, Zenon DEF Off
<1>4. Manned(t, r.pub, {})
  BY <1>2, <1>3, Zenon DEF Manned, Begun
<1>5. Lists(t, r.pub, {})
  BY Zenon DEF Lists, Begun
<1>6. t.tun["multicast"] = [ep |-> r.ep, up |-> TRUE] /\ Peered(t, "multicast", {})
  BY Zenon DEF Made, Kept, Peered
<1>7. \A g \in Group : t.routes[g] = IF g \in r.pub THEN "src" ELSE IF g \in {} THEN "plain" ELSE "none"
  BY Zenon DEF Made
<1> QED
  BY <1>4, <1>5, <1>6, <1>7, Zenon DEF Made

\* and the subscriber to that.
LEMMA MadeSubscribed ==
  ASSUME NEW s \in SysType, NEW t \in SysType, NEW r \in Req, r.sub # {}, Made(s, r, r.pub, {}, {}),
         Kept(s, t), OthersKept(s, t, {"pim"}), Begun(s, t, "pim", r.sub),
         \A g \in Group : t.routes[g] = IF g \in r.sub \ r.pub THEN "plain" ELSE s.routes[g]
  PROVE  Made(t, r, r.pub, r.sub, {})
<1>1. t.worker["heartbeat"] = s.worker["heartbeat"] /\ t.worker["register"] = s.worker["register"]
  BY WorkerNames, Zenon DEF OthersKept
<1>2. Off(s, "pim")
  BY Zenon DEF Made, Manned
<1>3. Manned(t, r.pub, r.sub)
  BY <1>1, <1>2, Zenon DEF Made, Manned, Begun, On, Off
<1>4. Lists(t, r.pub, r.sub)
  BY <1>1, Zenon DEF Made, Lists, Begun
<1>5. t.tun["multicast"] = [ep |-> r.ep, up |-> TRUE] /\ Peered(t, "multicast", {})
  BY Zenon DEF Made, Kept, Peered
<1>6. \A g \in Group : t.routes[g] = IF g \in r.pub THEN "src" ELSE IF g \in r.sub THEN "plain" ELSE "none"
  BY Zenon DEF Made
<1> QED
  BY <1>3, <1>4, <1>5, <1>6, Zenon DEF Made

\* MulticastService.Setup does not wait for ever; without a failure it sets up
\* the service, or refuses and leaves the system as it is.
LEMMA SetupMulticastOut ==
  ASSUME NEW s \in SysType, NEW r \in Req, NEW x \in SetupMulticast(s, r)
  PROVE  /\ MultiOut(s, x) /\ x.end # "hang"
         /\ ~x.harm /\ Base(s, NoReq) =>
              IF x.end = "ok" THEN Made(x.sys, r, r.pub, r.sub, {r.ep}) ELSE x.sys = s
<1>1. PICK A : A = CreateTunnel(s, "multicast", r.ep)
  BY Zenon
<1>2. PICK B : B = IF r.pub = {} THEN A ELSE Then(A, LAMBDA t : Publish(t, r))
  BY Zenon
<1>3. PICK C : C = IF r.sub = {} THEN B ELSE Then(B, LAMBDA t : Subscribe(t, r))
  BY Zenon
<1>4. \/ x = Error(s)
      \/ x \in Then(C, LAMBDA t : AddPeer(t, "multicast", r.ep))
  BY <1>1, <1>2, <1>3, Zenon DEF SetupMulticast, Publish, Subscribe
<1>5. CASE x = Error(s)
  BY <1>5, Outcomes, Zenon DEF MultiOut, UniSame
<1>6. CASE x \in Then(C, LAMBDA t : AddPeer(t, "multicast", r.ep))
  <2>1. PICK c \in C :
          \/ c.end # "ok" /\ x = c
          \/ c.end = "ok" /\ \E p \in AddPeer(c.sys, "multicast", r.ep) : x = With(p, c)
    BY <1>6 DEF Then, With
  <2>2. PICK b \in B :
          \/ c = b /\ (b.end # "ok" \/ r.sub = {})
          \/ r.sub # {} /\ b.end = "ok" /\ \E p \in Subscribe(b.sys, r) : c = With(p, b)
    <3>1. CASE r.sub = {}
      BY <1>3, <2>1, <3>1, Zenon
    <3>2. CASE r.sub # {}
      BY <1>3, <2>1, <3>2 DEF Then, With
    <3> QED
      BY <3>1, <3>2, Zenon
  <2>3. PICK a \in A :
          \/ b = a /\ (a.end # "ok" \/ r.pub = {})
          \/ r.pub # {} /\ a.end = "ok" /\ \E p \in Publish(a.sys, r) : b = With(p, a)
    <3>1. CASE r.pub = {}
      BY <1>2, <2>2, <3>1, Zenon
    <3>2. CASE r.pub # {}
      BY <1>2, <2>2, <3>2 DEF Then, With
    <3> QED
      BY <3>1, <3>2, Zenon
  <2>4. /\ MultiOut(s, a) /\ a.end # "hang"
        /\ ~a.harm /\ Base(s, NoReq) => a.end = "ok" /\ Made(a.sys, r, {}, {}, {})
    <3>1. /\ MultiOut(s, a) /\ a.end # "hang" /\ a.sys.peers = s.peers
          /\ a.sys.routes = s.routes /\ a.sys.worker = s.worker
          /\ ~a.harm /\ s.tun["multicast"] = NoTunnel =>
              a.end = "ok" /\ a.sys.tun["multicast"] = [ep |-> r.ep, up |-> TRUE]
      BY <1>1, <2>3, ReqFields, CreateMulti, Zenon
    <3>2. ASSUME Base(s, NoReq), a.sys.tun["multicast"] = [ep |-> r.ep, up |-> TRUE]
          PROVE  Made(a.sys, r, {}, {}, {})
      <4>1. Peered(a.sys, "multicast", {}) /\ Manned(a.sys, {}, {})
        BY <3>1, <3>2, Zenon DEF Base, Peered, Manned, Off
      <4> QED
        BY <3>1, <3>2, <4>1, Zenon DEF Base, Made, Lists
    <3> QED
      BY <3>1, <3>2, Zenon DEF Base
  <2>5. /\ MultiOut(s, b) /\ b.end # "hang"
        /\ ~b.harm /\ Base(s, NoReq) => b.end = "ok" /\ Made(b.sys, r, r.pub, {}, {})
    <3>1. CASE b = a /\ (a.end # "ok" \/ r.pub = {})
      BY <2>4, <3>1, Zenon
    <3>2. CASE r.pub # {} /\ a.end = "ok" /\ \E p \in Publish(a.sys, r) : b = With(p, a)
      <4>1. PICK p \in Publish(a.sys, r) : b = With(p, a)
        BY <3>2, Zenon
      <4>2. a.sys \in SysType
        BY <2>4, Zenon DEF MultiOut, Outcome
      <4>3. /\ LineOut(a.sys, p, Ways) /\ p.end # "hang"
            /\ ~p.harm => /\ p.end = "ok"
                          /\ \A g \in Group : p.sys.routes[g] = IF g \in r.pub THEN "src" ELSE a.sys.routes[g]
                          /\ Begun(a.sys, p.sys, "heartbeat", r.pub) /\ Begun(a.sys, p.sys, "register", r.pub)
        BY <4>1, <4>2, PublishOut, Zenon
      <4>4. p.sys \in SysType /\ Kept(a.sys, p.sys) /\ OthersKept(a.sys, p.sys, Ways) /\ MultiOut(a.sys, p)
        BY <4>3, LineIsMulti, Zenon DEF LineOut, Outcome
      <4>5. MultiOut(s, b) /\ b.sys = p.sys /\ b.end = p.end /\ (~b.harm => ~p.harm /\ ~a.harm)
        BY <2>4, <4>1, <4>4, MultiThen
      <4>6. ASSUME ~p.harm, Made(a.sys, r, {}, {}, {}) PROVE Made(p.sys, r, r.pub, {}, {})
        BY <3>2, <4>2, <4>3, <4>4, <4>6, MadePublished, Zenon
      <4> QED
        BY <2>4, <4>3, <4>5, <4>6, Zenon
    <3> QED
      BY <2>3, <3>1, <3>2, Zenon
  <2>6. /\ MultiOut(s, c) /\ c.end # "hang"
        /\ ~c.harm /\ Base(s, NoReq) => c.end = "ok" /\ Made(c.sys, r, r.pub, r.sub, {})
    <3>1. CASE c = b /\ (b.end # "ok" \/ r.sub = {})
      BY <2>5, <3>1, Zenon
    <3>2. CASE r.sub # {} /\ b.end = "ok" /\ \E p \in Subscribe(b.sys, r) : c = With(p, b)
      <4>1. PICK p \in Subscribe(b.sys, r) : c = With(p, b)
        BY <3>2, Zenon
      <4>2. b.sys \in SysType
        BY <2>5, Zenon DEF MultiOut, Outcome
      <4>3. /\ LineOut(b.sys, p, {"pim"}) /\ p.end # "hang"
            /\ ~p.harm => /\ p.end = "ok"
                          /\ \A g \in Group : p.sys.routes[g] = IF g \in r.sub \ r.pub THEN "plain" ELSE b.sys.routes[g]
                          /\ Begun(b.sys, p.sys, "pim", r.sub)
        BY <4>1, <4>2, SubscribeOut, Zenon
      <4>4. p.sys \in SysType /\ Kept(b.sys, p.sys) /\ OthersKept(b.sys, p.sys, {"pim"}) /\ MultiOut(b.sys, p)
        BY <4>3, LineIsMulti, Zenon DEF LineOut, Outcome
      <4>5. MultiOut(s, c) /\ c.sys = p.sys /\ c.end = p.end /\ (~c.harm => ~p.harm /\ ~b.harm)
        BY <2>5, <4>1, <4>4, MultiThen
      <4>6. ASSUME ~p.harm, Made(b.sys, r, r.pub, {}, {}) PROVE Made(p.sys, r, r.pub, r.sub, {})
        BY <3>2, <4>2, <4>3, <4>4, <4>6, MadeSubscribed, Zenon
      <4> QED
        BY <2>5, <4>3, <4>5, <4>6, Zenon
    <3> QED
      BY <2>2, <3>1, <3>2, Zenon
  <2>7. CASE c.end # "ok" /\ x = c
    BY <2>6, <2>7, Zenon
  <2>8. CASE c.end = "ok" /\ \E p \in AddPeer(c.sys, "multicast", r.ep) : x = With(p, c)
    <3>1. PICK p \in AddPeer(c.sys, "multicast", r.ep) : x = With(p, c)
      BY <2>8, Zenon
    <3>2. c.sys \in SysType
      BY <2>6, Zenon DEF MultiOut, Outcome
    <3>3. /\ MultiOut(c.sys, p) /\ p.end # "hang"
          /\ p.sys.tun = c.sys.tun /\ p.sys.routes = c.sys.routes /\ p.sys.worker = c.sys.worker
          /\ ~p.harm => p.end = "ok"
          /\ ~p.harm /\ Peered(c.sys, "multicast", {}) => Peered(p.sys, "multicast", {r.ep})
      BY <3>1, <3>2, ReqFields, AddMulti, Zenon
    <3>4. MultiOut(s, x) /\ x.sys = p.sys /\ x.end = p.end /\ (~x.harm => ~p.harm /\ ~c.harm)
      BY <2>6, <3>1, <3>3, MultiThen
    <3>5. ASSUME ~p.harm, Made(c.sys, r, r.pub, r.sub, {}) PROVE Made(p.sys, r, r.pub, r.sub, {r.ep})
      <4>1. Manned(p.sys, r.pub, r.sub) /\ Lists(p.sys, r.pub, r.sub)
        BY <3>3, <3>5, Zenon DEF Made, Manned, Lists, On, Off
      <4> QED
        BY <3>3, <3>5, <4>1, Zenon DEF Made
    <3> QED
      BY <2>6, <3>3, <3>4, <3>5, Zenon
  <2> QED
    BY <2>1, <2>7, <2>8, Zenon
<1> QED
  BY <1>4, <1>5, <1>6, Zenon

-----------------------------------------------------------------------------
\* The part of Teardown that stops the senders of a publisher.
Quits(s, r) == IF r.pub = {} THEN {Ok(s)} ELSE Then(CloseHeartbeat(s), CloseRegister)

\* The senders of a publisher that run are stopped.
LEMMA QuitsOut ==
  ASSUME NEW s \in SysType, NEW r \in Req, NEW x \in Quits(s, r)
  PROVE  /\ LineOut(s, x, Ways)
         /\ Manned(s, r.pub, r.sub) => x.end = "ok" /\ Off(x.sys, "heartbeat") /\ Off(x.sys, "register")
<1>1. CASE r.pub = {}
  <2>1. x = Ok(s)
    BY <1>1, Zenon DEF Quits
  <2> QED
    BY <1>1, <2>1, Outcomes, KeptSelf, Zenon DEF LineOut, OthersKept, Manned
<1>2. CASE r.pub # {}
  <2>1. PICK A : A = CloseHeartbeat(s)
    BY Zenon
  <2>2. x \in Then(A, CloseRegister)
    BY <1>2, <2>1, Zenon DEF Quits
  <2>3. PICK a \in A :
          \/ a.end # "ok" /\ x = a
          \/ a.end = "ok" /\ \E p \in CloseRegister(a.sys) : x = With(p, a)
    BY <2>2 DEF Then, With
  <2>4. Closes(s, a, "heartbeat")
    BY <2>1, <2>3, CloseOut, Zenon
  <2>5. LineOut(s, a, Ways) /\ a.sys \in SysType
    BY <2>4, LineOf, Zenon DEF Closes, Ways, SenderCall, Outcome
  <2>6. CASE a.end # "ok" /\ x = a
    BY <1>2, <2>4, <2>5, <2>6, Zenon DEF Closes, Manned
  <2>7. CASE a.end = "ok" /\ \E p \in CloseRegister(a.sys) : x = With(p, a)
    <3>1. PICK p \in CloseRegister(a.sys) : x = With(p, a)
      BY <2>7, Zenon
    <3>2. Closes(a.sys, p, "register")
      BY <2>5, <3>1, CloseOut, Zenon
    <3>3. LineOut(a.sys, p, Ways)
      BY <3>2, LineOf, Zenon DEF Closes, Ways
    <3>4. LineOut(s, x, Ways) /\ x.sys = p.sys /\ x.end = p.end
      BY <2>5, <3>1, <3>3, LineThen
    <3>5. ASSUME Manned(s, r.pub, r.sub)
          PROVE  x.end = "ok" /\ Off(x.sys, "heartbeat") /\ Off(x.sys, "register")
      <4>1. On(s, "heartbeat") /\ On(s, "register")
        BY <1>2, <3>5, Zenon DEF Manned
      <4>2. Off(a.sys, "heartbeat") /\ a.sys.worker["register"] = s.worker["register"]
        BY <2>4, <4>1, WorkerNames, Zenon DEF Closes, SenderCall, OthersKept
      <4>3. On(a.sys, "register")
        BY <4>1, <4>2, Zenon DEF On
      <4>4. p.end = "ok" /\ Off(p.sys, "register") /\ p.sys.worker["heartbeat"] = a.sys.worker["heartbeat"]
        BY <3>2, <4>3, WorkerNames, Zenon DEF Closes, SenderCall, OthersKept
      <4> QED
        BY <3>4, <4>2, <4>4, Zenon DEF Off
    <3> QED
      BY <3>4, <3>5, Zenon
  <2> QED
    BY <2>3, <2>6, <2>7, Zenon
<1> QED
  BY <1>1, <1>2, Zenon

\* The part of Teardown that stops the senders.
Joins(s, r) == IF r.sub = {} THEN Quits(s, r) ELSE Then(Quits(s, r), ClosePim)

\* LineOut for more senders.
LEMMA LineWider ==
  ASSUME NEW s, NEW x, NEW W, NEW V, LineOut(s, x, W), W \subseteq V
  PROVE  LineOut(s, x, V)
BY Zenon DEF LineOut, OthersKept

\* All senders that run are stopped.
LEMMA JoinsOut ==
  ASSUME NEW s \in SysType, NEW r \in Req, NEW x \in Joins(s, r)
  PROVE  /\ LineOut(s, x, Worker)
         /\ Manned(s, r.pub, r.sub) => x.end = "ok" /\ Manned(x.sys, {}, {})
<1>1. Ways \subseteq Worker /\ "pim" \notin Ways
  BY Zenon DEF Ways, Worker
<1>2. ASSUME NEW a \in Quits(s, r)
      PROVE  /\ LineOut(s, a, Worker) /\ a.sys \in SysType
             /\ Manned(s, r.pub, r.sub) =>
                  /\ a.end = "ok" /\ Off(a.sys, "heartbeat") /\ Off(a.sys, "register")
                  /\ a.sys.worker["pim"] = s.worker["pim"]
  <2>1. LineOut(s, a, Ways) /\ (Manned(s, r.pub, r.sub) =>
              a.end = "ok" /\ Off(a.sys, "heartbeat") /\ Off(a.sys, "register"))
    BY QuitsOut, Zenon
  <2>2. LineOut(s, a, Worker)
    BY <1>1, <2>1, LineWider, Zenon
  <2>3. a.sys \in SysType /\ a.sys.worker["pim"] = s.worker["pim"]
    BY <1>1, <2>1, WorkerNames, Zenon DEF LineOut, Outcome, OthersKept
  <2> QED
    BY <2>1, <2>2, <2>3, Zenon
<1>3. CASE r.sub = {}
  <2>1. x \in Quits(s, r)
    BY <1>3, Zenon DEF Joins
  <2> QED
    BY <1>2, <1>3, <2>1, Zenon DEF Manned, Off
<1>4. CASE r.sub # {}
  <2>1. PICK A : A = Quits(s, r)
    BY Zenon
  <2>2. x \in Then(A, ClosePim)
    BY <1>4, <2>1, Zenon DEF Joins
  <2>3. PICK a \in A :
          \/ a.end # "ok" /\ x = a
          \/ a.end = "ok" /\ \E p \in ClosePim(a.sys) : x = With(p, a)
    BY <2>2 DEF Then, With
  <2>4. CASE a.end # "ok" /\ x = a
    BY <1>2, <2>1, <2>4, Zenon
  <2>5. CASE a.end = "ok" /\ \E p \in ClosePim(a.sys) : x = With(p, a)
    <3>1. PICK p \in ClosePim(a.sys) : x = With(p, a)
      BY <2>5, Zenon
    <3>2. Closes(a.sys, p, "pim")
      BY <1>2, <2>1, <3>1, CloseOut, Zenon
    <3>3. LineOut(a.sys, p, Worker)
      BY <3>2, LineOf, WorkerNames, Zenon DEF Closes
    <3>4. LineOut(s, x, Worker) /\ x.sys = p.sys /\ x.end = p.end
      BY <1>2, <2>1, <3>1, <3>3, LineThen
    <3>5. ASSUME Manned(s, r.pub, r.sub) PROVE x.end = "ok" /\ Manned(x.sys, {}, {})
      <4>1. On(s, "pim") /\ Off(a.sys, "heartbeat") /\ Off(a.sys, "register")
            /\ a.sys.worker["pim"] = s.worker["pim"]
        BY <1>2, <1>4, <2>1, <3>5, Zenon DEF Manned
      <4>2. On(a.sys, "pim")
        BY <4>1, Zenon DEF On
      <4>3. /\ p.end = "ok" /\ Off(p.sys, "pim")
            /\ p.sys.worker["heartbeat"] = a.sys.worker["heartbeat"]
            /\ p.sys.worker["register"] = a.sys.worker["register"]
        BY <3>2, <4>2, WorkerNames, Zenon DEF Closes, SenderCall, OthersKept
      <4> QED
        BY <3>4, <4>1, <4>3, Zenon DEF Manned, Off
    <3> QED
      BY <3>4, <3>5, Zenon
  <2> QED
    BY <2>3, <2>4, <2>5, Zenon
<1> QED
  BY <1>3, <1>4, Zenon

\* MulticastService.Teardown: without a failure a service that stands is removed
\* and nothing is left.
LEMMA TeardownMulticastOut ==
  ASSUME NEW s \in SysType, NEW r \in Req, NEW x \in TeardownMulticast(s, r)
  PROVE  /\ MultiOut(s, x)
         /\ ~x.harm /\ Base(s, r) => x.end = "ok" /\ Base(x.sys, NoReq)
<1>1. PICK A : A = Joins(s, r)
  BY Zenon
<1>2. PICK B : B = Then(A, LAMBDA t : DeletePeer(t, "multicast", r.ep))
  BY Zenon
<1>3. x \in Then(B, LAMBDA t : RemoveTunnel(t, "multicast"))
  BY <1>1, <1>2, Zenon DEF TeardownMulticast, Joins, Quits
<1>4. PICK b \in B :
        \/ b.end # "ok" /\ x = b
        \/ b.end = "ok" /\ \E p \in RemoveTunnel(b.sys, "multicast") : x = With(p, b)
  BY <1>3 DEF Then, With
<1>5. PICK a \in A :
        \/ a.end # "ok" /\ b = a
        \/ a.end = "ok" /\ \E p \in DeletePeer(a.sys, "multicast", r.ep) : b = With(p, a)
  BY <1>2, <1>4 DEF Then, With
<1>6. LineOut(s, a, Worker) /\ (Manned(s, r.pub, r.sub) => a.end = "ok" /\ Manned(a.sys, {}, {}))
  BY <1>1, <1>5, JoinsOut, Zenon
<1>7. MultiOut(s, a) /\ a.sys \in SysType /\ a.sys.tun = s.tun /\ a.sys.peers = s.peers
  BY <1>6, LineIsMulti, Zenon DEF LineOut, Kept, Outcome
<1>8. /\ MultiOut(s, b) /\ b.sys \in SysType
      /\ Base(s, r) => /\ b.end = "ok" /\ b.sys.tun = s.tun /\ Manned(b.sys, {}, {})
                       /\ Peered(b.sys, "multicast", {})
  <2>1. Base(s, r) => Manned(s, r.pub, r.sub) /\ Peered(s, "multicast", {r.ep})
    BY ReqFields, Zenon DEF Base
  <2>2. CASE a.end # "ok" /\ b = a
    BY <1>6, <1>7, <2>1, <2>2, Zenon
  <2>3. CASE a.end = "ok" /\ \E p \in DeletePeer(a.sys, "multicast", r.ep) : b = With(p, a)
    <3>1. PICK p \in DeletePeer(a.sys, "multicast", r.ep) : b = With(p, a)
      BY <2>3, Zenon
    <3>2. /\ MultiOut(a.sys, p) /\ p.end = "ok"
          /\ p.sys.tun = a.sys.tun /\ p.sys.worker = a.sys.worker
          /\ Peered(a.sys, "multicast", {r.ep}) => Peered(p.sys, "multicast", {})
      BY <1>7, <3>1, ReqFields, DeleteMulti, Zenon
    <3>3. MultiOut(s, b) /\ b.sys = p.sys /\ b.end = p.end
      BY <1>7, <3>1, <3>2, MultiThen
    <3>4. Peered(s, "multicast", {r.ep}) => Peered(a.sys, "multicast", {r.ep})
      BY <1>7, Zenon DEF Peered
    <3>5. Manned(a.sys, {}, {}) => Manned(p.sys, {}, {})
      BY <3>2, Zenon DEF Manned, Off
    <3>6. b.sys \in SysType
      BY <3>3, Zenon DEF MultiOut, Outcome
    <3> QED
      BY <1>6, <1>7, <2>1, <3>2, <3>3, <3>4, <3>5, <3>6, Zenon
  <2> QED
    BY <1>5, <2>2, <2>3, Zenon
<1>9. CASE b.end # "ok" /\ x = b
  BY <1>8, <1>9, Zenon
<1>10. CASE b.end = "ok" /\ \E p \in RemoveTunnel(b.sys, "multicast") : x = With(p, b)
  <2>1. PICK p \in RemoveTunnel(b.sys, "multicast") : x = With(p, b)
    BY <1>10, Zenon
  <2>2. /\ MultiOut(b.sys, p) /\ p.sys.peers = b.sys.peers /\ p.sys.worker = b.sys.worker
        /\ ~p.harm /\ b.sys.tun["multicast"].ep # NoEp =>
             /\ p.end = "ok" /\ p.sys.tun["multicast"] = NoTunnel
             /\ \A g \in Group : p.sys.routes[g] = "none"
    BY <1>8, <2>1, RemoveMulti
  <2>3. MultiOut(s, x) /\ x.sys = p.sys /\ x.end = p.end /\ (~x.harm => ~p.harm)
    BY <1>8, <2>1, <2>2, MultiThen
  <2>4. ASSUME ~x.harm, Base(s, r) PROVE x.end = "ok" /\ Base(x.sys, NoReq)
    <3>1. b.sys.tun["multicast"].ep # NoEp
      BY <1>8, <2>4, ReqFields DEF Base
    <3>2. Manned(p.sys, {}, {}) /\ Peered(p.sys, "multicast", {})
      BY <1>8, <2>2, <2>4, Zenon DEF Manned, Off, Peered
    <3> QED
      BY <2>2, <2>3, <2>4, <3>1, <3>2, Zenon DEF Base
  <2> QED
    BY <2>3, <2>4, Zenon
<1> QED
  BY <1>4, <1>9, <1>10, Zenon

-----------------------------------------------------------------------------
\* A part of UpdateGroups that stops and starts no sender.
Steady(s, x) ==
    /\ x \in Outcome /\ x.end # "hang" /\ Kept(s, x.sys) /\ OthersKept(s, x.sys, Ways)
    /\ \A w \in Worker : x.sys.worker[w].cur = s.worker[w].cur /\ x.sys.worker[w].old = s.worker[w].old

\* One such part after another.
LEMMA SteadyThen ==
  ASSUME NEW s, NEW o, NEW p, NEW x, Steady(s, o), Steady(o.sys, p), x = With(p, o)
  PROVE  /\ Steady(s, x) /\ x.sys = p.sys /\ x.end = p.end
         /\ ~x.harm => ~p.harm /\ ~o.harm
<1>1. /\ x \in Outcome /\ x.sys = p.sys /\ x.end = p.end /\ (~x.harm => ~p.harm /\ ~o.harm)
  BY WithOutcome, Zenon DEF Steady
<1>2. Kept(s, x.sys) /\ OthersKept(s, x.sys, Ways)
  BY <1>1, Zenon DEF Steady, Kept, OthersKept
<1>3. \A w \in Worker : x.sys.worker[w].cur = s.worker[w].cur /\ x.sys.worker[w].old = s.worker[w].old
  BY <1>1, Zenon DEF Steady
<1> QED
  BY <1>1, <1>2, <1>3, Zenon DEF Steady

\* Which calls are such.
LEMMA SteadyOf ==
  ASSUME NEW s, NEW x, x \in Outcome, x.end # "hang"
  PROVE  /\ Kept(s, x.sys) /\ x.sys.worker = s.worker => Steady(s, x)
         /\ \A w \in Ways : \A gs : SenderCall(s, x, w) /\ Told(s, x.sys, w, gs) => Steady(s, x)
BY Zenon DEF Steady, SenderCall, OthersKept, Told

\* UpdateGroups: the routes of the publisher.
Pubs(s, old, new) ==
    Then(DeleteRoutes(s, old.pub \ new.pub, {"src"}), LAMBDA t : AddRoutes(t, new.pub \ old.pub, "src"))

\* ... and its senders.
Beats(s, old, new) ==
    IF old.pub = new.pub THEN Pubs(s, old, new)
    ELSE Then(Then(Pubs(s, old, new), LAMBDA t : UpdateHeartbeat(t, new.pub)),
              LAMBDA t : UpdateRegister(t, new.pub))

\* The routes in between.
Between(t, old, new) ==
    \A g \in Group : t.routes[g] = IF g \in new.pub THEN "src"
                                   ELSE IF g \in old.sub /\ g \notin old.pub THEN "plain" ELSE "none"

\* What becomes of the routes of the groups published,
LEMMA PubsOut ==
  ASSUME NEW s \in SysType, NEW old \in Req, NEW new \in Req, NEW x \in Pubs(s, old, new)
  PROVE  /\ Steady(s, x) /\ x.sys.worker = s.worker
         /\ ~x.harm /\ Routed(s, old) => x.end = "ok" /\ Between(x.sys, old, new)
<1>1. PICK A : A = DeleteRoutes(s, old.pub \ new.pub, {"src"})
  BY Zenon
<1>2. PICK a \in A :
        \/ a.end # "ok" /\ x = a
        \/ a.end = "ok" /\ \E p \in AddRoutes(a.sys, new.pub \ old.pub, "src") : x = With(p, a)
  <2>1. PICK D : D = new.pub \ old.pub
    BY Zenon
  <2>2. x \in Then(A, LAMBDA t : AddRoutes(t, D, "src"))
    BY <1>1, <2>1 DEF Pubs
  <2>3. \E a \in A :
          \/ a.end # "ok" /\ x = a
          \/ a.end = "ok" /\ \E p \in AddRoutes(a.sys, D, "src") : x = With(p, a)
    BY <2>2 DEF Then, With
  <2> QED
    BY <2>1, <2>3, Zenon
<1>3. /\ a \in Outcome /\ a.end # "hang" /\ Kept(s, a.sys) /\ a.sys.worker = s.worker
      /\ (\A g \in old.pub \ new.pub : s.routes[g] \in {"src"}) => RouteCall(s, a, old.pub \ new.pub, "none")
  BY <1>1, <1>2, DeleteRoutesOut, Zenon
<1>4. Steady(s, a) /\ a.sys \in SysType
  BY <1>3, SteadyOf, Zenon DEF Outcome
<1>5. Routed(s, old) => \A g \in old.pub \ new.pub : s.routes[g] \in {"src"}
  BY ReqFields, Zenon DEF Routed, RouteFor
<1>6. ~a.harm /\ Routed(s, old) =>
        a.end = "ok" /\ \A g \in Group : a.sys.routes[g] = IF g \in old.pub \ new.pub THEN "none" ELSE s.routes[g]
  BY <1>3, <1>5, Zenon DEF RouteCall
<1>7. CASE a.end # "ok" /\ x = a
  BY <1>3, <1>4, <1>6, <1>7, Zenon
<1>8. CASE a.end = "ok" /\ \E p \in AddRoutes(a.sys, new.pub \ old.pub, "src") : x = With(p, a)
  <2>1. PICK p \in AddRoutes(a.sys, new.pub \ old.pub, "src") : x = With(p, a)
    BY <1>8, Zenon
  <2>2. RouteCall(a.sys, p, new.pub \ old.pub, "src")
    BY <1>4, <2>1, AddRoutesOut, Zenon
  <2>3. Steady(a.sys, p) /\ p.sys.worker = a.sys.worker
    BY <2>2, SteadyOf, Zenon DEF RouteCall
  <2>4. Steady(s, x) /\ x.sys = p.sys /\ x.end = p.end /\ (~x.harm => ~p.harm /\ ~a.harm)
    BY <1>4, <2>1, <2>3, SteadyThen
  <2>5. ASSUME ~x.harm, Routed(s, old) PROVE x.end = "ok" /\ Between(x.sys, old, new)
    <3>1. \A g \in Group : a.sys.routes[g] = IF g \in old.pub \ new.pub THEN "none" ELSE s.routes[g]
      BY <1>6, <2>4, <2>5, Zenon
    <3>2. p.end = "ok" /\ \A g \in Group : p.sys.routes[g] = IF g \in new.pub \ old.pub THEN "src" ELSE a.sys.routes[g]
      BY <2>2, <2>4, <2>5, Zenon DEF RouteCall
    <3>3. \A g \in Group : s.routes[g] = RouteFor(old, g)
      BY <2>5, Zenon DEF Routed
    <3>4. Between(p.sys, old, new)
      BY <3>1, <3>2, <3>3, Zenon DEF Between, RouteFor
    <3> QED
      BY <2>4, <3>2, <3>4, Zenon
  <2> QED
    BY <1>3, <2>3, <2>4, <2>5, Zenon
<1> QED
  BY <1>2, <1>7, <1>8, Zenon

\* and of the senders.
LEMMA BeatsOut ==
  ASSUME NEW s \in SysType, NEW old \in Req, NEW new \in Req, NEW x \in Beats(s, old, new)
  PROVE  /\ Steady(s, x)
         /\ ~x.harm /\ Exact(s, old) =>
              /\ x.end = "ok" /\ Between(x.sys, old, new)
              /\ (old.pub = {}) = (new.pub = {}) => Lists(x.sys, new.pub, old.sub)
<1>1. Exact(s, old) => Routed(s, old) /\ Lists(s, old.pub, old.sub)
  BY ReqFields, Zenon DEF Exact
<1>2. CASE old.pub = new.pub
  <2>1. x \in Pubs(s, old, new)
    BY <1>2, Zenon DEF Beats
  <2>2. /\ Steady(s, x) /\ x.sys.worker = s.worker
        /\ ~x.harm /\ Routed(s, old) => x.end = "ok" /\ Between(x.sys, old, new)
    BY <2>1, PubsOut, Zenon
  <2>3. Lists(s, old.pub, old.sub) => Lists(x.sys, new.pub, old.sub)
    BY <1>2, <2>2, Zenon DEF Lists
  <2> QED
    BY <1>1, <2>2, <2>3, Zenon
<1>3. CASE old.pub # new.pub
  <2>1. PICK A : A = Pubs(s, old, new)
    BY Zenon
  <2>2. PICK B : B = Then(A, LAMBDA t : UpdateHeartbeat(t, new.pub))
    BY Zenon
  <2>3. x \in Then(B, LAMBDA t : UpdateRegister(t, new.pub))
    BY <1>3, <2>1, <2>2, Zenon DEF Beats
  <2>4. PICK b \in B :
          \/ b.end # "ok" /\ x = b
          \/ b.end = "ok" /\ \E p \in UpdateRegister(b.sys, new.pub) : x = With(p, b)
    BY <2>3 DEF Then, With
  <2>5. PICK a \in A :
          \/ a.end # "ok" /\ b = a
          \/ a.end = "ok" /\ \E p \in UpdateHeartbeat(a.sys, new.pub) : b = With(p, a)
    BY <2>2, <2>4 DEF Then, With
  <2>6. /\ Steady(s, a) /\ a.sys.worker = s.worker
        /\ ~a.harm /\ Routed(s, old) => a.end = "ok" /\ Between(a.sys, old, new)
    BY <2>1, <2>5, PubsOut, Zenon
  <2>7. a.sys \in SysType
    BY <2>6, Zenon DEF Steady, Outcome
  <2>8. /\ Steady(s, b) /\ b.sys \in SysType
        /\ ~b.harm /\ Routed(s, old) => /\ b.end = "ok" /\ Between(b.sys, old, new)
                                        /\ b.sys.worker["heartbeat"].groups = new.pub
                                        /\ b.sys.worker["pim"] = s.worker["pim"]
    <3>1. CASE a.end # "ok" /\ b = a
      BY <2>6, <2>7, <3>1, Zenon
    <3>2. CASE a.end = "ok" /\ \E p \in UpdateHeartbeat(a.sys, new.pub) : b = With(p, a)
      <4>1. PICK p \in UpdateHeartbeat(a.sys, new.pub) : b = With(p, a)
        BY <3>2, Zenon
      <4>2. p = Ok([a.sys EXCEPT !.worker["heartbeat"].groups = new.pub])
        BY <4>1, Zenon DEF UpdateHeartbeat
      <4>3. SenderCall(a.sys, p, "heartbeat") /\ p.end = "ok" /\ Told(a.sys, p.sys, "heartbeat", new.pub)
        BY <2>7, <4>2, TellOut, WorkerNames, ReqFields
      <4>4. Steady(a.sys, p)
        <5>1. p \in Outcome /\ "heartbeat" \in Ways
          BY <4>3, Zenon DEF SenderCall, Ways
        <5> QED
          BY <4>3, <5>1, SteadyOf, Zenon
      <4>5. Steady(s, b) /\ b.sys = p.sys /\ b.end = p.end /\ (~b.harm => ~p.harm /\ ~a.harm)
        BY <2>6, <4>1, <4>4, SteadyThen
      <4>6. p.sys.routes = a.sys.routes /\ p.sys.worker["pim"] = a.sys.worker["pim"]
        BY <4>3, WorkerNames, Zenon DEF SenderCall, OthersKept
      <4>7. Between(a.sys, old, new) => Between(p.sys, old, new)
        BY <4>6, Zenon DEF Between
      <4>8. b.sys \in SysType
        BY <4>5, Zenon DEF Steady, Outcome
      <4> QED
        BY <2>6, <4>3, <4>5, <4>6, <4>7, <4>8, Zenon DEF Told
    <3> QED
      BY <2>5, <3>1, <3>2, Zenon
  <2>9. CASE b.end # "ok" /\ x = b
    BY <1>1, <2>8, <2>9, Zenon
  <2>10. CASE b.end = "ok" /\ \E p \in UpdateRegister(b.sys, new.pub) : x = With(p, b)
    <3>1. PICK p \in UpdateRegister(b.sys, new.pub) : x = With(p, b)
      BY <2>10, Zenon
    <3>2. p = Ok([b.sys EXCEPT !.worker["register"].groups = new.pub])
      BY <3>1, Zenon DEF UpdateRegister
    <3>3. SenderCall(b.sys, p, "register") /\ p.end = "ok" /\ Told(b.sys, p.sys, "register", new.pub)
      <4>1. b.sys \in SysType /\ new.pub \in SUBSET Group
        BY <2>8, ReqFields, Zenon
      <4> QED
        BY <3>2, <4>1, TellOut, WorkerNames
    <3>4. Steady(b.sys, p)
      <4>1. p \in Outcome /\ "register" \in Ways
        BY <3>3, Zenon DEF SenderCall, Ways
      <4> QED
        BY <3>3, <4>1, SteadyOf, Zenon
    <3>5. Steady(s, x) /\ x.sys = p.sys /\ x.end = p.end /\ (~x.harm => ~p.harm /\ ~b.harm)
      BY <2>8, <3>1, <3>4, SteadyThen
    <3>6. /\ p.sys.routes = b.sys.routes /\ p.sys.worker["pim"] = b.sys.worker["pim"]
          /\ p.sys.worker["heartbeat"] = b.sys.worker["heartbeat"]
      BY <3>3, WorkerNames, Zenon DEF SenderCall, OthersKept
    <3>7. Between(b.sys, old, new) => Between(p.sys, old, new)
      BY <3>6, Zenon DEF Between
    <3>8. ASSUME ~x.harm, Exact(s, old) PROVE Lists(p.sys, new.pub, old.sub)
      <4>1. /\ p.sys.worker["heartbeat"].groups = new.pub /\ p.sys.worker["register"].groups = new.pub
            /\ p.sys.worker["pim"] = s.worker["pim"]
        BY <1>1, <2>8, <3>3, <3>5, <3>6, <3>8, Zenon DEF Told
      <4> QED
        BY <1>1, <3>8, <4>1, Zenon DEF Lists
    <3> QED
      BY <1>1, <2>8, <3>3, <3>5, <3>7, <3>8, Zenon
  <2> QED
    BY <2>4, <2>9, <2>10, Zenon
<1> QED
  BY <1>2, <1>3, Zenon

\* No group is both published and subscribed.
Disjoint(r) == r.pub \cap r.sub = {}

\* The first half of UpdateGroups: without a failure it gives the service the new
\* routes and groups, or refuses and leaves it as it is.
LEMMA UpdateRoutesOut ==
  ASSUME NEW s \in SysType, NEW old \in Req, NEW new \in Req, NEW x \in UpdateRoutes(s, old, new)
  PROVE  /\ Steady(s, x)
         /\ x.end = "ok" => (old.pub = {} <=> new.pub = {})
         /\ ~x.harm /\ Exact(s, old) /\ Disjoint(old) /\ Disjoint(new) =>
              IF x.end = "ok" THEN Routed(x.sys, new) /\ Lists(x.sys, new.pub, old.sub) ELSE x.sys = s
<1>1. CASE (old.pub = {}) # (new.pub = {})
  <2>1. x = Error(s)
    BY <1>1, Zenon DEF UpdateRoutes
  <2>2. x \in Outcome /\ x.sys = s /\ x.end = "error"
    BY <2>1, Outcomes, Zenon
  <2> QED
    BY <2>2, KeptSelf, SteadyOf, Zenon
<1>2. CASE (old.pub = {}) = (new.pub = {})
  <2>1. PICK A : A = Beats(s, old, new)
    BY Zenon
  <2>2. PICK B : B = Then(A, LAMBDA t : DeleteRoutes(t, (old.sub \ new.sub) \ new.pub, {"src", "plain"}))
    BY Zenon
  <2>3. x \in Then(B, LAMBDA t : AddRoutes(t, (new.sub \ old.sub) \ new.pub, "plain"))
    BY <1>2, <2>1, <2>2, Zenon DEF UpdateRoutes, Beats, Pubs
  <2>4. PICK b \in B :
          \/ b.end # "ok" /\ x = b
          \/ b.end = "ok" /\ \E p \in AddRoutes(b.sys, (new.sub \ old.sub) \ new.pub, "plain") : x = With(p, b)
    BY <2>3 DEF Then, With
  <2>5. PICK a \in A :
          \/ a.end # "ok" /\ b = a
          \/ /\ a.end = "ok"
             /\ \E p \in DeleteRoutes(a.sys, (old.sub \ new.sub) \ new.pub, {"src", "plain"}) : b = With(p, a)
    <3>1. PICK D, K : D = (old.sub \ new.sub) \ new.pub /\ K = {"src", "plain"}
      BY Zenon
    <3>2. b \in Then(A, LAMBDA t : DeleteRoutes(t, D, K))
      BY <2>2, <2>4, <3>1
    <3>3. \E a \in A :
            \/ a.end # "ok" /\ b = a
            \/ a.end = "ok" /\ \E p \in DeleteRoutes(a.sys, D, K) : b = With(p, a)
      BY <3>2 DEF Then, With
    <3> QED
      BY <3>1, <3>3, Zenon
  <2>6. /\ Steady(s, a)
        /\ ~a.harm /\ Exact(s, old) =>
             a.end = "ok" /\ Between(a.sys, old, new) /\ Lists(a.sys, new.pub, old.sub)
    BY <1>2, <2>1, <2>5, BeatsOut, Zenon
  <2>7. a.sys \in SysType
    BY <2>6, Zenon DEF Steady, Outcome
  <2>8. /\ Steady(s, b) /\ b.sys \in SysType
        /\ ~b.harm /\ Exact(s, old) /\ Disjoint(old) =>
             /\ b.end = "ok" /\ Lists(b.sys, new.pub, old.sub)
             /\ \A g \in Group : b.sys.routes[g] =
                  IF g \in new.pub THEN "src" ELSE IF g \in old.sub /\ g \in new.sub THEN "plain" ELSE "none"
    <3>1. CASE a.end # "ok" /\ b = a
      BY <2>6, <2>7, <3>1, Zenon
    <3>2. CASE /\ a.end = "ok"
               /\ \E p \in DeleteRoutes(a.sys, (old.sub \ new.sub) \ new.pub, {"src", "plain"}) : b = With(p, a)
      <4>1. PICK p \in DeleteRoutes(a.sys, (old.sub \ new.sub) \ new.pub, {"src", "plain"}) : b = With(p, a)
        BY <3>2, Zenon
      <4>2. PICK D : D = (old.sub \ new.sub) \ new.pub
        BY Zenon
      <4>3. /\ p \in Outcome /\ p.end # "hang" /\ Kept(a.sys, p.sys) /\ p.sys.worker = a.sys.worker
            /\ (\A g \in D : a.sys.routes[g] \in {"src", "plain"}) => RouteCall(a.sys, p, D, "none")
        BY <2>7, <4>1, <4>2, DeleteRoutesOut
      <4>4. Steady(a.sys, p)
        BY <4>3, SteadyOf, Zenon
      <4>5. Steady(s, b) /\ b.sys = p.sys /\ b.end = p.end /\ (~b.harm => ~p.harm /\ ~a.harm)
        BY <2>6, <4>1, <4>4, SteadyThen
      <4>6. ASSUME ~b.harm, Exact(s, old), Disjoint(old)
            PROVE  /\ p.end = "ok" /\ Lists(p.sys, new.pub, old.sub)
                   /\ \A g \in Group : p.sys.routes[g] =
                        IF g \in new.pub THEN "src" ELSE IF g \in old.sub /\ g \in new.sub THEN "plain" ELSE "none"
        <5>1. Between(a.sys, old, new) /\ Lists(a.sys, new.pub, old.sub)
          BY <2>6, <4>5, <4>6, Zenon
        <5>2. \A g \in old.sub : g \notin old.pub /\ g \in Group
          BY <4>6, ReqFields, Zenon DEF Disjoint
        <5>3. \A g \in D : a.sys.routes[g] \in {"src", "plain"}
          BY <4>2, <5>1, <5>2, Zenon DEF Between
        <5>4. p.end = "ok" /\ \A g \in Group : p.sys.routes[g] = IF g \in D THEN "none" ELSE a.sys.routes[g]
          BY <4>3, <4>5, <4>6, <5>3, Zenon DEF RouteCall
        <5>5. Lists(p.sys, new.pub, old.sub)
          BY <4>3, <5>1, Zenon DEF Lists
        <5> QED
          BY <4>2, <5>1, <5>2, <5>4, <5>5, Zenon DEF Between
      <4>7. b.sys \in SysType
        BY <4>5, Zenon DEF Steady, Outcome
      <4> QED
        BY <4>5, <4>6, <4>7, Zenon
    <3> QED
      BY <2>5, <3>1, <3>2, Zenon
  <2>9. CASE b.end # "ok" /\ x = b
    BY <2>8, <2>9, Zenon
  <2>10. CASE b.end = "ok" /\ \E p \in AddRoutes(b.sys, (new.sub \ old.sub) \ new.pub, "plain") : x = With(p, b)
    <3>1. PICK D : D = (new.sub \ old.sub) \ new.pub
      BY Zenon
    <3>2. PICK p \in AddRoutes(b.sys, D, "plain") : x = With(p, b)
      BY <2>10, <3>1, Zenon
    <3>3. RouteCall(b.sys, p, D, "plain")
      BY <2>8, <3>2, AddRoutesOut, Zenon
    <3>4. Steady(b.sys, p) /\ p.sys.worker = b.sys.worker
      BY <3>3, SteadyOf, Zenon DEF RouteCall
    <3>5. Steady(s, x) /\ x.sys = p.sys /\ x.end = p.end /\ (~x.harm => ~p.harm /\ ~b.harm)
      BY <2>8, <3>2, <3>4, SteadyThen
    <3>6. ASSUME ~x.harm, Exact(s, old), Disjoint(old)
          PROVE  p.end = "ok" /\ Routed(p.sys, new) /\ Lists(p.sys, new.pub, old.sub)
      <4>1. /\ Lists(b.sys, new.pub, old.sub)
            /\ \A g \in Group : b.sys.routes[g] =
                 IF g \in new.pub THEN "src" ELSE IF g \in old.sub /\ g \in new.sub THEN "plain" ELSE "none"
        BY <2>8, <3>5, <3>6, Zenon
      <4>2. p.end = "ok" /\ \A g \in Group : p.sys.routes[g] = IF g \in D THEN "plain" ELSE b.sys.routes[g]
        BY <3>3, <3>5, <3>6, Zenon DEF RouteCall
      <4>3. Routed(p.sys, new)
        BY <3>1, <4>1, <4>2, Zenon DEF Routed, RouteFor
      <4>4. Lists(p.sys, new.pub, old.sub)
        BY <3>4, <4>1, Zenon DEF Lists
      <4> QED
        BY <4>2, <4>3, <4>4, Zenon
    <3> QED
      BY <1>2, <3>5, <3>6, Zenon
  <2> QED
    BY <2>4, <2>9, <2>10, Zenon
<1> QED
  BY <1>1, <1>2, Zenon

\* The PIM sender, when it runs, takes the new groups.
LEMMA PimOut ==
  ASSUME NEW s \in SysType, NEW gs \in SUBSET Group, NEW x \in UpdatePimGroups(s, gs)
  PROVE  SenderCall(s, x, "pim") /\ (On(s, "pim") => x.end = "ok" /\ Told(s, x.sys, "pim", gs))
<1>1. CASE Running(s.worker["pim"])
  <2>1. x = Ok([s EXCEPT !.worker["pim"].groups = gs])
    BY <1>1, Zenon DEF UpdatePimGroups
  <2> QED
    BY <2>1, TellOut, WorkerNames, Zenon
<1>2. CASE ~Running(s.worker["pim"])
  <2>1. x = Hang(s)
    BY <1>2, Zenon DEF UpdatePimGroups
  <2> QED
    BY <1>2, <2>1, CallSelf, Zenon DEF Running, On
<1> QED
  BY <1>1, <1>2, Zenon

\* The second half of UpdateGroups, with the PIM sender.
LEMMA UpdatePimOut ==
  ASSUME NEW s \in SysType, NEW old \in Req, NEW new \in Req, NEW x \in UpdatePim(s, old, new)
  PROVE  /\ SenderCall(s, x, "pim")
         /\ ~x.harm /\ Manned(s, old.pub, old.sub) =>
              /\ x.end = "ok" /\ Manned(x.sys, old.pub, new.sub)
              /\ Lists(s, new.pub, old.sub) => Lists(x.sys, new.pub, new.sub)
<1>1. ASSUME SenderCall(s, x, "pim"), Manned(s, old.pub, old.sub)
      PROVE  /\ x.sys.worker["heartbeat"] = s.worker["heartbeat"]
             /\ x.sys.worker["register"] = s.worker["register"]
             /\ IF new.sub = {} THEN Off(x.sys, "pim") => Manned(x.sys, old.pub, new.sub)
                ELSE On(x.sys, "pim") => Manned(x.sys, old.pub, new.sub)
  <2>1. /\ x.sys.worker["heartbeat"] = s.worker["heartbeat"]
        /\ x.sys.worker["register"] = s.worker["register"]
    BY <1>1, WorkerNames, Zenon DEF SenderCall, OthersKept
  <2>2. IF old.pub = {} THEN Off(x.sys, "heartbeat") /\ Off(x.sys, "register")
                        ELSE On(x.sys, "heartbeat") /\ On(x.sys, "register")
    BY <1>1, <2>1, Zenon DEF Manned, On, Off
  <2> QED
    BY <2>1, <2>2, Zenon DEF Manned
<1>2. SenderCall(s, Ok(s), "pim") /\ Ok(s).end = "ok" /\ Ok(s).sys = s
  BY CallSelf, Outcomes, Zenon
<1>3. CASE new.sub = {} /\ old.sub = {}
  <2>1. x = Ok(s)
    BY <1>3, Zenon DEF UpdatePim
  <2> QED
    BY <1>2, <1>3, <2>1, Zenon
<1>4. CASE new.sub = {} /\ old.sub # {}
  <2>1. x \in ClosePim(s)
    BY <1>4, Zenon DEF UpdatePim
  <2>2. SenderCall(s, x, "pim") /\ (On(s, "pim") => x.end = "ok" /\ Off(x.sys, "pim"))
    BY <2>1, CloseOut, Zenon DEF Closes
  <2>3. Manned(s, old.pub, old.sub) => On(s, "pim")
    BY <1>4, Zenon DEF Manned
  <2>4. Manned(s, old.pub, old.sub) /\ Lists(s, new.pub, old.sub) => Lists(x.sys, new.pub, new.sub)
    BY <1>1, <1>4, <2>2, Zenon DEF Lists
  <2> QED
    BY <1>1, <1>4, <2>2, <2>3, <2>4, Zenon
<1>5. CASE new.sub # {} /\ old.sub = {}
  <2>1. x \in StartPim(s, new.sub)
    BY <1>5, Zenon DEF UpdatePim
  <2>2. \/ x = Ok(Started(s, "pim", new.sub)) \/ x = Fault(s)
        \/ x = Fault([s EXCEPT !.worker["pim"].groups = new.sub])
    BY <2>1, Zenon DEF StartPim
  <2>3. /\ SenderCall(s, x, "pim")
        /\ ~x.harm => x.end = "ok" /\ Begun(s, x.sys, "pim", new.sub)
    BY <2>2, StartOut, WorkerNames, ReqFields, Zenon
  <2>4. Manned(s, old.pub, old.sub) => Off(s, "pim")
    BY <1>5, Zenon DEF Manned
  <2>5. Manned(s, old.pub, old.sub) /\ ~x.harm /\ Lists(s, new.pub, old.sub) => Lists(x.sys, new.pub, new.sub)
    BY <1>1, <1>5, <2>3, Zenon DEF Lists, Begun
  <2> QED
    BY <1>1, <1>5, <2>3, <2>4, <2>5, Zenon DEF Begun
<1>6. CASE new.sub # {} /\ old.sub # {} /\ old.sub = new.sub
  <2>1. x = Ok(s)
    BY <1>6, Zenon DEF UpdatePim
  <2> QED
    BY <1>2, <1>6, <2>1, Zenon
<1>7. CASE new.sub # {} /\ old.sub # {} /\ old.sub # new.sub
  <2>1. x \in UpdatePimGroups(s, new.sub)
    BY <1>7, Zenon DEF UpdatePim
  <2>2. SenderCall(s, x, "pim") /\ (On(s, "pim") => x.end = "ok" /\ Told(s, x.sys, "pim", new.sub))
    BY <2>1, PimOut, ReqFields, Zenon
  <2>3. Manned(s, old.pub, old.sub) => On(s, "pim")
    BY <1>7, Zenon DEF Manned
  <2>4. On(s, "pim") /\ Told(s, x.sys, "pim", new.sub) => On(x.sys, "pim")
    BY Zenon DEF On, Told
  <2>5. Manned(s, old.pub, old.sub) /\ Lists(s, new.pub, old.sub) => Lists(x.sys, new.pub, new.sub)
    BY <1>1, <1>7, <2>2, <2>3, Zenon DEF Lists, Told
  <2> QED
    BY <1>1, <1>7, <2>2, <2>3, <2>4, <2>5, Zenon
<1> QED
  BY <1>3, <1>4, <1>5, <1>6, <1>7, Zenon

-----------------------------------------------------------------------------
\* The services that take the unicast slot, and the one that takes the other.
UniReq == {r \in Req : r.kind # "multicast"}
MultiReq == {r \in Req : r.kind = "multicast"}

\* Setup and Teardown of a service of the unicast slot.
LEMMA UniOps ==
  ASSUME NEW s \in SysType, NEW r \in UniReq
  PROVE  /\ \A x \in Setup(s, r) : /\ UniOut(s, x)
                                   /\ ~x.harm /\ UniAt(s, NoReq) => x.end = "ok" /\ UniAt(x.sys, r)
         /\ \A x \in Teardown(s, r) : /\ UniOut(s, x)
                                      /\ ~x.harm /\ UniAt(s, r) => x.end = "ok" /\ UniAt(x.sys, NoReq)
<1>1. r \in Req /\ (r.kind = "ibrl" \/ r.kind = "edge")
  BY Zenon DEF UniReq, Req
<1>2. CASE r.kind = "ibrl"
  <2>1. Setup(s, r) = SetupIBRL(s, r) /\ Teardown(s, r) = TeardownIBRL(s, r)
    BY <1>2, Zenon DEF Setup, Teardown
  <2> QED
    BY <1>1, <1>2, <2>1, SetupIBRLOut, TeardownIBRLOut
<1>3. CASE r.kind = "edge"
  <2>1. Setup(s, r) = SetupEdgeFiltering(s, r) /\ Teardown(s, r) = TeardownEdgeFiltering(s, r)
    BY <1>3, Zenon DEF Setup, Teardown
  <2> QED
    BY <1>1, <1>3, <2>1, SetupEdgeOut, TeardownEdgeOut
<1> QED
  BY <1>1, <1>2, <1>3, Zenon

\* What Setup makes is what the invariant asks for.
LEMMA MadeIs ==
  ASSUME NEW t, NEW r \in Req, Made(t, r, r.pub, r.sub, {r.ep})
  PROVE  Base(t, r) /\ Exact(t, r)
<1>1. r # NoReq
  BY ReqFields, Zenon
<1>2. Base(t, r)
  BY <1>1, Zenon DEF Made, Base
<1>3. Routed(t, r)
  BY Zenon DEF Made, Routed, RouteFor
<1> QED
  BY <1>2, <1>3, Zenon DEF Made, Exact

\* Setup and Teardown of the multicast service.
LEMMA MultiOps ==
  ASSUME NEW s \in SysType, NEW r \in MultiReq
  PROVE  /\ \A x \in Setup(s, r) :
              /\ MultiOut(s, x) /\ x.end # "hang"
              /\ ~x.harm /\ Base(s, NoReq) =>
                   IF x.end = "ok" THEN Base(x.sys, r) /\ Exact(x.sys, r) ELSE x.sys = s
         /\ \A x \in Teardown(s, r) : /\ MultiOut(s, x)
                                      /\ ~x.harm /\ Base(s, r) => x.end = "ok" /\ Base(x.sys, NoReq)
<1>1. r \in Req /\ r.kind = "multicast"
  BY Zenon DEF MultiReq
<1>2. Setup(s, r) = SetupMulticast(s, r) /\ Teardown(s, r) = TeardownMulticast(s, r)
  BY <1>1, Zenon DEF Setup, Teardown
<1>3. ASSUME NEW x \in Setup(s, r)
      PROVE  /\ MultiOut(s, x) /\ x.end # "hang"
             /\ ~x.harm /\ Base(s, NoReq) =>
                  IF x.end = "ok" THEN Base(x.sys, r) /\ Exact(x.sys, r) ELSE x.sys = s
  <2>1. /\ MultiOut(s, x) /\ x.end # "hang"
        /\ ~x.harm /\ Base(s, NoReq) =>
              IF x.end = "ok" THEN Made(x.sys, r, r.pub, r.sub, {r.ep}) ELSE x.sys = s
    BY <1>1, <1>2, SetupMulticastOut, Zenon
  <2>2. Made(x.sys, r, r.pub, r.sub, {r.ep}) => Base(x.sys, r) /\ Exact(x.sys, r)
    BY <1>1, MadeIs, Zenon
  <2> QED
    BY <2>1, <2>2, Zenon
<1>4. ASSUME NEW x \in Teardown(s, r)
      PROVE  MultiOut(s, x) /\ (~x.harm /\ Base(s, r) => x.end = "ok" /\ Base(x.sys, NoReq))
  BY <1>1, <1>2, TeardownMulticastOut, Zenon
<1> QED
  BY <1>3, <1>4, Zenon

-----------------------------------------------------------------------------
\* Remove, Provision and Reprovision, on a system t with the service cur.
Removed(t, cur) == IF cur = NoReq THEN {Ok(t)} ELSE Teardown(t, cur)
Replaced(t, cur, want) ==
    IF want = NoReq
    THEN {[out |-> o, slot |-> IF o.end = "ok" THEN NoReq ELSE cur] : o \in Removed(t, cur)}
    ELSE {[out |-> o, slot |-> IF o.end = "ok" THEN NoReq ELSE cur] : o \in {x \in Removed(t, cur) : x.end # "ok"}}
           \cup {[out |-> o, slot |-> IF o.end = "ok" THEN want ELSE NoReq] :
                    o \in Then({x \in Removed(t, cur) : x.end = "ok"}, LAMBDA u : Setup(u, want))}

\* The ways an operation under the lock ends.
LEMMA ReplacedIs ==
  ASSUME NEW t, NEW cur, NEW want, NEW x \in Replaced(t, cur, want)
  PROVE  \E o \in Removed(t, cur) :
           \/ /\ x.out = o /\ (want = NoReq \/ o.end # "ok")
              /\ x.slot = IF o.end = "ok" THEN NoReq ELSE cur
           \/ /\ want # NoReq /\ o.end = "ok" /\ \E p \in Setup(o.sys, want) : x.out = With(p, o)
              /\ x.slot = IF x.out.end = "ok" THEN want ELSE NoReq
<1>1. PICK A, B : A = Removed(t, cur) /\ B = {z \in A : z.end = "ok"}
  BY Zenon
<1>2. CASE want = NoReq
  BY <1>2 DEF Replaced
<1>3. CASE want # NoReq /\ \E o \in A : o.end # "ok" /\ x = [out |-> o, slot |-> IF o.end = "ok" THEN NoReq ELSE cur]
  BY <1>1, <1>3
<1>4. CASE want # NoReq /\ \E o \in Then(B, LAMBDA u : Setup(u, want)) :
                              x = [out |-> o, slot |-> IF o.end = "ok" THEN want ELSE NoReq]
  <2>1. PICK q \in Then(B, LAMBDA u : Setup(u, want)) : x = [out |-> q, slot |-> IF q.end = "ok" THEN want ELSE NoReq]
    BY <1>4, Zenon
  <2>2. \E o \in B :
          \/ o.end # "ok" /\ q = o
          \/ o.end = "ok" /\ \E p \in Setup(o.sys, want) : q = With(p, o)
    BY <2>1, Zenon DEF Then, With
  <2>3. PICK o \in A : o.end = "ok" /\ \E p \in Setup(o.sys, want) : q = With(p, o)
    BY <1>1, <2>2, Zenon
  <2>4. x.out = q /\ x.slot = IF q.end = "ok" THEN want ELSE NoReq
    BY <2>1, Zenon
  <2> QED
    BY <1>1, <1>4, <2>3, <2>4, Zenon
<1>5. want # NoReq => \/ \E o \in A : o.end # "ok" /\ x = [out |-> o, slot |-> IF o.end = "ok" THEN NoReq ELSE cur]
                      \/ \E o \in Then(B, LAMBDA u : Setup(u, want)) :
                              x = [out |-> o, slot |-> IF o.end = "ok" THEN want ELSE NoReq]
  BY <1>1, Zenon DEF Replaced
<1> QED
  BY <1>2, <1>3, <1>4, <1>5, Zenon

\* An operation under the lock on the unicast slot,
LEMMA ReplaceUni ==
  ASSUME NEW t \in SysType, NEW cur \in UniReq \cup {NoReq}, NEW want \in UniReq \cup {NoReq},
         NEW x \in Replaced(t, cur, want)
  PROVE  /\ UniOut(t, x.out) /\ x.slot \in {cur, want, NoReq}
         /\ ~x.out.harm /\ UniAt(t, cur) => UniAt(x.out.sys, x.slot)
<1>1. PICK o \in Removed(t, cur) :
           \/ /\ x.out = o /\ (want = NoReq \/ o.end # "ok")
              /\ x.slot = IF o.end = "ok" THEN NoReq ELSE cur
           \/ /\ want # NoReq /\ o.end = "ok" /\ \E p \in Setup(o.sys, want) : x.out = With(p, o)
              /\ x.slot = IF x.out.end = "ok" THEN want ELSE NoReq
  BY ReplacedIs
<1>2. UniOut(t, o) /\ (~o.harm /\ UniAt(t, cur) => o.end = "ok" /\ UniAt(o.sys, NoReq))
  <2>1. CASE cur = NoReq
    <3>1. o = Ok(t)
      BY <1>1, <2>1, Zenon DEF Removed
    <3> QED
      BY <2>1, <3>1, Outcomes, Zenon DEF UniOut, MultiSame
  <2>2. CASE cur # NoReq
    <3>1. o \in Teardown(t, cur) /\ cur \in UniReq
      BY <1>1, <2>2, Zenon DEF Removed
    <3> QED
      BY <3>1, UniOps, Zenon
  <2> QED
    BY <2>1, <2>2, Zenon
<1>3. CASE x.out = o /\ x.slot = IF o.end = "ok" THEN NoReq ELSE cur
  BY <1>2, <1>3, Zenon
<1>4. CASE /\ want # NoReq /\ o.end = "ok" /\ \E p \in Setup(o.sys, want) : x.out = With(p, o)
           /\ x.slot = IF x.out.end = "ok" THEN want ELSE NoReq
  <2>1. PICK p \in Setup(o.sys, want) : x.out = With(p, o)
    BY <1>4, Zenon
  <2>2. o.sys \in SysType /\ want \in UniReq
    BY <1>2, <1>4, Zenon DEF UniOut, Outcome
  <2>3. UniOut(o.sys, p) /\ (~p.harm /\ UniAt(o.sys, NoReq) => p.end = "ok" /\ UniAt(p.sys, want))
    BY <2>1, <2>2, UniOps, Zenon
  <2>4. /\ UniOut(t, x.out) /\ x.out.sys = p.sys /\ x.out.end = p.end
        /\ ~x.out.harm => ~p.harm /\ ~o.harm
    BY <1>2, <2>1, <2>3, UniThen, Zenon
  <2> QED
    BY <1>2, <1>4, <2>3, <2>4, Zenon
<1> QED
  BY <1>1, <1>3, <1>4, Zenon

\* and on the multicast slot.
LEMMA ReplaceMulti ==
  ASSUME NEW t \in SysType, NEW cur \in MultiReq \cup {NoReq}, NEW want \in MultiReq \cup {NoReq},
         NEW x \in Replaced(t, cur, want)
  PROVE  /\ MultiOut(t, x.out) /\ x.slot \in {cur, want, NoReq}
         /\ cur = NoReq => x.out.end # "hang"
         /\ ~x.out.harm /\ Base(t, cur) =>
              x.out.end # "hang" /\ Base(x.out.sys, x.slot) /\ Exact(x.out.sys, x.slot)
<1>1. PICK o \in Removed(t, cur) :
           \/ /\ x.out = o /\ (want = NoReq \/ o.end # "ok")
              /\ x.slot = IF o.end = "ok" THEN NoReq ELSE cur
           \/ /\ want # NoReq /\ o.end = "ok" /\ \E p \in Setup(o.sys, want) : x.out = With(p, o)
              /\ x.slot = IF x.out.end = "ok" THEN want ELSE NoReq
  BY ReplacedIs
<1>2. /\ MultiOut(t, o) /\ (cur = NoReq => o.end # "hang")
      /\ ~o.harm /\ Base(t, cur) => o.end = "ok" /\ Base(o.sys, NoReq)
  <2>1. CASE cur = NoReq
    <3>1. o = Ok(t)
      BY <1>1, <2>1, Zenon DEF Removed
    <3> QED
      BY <2>1, <3>1, Outcomes, Zenon DEF MultiOut, UniSame
  <2>2. CASE cur # NoReq
    <3>1. o \in Teardown(t, cur) /\ cur \in MultiReq
      BY <1>1, <2>2, Zenon DEF Removed
    <3> QED
      BY <2>2, <3>1, MultiOps, Zenon
  <2> QED
    BY <2>1, <2>2, Zenon
<1>3. Exact(o.sys, NoReq)
  BY Zenon DEF Exact
<1>4. CASE x.out = o /\ x.slot = IF o.end = "ok" THEN NoReq ELSE cur
  BY <1>2, <1>3, <1>4, Zenon
<1>5. CASE /\ want # NoReq /\ o.end = "ok" /\ \E p \in Setup(o.sys, want) : x.out = With(p, o)
           /\ x.slot = IF x.out.end = "ok" THEN want ELSE NoReq
  <2>1. PICK p \in Setup(o.sys, want) : x.out = With(p, o)
    BY <1>5, Zenon
  <2>2. o.sys \in SysType /\ want \in MultiReq
    BY <1>2, <1>5, Zenon DEF MultiOut, Outcome
  <2>3. /\ MultiOut(o.sys, p) /\ p.end # "hang"
        /\ ~p.harm /\ Base(o.sys, NoReq) =>
              IF p.end = "ok" THEN Base(p.sys, want) /\ Exact(p.sys, want) ELSE p.sys = o.sys
    BY <2>1, <2>2, MultiOps
  <2>4. /\ MultiOut(t, x.out) /\ x.out.sys = p.sys /\ x.out.end = p.end
        /\ ~x.out.harm => ~p.harm /\ ~o.harm
    BY <1>2, <2>1, <2>3, MultiThen, Zenon
  <2> QED
    BY <1>2, <1>3, <1>5, <2>3, <2>4, Zenon
<1> QED
  BY <1>1, <1>4, <1>5, Zenon

\* What Spend counts.
Kinds == {"chain", "cmd", "http", "crash"}
\* The part of the invariant that holds whatever failed.
Form == TypeOK /\ Wished /\ Count
Slots == Req \cup {NoReq}

\* The types of the environment.
LEMMA Types ==
  ASSUME TypeOK
  PROVE  /\ mode \in ModeType /\ mode \in Mode /\ mode.multi \subseteq MultiReq /\ mode.uni \subseteq UniReq
         /\ mode.left \in [Kinds -> Nat] /\ mode.faults \in Nat
         /\ left \in [Kinds -> Nat] /\ DOMAIN mode.left = Kinds
<1>1. mode \in Mode /\ left \in [DOMAIN mode.left -> Nat]
  BY Zenon DEF TypeOK
<1>2. mode \in ModeType
  BY <1>1, ReconcilerAssumption, Zenon
<1>3. /\ mode.uni \in SUBSET Req /\ mode.multi \in SUBSET Req
      /\ mode.left \in [Kinds -> Nat] /\ mode.faults \in Nat
  BY <1>2, Zenon DEF ModeType, Kinds
<1>4. DOMAIN mode.left = Kinds
  BY <1>3, Zenon
<1>5. (\A r \in mode.uni : r.kind # "multicast") /\ (\A r \in mode.multi : r.kind = "multicast")
  BY <1>1, ReconcilerAssumption, Zenon
<1> QED
  BY <1>1, <1>2, <1>3, <1>4, <1>5, Zenon DEF UniReq, MultiReq

\* The requests each slot may hold.
LEMMA WishTypes ==
  ASSUME TypeOK
  PROVE  /\ Wishes("unicast") \subseteq UniReq \cup {NoReq}
         /\ Wishes("multicast") \subseteq MultiReq \cup {NoReq}
         /\ \A s \in Svc : Wishes(s) \subseteq Slots /\ NoReq \in Wishes(s)
         /\ mode.multi = {} => Wishes("multicast") = {NoReq}
<1>1. mode.multi \subseteq MultiReq /\ mode.uni \subseteq UniReq
  BY Types, Zenon
<1> QED
  BY <1>1, Zenon DEF Wishes, UniReq, MultiReq, Slots

\* What the step leaves of the calls and failures to come.
Spent == /\ left' \in [DOMAIN mode.left -> Nat] /\ left'["crash"] <= left["crash"]

\* Spend uses up one call.
LEMMA SpendOut ==
  ASSUME TypeOK, NEW w \in Kinds, Spend(w)
  PROVE  /\ Spent /\ (w # "crash" => left'["crash"] = left["crash"])
         /\ w = "crash" => left'["crash"] < left["crash"]
<1>1. left \in [Kinds -> Nat] /\ DOMAIN mode.left = Kinds
  BY Types, Zenon
<1>2. left[w] > 0 /\ left' = [left EXCEPT ![w] = left[w] - 1]
  BY Zenon DEF Spend
<1> QED
  BY <1>1, <1>2 DEF Spent, Kinds

\* A step that leaves the multicast service alone keeps what is known of it;
LEMMA MultiSameKeeps ==
  ASSUME NEW s, NEW t, MultiSame(s, t), NEW q, NEW old, NEW new
  PROVE  /\ Base(s, q) => Base(t, q)
         /\ Exact(s, q) => Exact(t, q)
         /\ Half(s, old, new) => Half(t, old, new)
<1>1. \A E : Peered(s, "multicast", E) => Peered(t, "multicast", E)
  BY Zenon DEF MultiSame, Peered
<1>2. \A pub, sub : Manned(s, pub, sub) => Manned(t, pub, sub)
  BY Zenon DEF MultiSame, Manned, On, Off
<1>3. \A pub, sub : Lists(s, pub, sub) => Lists(t, pub, sub)
  BY Zenon DEF MultiSame, Lists
<1>4. \A r : Routed(s, r) => Routed(t, r)
  BY Zenon DEF MultiSame, Routed
<1>5. Base(s, q) => Base(t, q)
  BY <1>1, <1>2, Zenon DEF MultiSame, Base
<1>6. Exact(s, q) => Exact(t, q)
  BY <1>3, <1>4, Zenon DEF Exact
<1>7. Half(s, old, new) => Half(t, old, new)
  BY <1>3, <1>4, Zenon DEF Half
<1> QED
  BY <1>5, <1>6, <1>7, Zenon

\* the same for the unicast service.
LEMMA UniSameKeeps ==
  ASSUME NEW s, NEW t, UniSame(s, t), NEW q, UniAt(s, q)
  PROVE  UniAt(t, q)
<1>1. \A E : Peered(s, "unicast", E) => Peered(t, "unicast", E)
  BY Zenon DEF UniSame, Peered
<1> QED
  BY <1>1, Zenon DEF UniSame, UniAt

-----------------------------------------------------------------------------
\* An operation under the manager's lock, for the service s.
LEMMA LockedOut ==
  ASSUME Form, NEW s \in Svc, NEW want \in Wishes(s), Locked(s, want)
  PROVE  /\ sys' \in SysType /\ faults' \in Nat /\ faults' <= faults /\ lock' \in {"free", "stuck"}
         /\ slot' \in [Svc -> Slots] /\ \A v \in Svc : slot'[v] \in Wishes(v)
         /\ s = "unicast" \/ mode.multi = {} => lock' = "free"
         /\ s = "unicast" => MultiSame(sys, sys') /\ slot'["multicast"] = slot["multicast"]
         /\ s = "multicast" => UniSame(sys, sys') /\ slot'["unicast"] = slot["unicast"]
         /\ faults' = faults /\ s = "unicast" /\ UniAt(sys, slot["unicast"]) => UniAt(sys', slot'["unicast"])
         /\ faults' = faults /\ s = "multicast" /\ Base(sys, slot["multicast"]) =>
              lock' = "free" /\ Base(sys', slot'["multicast"]) /\ Exact(sys', slot'["multicast"])
<1>1. PICK x \in Results(s, want) :
        /\ Ends(x.out) /\ slot' = [slot EXCEPT ![s] = x.slot]
        /\ lock' = IF x.out.end = "hang" THEN "stuck" ELSE "free"
  BY Zenon DEF Locked
<1>2. /\ sys \in SysType /\ slot \in [Svc -> Slots] /\ faults \in Nat /\ TypeOK
      /\ \A v \in Svc : slot[v] \in Wishes(v)
  BY Zenon DEF Form, TypeOK, Wished, Slots
<1>3. x \in Replaced(sys, slot[s], want)
  BY <1>1, Zenon DEF Results, Replaced, Removed
<1>4. sys' = x.out.sys /\ (x.out.harm => faults > 0) /\ faults' = IF x.out.harm THEN faults - 1 ELSE faults
  BY <1>1, Zenon DEF Ends
<1>5. faults' \in Nat /\ faults' <= faults /\ (faults' = faults => ~x.out.harm)
  BY <1>2, <1>4
<1>6. CASE s = "unicast"
  <2>1. slot["unicast"] \in UniReq \cup {NoReq} /\ want \in UniReq \cup {NoReq}
    BY <1>2, <1>6, WishTypes, SvcNames, Zenon
  <2>2. /\ UniOut(sys, x.out) /\ x.slot \in {slot["unicast"], want, NoReq}
        /\ ~x.out.harm /\ UniAt(sys, slot["unicast"]) => UniAt(x.out.sys, x.slot)
    BY <1>2, <1>3, <1>6, <2>1, ReplaceUni, Zenon
  <2>3. x.slot \in Wishes("unicast") /\ x.slot \in Slots
    BY <1>2, <1>6, <2>2, WishTypes, SvcNames, Zenon
  <2>4. /\ slot' \in [Svc -> Slots] /\ slot'["unicast"] = x.slot
        /\ slot'["multicast"] = slot["multicast"]
    BY <1>1, <1>2, <1>6, <2>3, SvcNames, Zenon
  <2>5. \A v \in Svc : slot'[v] \in Wishes(v)
    BY <1>2, <2>3, <2>4, Zenon DEF Svc
  <2>6. sys' \in SysType /\ MultiSame(sys, sys') /\ lock' = "free"
    BY <1>1, <1>4, <2>2, Zenon DEF UniOut, Outcome
  <2> QED
    BY <1>4, <1>5, <1>6, <2>2, <2>4, <2>5, <2>6, Zenon
<1>7. CASE s = "multicast"
  <2>1. slot["multicast"] \in MultiReq \cup {NoReq} /\ want \in MultiReq \cup {NoReq}
    BY <1>2, <1>7, WishTypes, SvcNames, Zenon
  <2>2. /\ MultiOut(sys, x.out) /\ x.slot \in {slot["multicast"], want, NoReq}
        /\ slot["multicast"] = NoReq => x.out.end # "hang"
        /\ ~x.out.harm /\ Base(sys, slot["multicast"]) =>
             x.out.end # "hang" /\ Base(x.out.sys, x.slot) /\ Exact(x.out.sys, x.slot)
    BY <1>2, <1>3, <1>7, <2>1, ReplaceMulti, Zenon
  <2>3. x.slot \in Wishes("multicast") /\ x.slot \in Slots
    BY <1>2, <1>7, <2>2, WishTypes, SvcNames, Zenon
  <2>4. /\ slot' \in [Svc -> Slots] /\ slot'["multicast"] = x.slot
        /\ slot'["unicast"] = slot["unicast"]
    BY <1>1, <1>2, <1>7, <2>3, SvcNames, Zenon
  <2>5. \A v \in Svc : slot'[v] \in Wishes(v)
    BY <1>2, <2>3, <2>4, Zenon DEF Svc
  <2>6. sys' \in SysType /\ UniSame(sys, sys') /\ lock' \in {"free", "stuck"}
    BY <1>1, <1>4, <2>2, Zenon DEF MultiOut, Outcome
  <2>7. mode.multi = {} => lock' = "free"
    BY <1>1, <1>2, <2>2, WishTypes, SvcNames, Zenon
  <2> QED
    BY <1>1, <1>4, <1>5, <1>7, <2>2, <2>4, <2>5, <2>6, <2>7, Zenon
<1> QED
  BY <1>6, <1>7, Zenon DEF Svc

\* Form, by groups of variables that change together.
CtlType ==
    /\ file \in BOOLEAN /\ enabled \in BOOLEAN /\ enableCh \in {<<>>, <<TRUE>>, <<FALSE>>}
    /\ ctl \in [Client -> [pc : {"idle", "check", "drain", "send"}, want : BOOLEAN]]
DataType ==
    /\ chain \in [Svc -> Slots] /\ (cached = NoData \/ cached \in [Svc -> Slots])
    /\ \A s \in Svc : chain[s] \in Wishes(s) /\ (cached # NoData => cached[s] \in Wishes(s))
SlotType ==
    /\ slot \in [Svc -> Slots] /\ sys \in SysType /\ lock \in {"free", "stuck"}
    /\ \A s \in Svc : slot[s] \in Wishes(s)
LoopRec == [pc : {"idle", "unicast", "multicast", "pim", "fallback", "hung"}, view : [Svc -> Slots], old : Slots]
LoopType ==
    /\ loop \in LoopRec
    /\ (\A s \in Svc : loop.view[s] \in Wishes(s)) /\ loop.old \in Wishes("multicast")
    /\ loop.pc \in {"pim", "fallback"} => loop.view["multicast"] # NoReq /\ mode.multi # {}
    /\ loop.pc = "pim" => loop.old # NoReq
LeftType == left \in [DOMAIN mode.left -> Nat] /\ faults \in Nat /\ Count

\* Form, by groups of variables,
LEMMA FormSplit ==
  Form <=> mode \in Mode /\ CtlType /\ DataType /\ SlotType /\ LoopType /\ LeftType
BY Zenon DEF Form, TypeOK, Wished, Count, CtlType, DataType, SlotType, LoopType, LeftType, Slots, LoopRec

\* and in the next state.
LEMMA FormSplitNext ==
  Form' <=> mode' \in Mode /\ CtlType' /\ DataType' /\ SlotType' /\ LoopType' /\ LeftType'
BY Zenon DEF Form, TypeOK, Wished, Count, CtlType, DataType, SlotType, LoopType, LeftType, Slots, LoopRec

\* Each group, when its variables do not change.
LEMMA CtlKept ==
  ASSUME CtlType, UNCHANGED <<file, enabled, enableCh, ctl>> PROVE CtlType'
BY Zenon DEF CtlType

\* The ledger and its cached copy.
LEMMA DataKept ==
  ASSUME DataType, UNCHANGED <<chain, cached, mode>> PROVE DataType'
BY Zenon DEF DataType, Wishes

\* The slots and the system.
LEMMA SlotKept ==
  ASSUME SlotType, UNCHANGED <<slot, sys, lock, mode>> PROVE SlotType'
BY Zenon DEF SlotType, Wishes

\* The loop.
LEMMA LoopKept ==
  ASSUME LoopType, UNCHANGED <<loop, mode>> PROVE LoopType'
BY Zenon DEF LoopType, Wishes

\* The bounds.
LEMMA LeftKept ==
  ASSUME LeftType, Spent, faults' \in Nat, faults' <= faults, UNCHANGED mode,
         left["crash"] \in Nat, left'["crash"] \in Nat, mode.left["crash"] \in Nat, mode.faults \in Nat
  PROVE  LeftType'
BY DEF LeftType, Spent, Count

\* A step that uses up nothing.
LEMMA SpentSame ==
  ASSUME TypeOK, UNCHANGED left
  PROVE  Spent /\ left'["crash"] = left["crash"]
<1>1. left \in [Kinds -> Nat] /\ DOMAIN mode.left = Kinds
  BY Types, Zenon
<1> QED
  BY <1>1 DEF Spent, Kinds

\* Once something failed or crashed, it has for good.
LEMMA LeftStep ==
  ASSUME Form, Spent, faults' \in Nat, faults' <= faults, UNCHANGED mode
  PROVE  /\ LeftType'
         /\ Unharmed' => Unharmed /\ faults' = faults
         /\ left'["crash"] < left["crash"] => ~Unharmed'
<1>1. TypeOK /\ LeftType
  BY FormSplit, Zenon DEF Form
<1>2. left \in [Kinds -> Nat] /\ mode.left \in [Kinds -> Nat] /\ mode.faults \in Nat /\ DOMAIN mode.left = Kinds
  BY <1>1, Types, Zenon
<1>3. left["crash"] \in Nat /\ left'["crash"] \in Nat /\ mode.left["crash"] \in Nat
  BY <1>2, Zenon DEF Spent, Kinds
<1>4. LeftType'
  BY <1>1, <1>2, <1>3, LeftKept, Zenon
<1>5. faults \in Nat /\ faults <= mode.faults /\ left["crash"] <= mode.left["crash"]
  BY <1>1, Zenon DEF LeftType, Count
<1>6. Unharmed' => faults' = mode.faults /\ left'["crash"] = mode.left["crash"]
  BY Zenon DEF Unharmed
<1>7. left'["crash"] <= left["crash"]
  BY Zenon DEF Spent
<1> QED
  BY <1>2, <1>3, <1>4, <1>5, <1>6, <1>7 DEF Unharmed

\* A step that does nothing to the services.
LEMMA HealthSame ==
  ASSUME Form, Healthy, Spent, UNCHANGED <<sys, slot, lock, faults, mode>>,
         \/ loop' = loop
         \/ loop.pc # "pim" /\ loop'.pc # "pim" /\ loop'.pc # "hung"
  PROVE  Healthy'
<1>1. faults' \in Nat /\ faults' <= faults
  BY FormSplit DEF LeftType
<1>2. Unharmed' => Unharmed
  BY <1>1, LeftStep, Zenon
<1>3. ~Blocked => ~Blocked'
  BY Zenon DEF Blocked
<1>4. Stands => Stands'
  <2>1. Separate' = Separate
    BY Zenon DEF Separate
  <2>2. CASE loop' = loop
    BY <2>1, <2>2, Zenon DEF Stands, Half
  <2>3. CASE loop.pc # "pim" /\ loop'.pc # "pim"
    BY <2>1, <2>3, Zenon DEF Stands
  <2> QED
    BY <2>2, <2>3, Zenon
<1> QED
  BY <1>2, <1>3, <1>4, Zenon DEF Healthy

-----------------------------------------------------------------------------
\* A change of the ledger keeps the invariant,
LEMMA ChangeChainStep ==
  ASSUME Form, Healthy, ChangeChain PROVE Form' /\ Healthy'
<1>1. TypeOK /\ mode \in Mode /\ CtlType /\ DataType /\ SlotType /\ LoopType /\ LeftType
  BY FormSplit, Zenon DEF Form
<1>2. Spend("chain") /\ UNCHANGED <<cached, file, enabled, enableCh, ctl, slot, sys, loop, lock, faults, mode>>
  BY Zenon DEF ChangeChain
<1>3. Spent
  BY <1>1, <1>2, SpendOut, Zenon DEF Kinds
<1>4. LeftType'
  BY <1>1, <1>2, <1>3, LeftStep DEF LeftType
<1>5. PICK s \in Svc : \E r \in Wishes(s) : chain' = [chain EXCEPT ![s] = r]
  BY Zenon DEF ChangeChain
<1>6. PICK r \in Wishes(s) : chain' = [chain EXCEPT ![s] = r]
  BY <1>5, Zenon
<1>7. r \in Slots
  BY <1>1, WishTypes, Zenon
<1>8. /\ chain' \in [Svc -> Slots] /\ \A v \in Svc : chain'[v] \in Wishes(v)
  BY <1>1, <1>6, <1>7, Zenon DEF DataType
<1>9. DataType'
  BY <1>1, <1>2, <1>8, Zenon DEF DataType, Wishes
<1>10. CtlType' /\ SlotType' /\ LoopType'
  BY <1>1, <1>2, CtlKept, SlotKept, LoopKept, Zenon
<1>11. Healthy'
  BY <1>2, <1>3, HealthSame, Zenon
<1> QED
  BY <1>1, <1>2, <1>4, <1>9, <1>10, <1>11, FormSplitNext, Zenon

\* a command,
LEMMA CommandStep ==
  ASSUME Form, Healthy, NEW c \in Client, NEW want \in BOOLEAN, Command(c, want) PROVE Form' /\ Healthy'
<1>1. TypeOK /\ mode \in Mode /\ CtlType /\ DataType /\ SlotType /\ LoopType /\ LeftType
  BY FormSplit, Zenon DEF Form
<1>2. /\ Spend("cmd") /\ UNCHANGED <<chain, cached, enabled, enableCh, slot, sys, loop, lock, faults, mode>>
      /\ file' = want /\ ctl' = [ctl EXCEPT ![c] = [pc |-> "check", want |-> want]]
  BY Zenon DEF Command
<1>3. Spent
  BY <1>1, <1>2, SpendOut, Zenon DEF Kinds
<1>4. LeftType'
  BY <1>1, <1>2, <1>3, LeftStep DEF LeftType
<1>5. CtlType'
  BY <1>1, <1>2, Zenon DEF CtlType
<1>6. DataType' /\ SlotType' /\ LoopType'
  BY <1>1, <1>2, DataKept, SlotKept, LoopKept, Zenon
<1>7. Healthy'
  BY <1>2, <1>3, HealthSame, Zenon
<1> QED
  BY <1>1, <1>2, <1>4, <1>5, <1>6, <1>7, FormSplitNext, Zenon

\* SetEnabled,
LEMMA SetEnabledStep ==
  ASSUME Form, Healthy, SetEnabled PROVE Form' /\ Healthy'
<1>1. TypeOK /\ mode \in Mode /\ CtlType /\ DataType /\ SlotType /\ LoopType /\ LeftType
  BY FormSplit, Zenon DEF Form
<1>2. UNCHANGED <<chain, cached, slot, sys, loop, lock, left, faults, mode>>
  BY Zenon DEF SetEnabled, CheckEnabled, Drain, Send
<1>3. Spent
  BY <1>1, <1>2, SpentSame, Zenon
<1>4. LeftType'
  BY <1>1, <1>2, <1>3, LeftStep DEF LeftType
<1>5. PICK c \in Client : CheckEnabled(c) \/ Drain(c) \/ Send(c)
  BY Zenon DEF SetEnabled
<1>6. PICK p \in {"idle", "check", "drain", "send"} : ctl' = [ctl EXCEPT ![c].pc = p]
  BY <1>5, Zenon DEF CheckEnabled, Drain, Send
<1>7. ctl' \in [Client -> [pc : {"idle", "check", "drain", "send"}, want : BOOLEAN]]
  BY <1>1, <1>6, Zenon DEF CtlType
<1>8. file' = file /\ enabled' = enabled
  BY <1>5, Zenon DEF CheckEnabled, Drain, Send
<1>9. ctl[c].want \in BOOLEAN
  BY <1>1, Zenon DEF CtlType
<1>10. enableCh' \in {enableCh, <<>>, <<ctl[c].want>>}
  BY <1>5, Zenon DEF CheckEnabled, Drain, Send
<1>11. enableCh' \in {<<>>, <<TRUE>>, <<FALSE>>}
  <2>1. CASE ctl[c].want = TRUE
    BY <1>1, <1>10, <2>1, Zenon DEF CtlType
  <2>2. CASE ctl[c].want = FALSE
    BY <1>1, <1>10, <2>2, Zenon DEF CtlType
  <2> QED
    BY <1>9, <2>1, <2>2, Zenon
<1>12. CtlType'
  BY <1>1, <1>7, <1>8, <1>11, Zenon DEF CtlType
<1>13. DataType' /\ SlotType' /\ LoopType'
  BY <1>1, <1>2, DataKept, SlotKept, LoopKept, Zenon
<1>14. Healthy'
  BY <1>2, <1>3, HealthSame, Zenon
<1> QED
  BY <1>1, <1>2, <1>4, <1>12, <1>13, <1>14, FormSplitNext, Zenon

\* The head of a sequence of one.
LEMMA HeadOne == ASSUME NEW e PROVE Head(<<e>>) = e
OBVIOUS

\* The loop at rest.
LEMMA QuietIs ==
  ASSUME TypeOK
  PROVE  /\ Quiet \in LoopRec /\ Quiet.pc = "idle" /\ Nothing \in [Svc -> Slots]
         /\ (\A s \in Svc : Quiet.view[s] \in Wishes(s) /\ Nothing[s] \in Wishes(s))
         /\ Quiet.old \in Wishes("multicast")
<1>1. \A s \in Svc : NoReq \in Wishes(s)
  BY WishTypes, Zenon
<1>2. Nothing \in [Svc -> Slots] /\ \A s \in Svc : Nothing[s] = NoReq
  BY Zenon DEF Nothing, Slots
<1>3. Quiet \in LoopRec /\ Quiet.pc = "idle" /\ Quiet.view = Nothing /\ Quiet.old = NoReq
  BY <1>2, Zenon DEF Quiet, LoopRec, Slots
<1> QED
  BY <1>1, <1>2, <1>3, SvcNames, Zenon

\* A round starts with what was fetched.
LEMMA RoundStarts ==
  ASSUME TypeOK, NEW v \in [Svc -> Slots], \A s \in Svc : v[s] \in Wishes(s), UNCHANGED mode,
         loop' = [Quiet EXCEPT !.pc = "unicast", !.view = v]
  PROVE  LoopType' /\ loop'.pc = "unicast"
<1>1. Quiet \in LoopRec /\ Quiet.old \in Wishes("multicast")
  BY QuietIs, Zenon
<1>2. loop' \in LoopRec /\ loop'.pc = "unicast" /\ loop'.view = v /\ loop'.old = Quiet.old
  BY <1>1, Zenon DEF LoopRec
<1>3. \A s \in Svc : Wishes(s)' = Wishes(s)
  BY Zenon DEF Wishes
<1>4. Wishes("multicast")' = Wishes("multicast")
  BY Zenon DEF Wishes
<1> QED
  BY <1>1, <1>2, <1>3, <1>4, Zenon DEF LoopType

\* fetcher.GetProgramData.
LEMMA FetchOut ==
  ASSUME TypeOK, DataType, LoopType, loop.pc = "idle", Fetch, UNCHANGED <<chain, mode>>
  PROVE  DataType' /\ LoopType' /\ loop'.pc # "pim" /\ loop'.pc # "hung"
<1>1. chain \in [Svc -> Slots] /\ \A s \in Svc : chain[s] \in Wishes(s)
  BY Zenon DEF DataType
<1>2. cached # NoData => cached \in [Svc -> Slots] /\ \A s \in Svc : cached[s] \in Wishes(s)
  BY Zenon DEF DataType
<1>3. CASE cached' = chain /\ loop' = [Quiet EXCEPT !.pc = "unicast", !.view = chain]
  <2>1. LoopType' /\ loop'.pc = "unicast"
    BY <1>1, <1>3, RoundStarts, Zenon
  <2>2. DataType'
    BY <1>1, <1>3, Zenon DEF DataType, Wishes
  <2> QED
    BY <2>1, <2>2, Zenon
<1>4. CASE cached # NoData /\ loop' = [Quiet EXCEPT !.pc = "unicast", !.view = cached] /\ UNCHANGED cached
  <2>1. LoopType' /\ loop'.pc = "unicast"
    BY <1>2, <1>4, RoundStarts, Zenon
  <2> QED
    BY <1>4, <2>1, DataKept, Zenon
<1>5. CASE UNCHANGED <<cached, loop>>
  BY <1>5, DataKept, LoopKept, Zenon
<1> QED
  BY <1>3, <1>4, <1>5, Zenon DEF Fetch

\* the ticker,
LEMMA PollStep ==
  ASSUME Form, Healthy, Poll PROVE Form' /\ Healthy'
<1>1. TypeOK /\ mode \in Mode /\ CtlType /\ DataType /\ SlotType /\ LoopType /\ LeftType
  BY FormSplit, Zenon DEF Form
<1>2. /\ UNCHANGED <<chain, file, enabled, enableCh, ctl, slot, sys, lock, left, faults, mode>>
      /\ loop.pc = "idle" /\ Fetch
  BY Zenon DEF Poll
<1>3. Spent
  BY <1>1, <1>2, SpentSame, Zenon
<1>4. LeftType'
  BY <1>1, <1>2, <1>3, LeftStep DEF LeftType
<1>5. DataType' /\ LoopType' /\ loop'.pc # "pim" /\ loop'.pc # "hung"
  BY <1>1, <1>2, FetchOut, Zenon
<1>6. CtlType' /\ SlotType'
  BY <1>1, <1>2, CtlKept, SlotKept, Zenon
<1>7. Healthy'
  BY <1>2, <1>3, <1>5, HealthSame, Zenon
<1> QED
  BY <1>1, <1>2, <1>4, <1>5, <1>6, <1>7, FormSplitNext, Zenon

\* the loop taking a command,
LEMMA TakeEnableStep ==
  ASSUME Form, Healthy, TakeEnable PROVE Form' /\ Healthy'
<1>1. TypeOK /\ mode \in Mode /\ CtlType /\ DataType /\ SlotType /\ LoopType /\ LeftType
  BY FormSplit, Zenon DEF Form
<1>2. /\ UNCHANGED <<chain, file, ctl, slot, sys, lock, left, faults, mode>>
      /\ loop.pc = "idle" /\ enableCh # <<>> /\ enabled' = Head(enableCh) /\ enableCh' = <<>>
  BY Zenon DEF TakeEnable
<1>3. Spent
  BY <1>1, <1>2, SpentSame, Zenon
<1>4. LeftType'
  BY <1>1, <1>2, <1>3, LeftStep DEF LeftType
<1>5. enabled' \in BOOLEAN
  <2>1. Head(<<TRUE>>) = TRUE /\ Head(<<FALSE>>) = FALSE
    BY HeadOne, Zenon
  <2>2. enableCh = <<TRUE>> \/ enableCh = <<FALSE>>
    BY <1>1, <1>2, Zenon DEF CtlType
  <2> QED
    BY <1>2, <2>1, <2>2, Zenon
<1>6. CtlType'
  BY <1>1, <1>2, <1>5, Zenon DEF CtlType
<1>7. DataType' /\ LoopType' /\ loop'.pc # "pim" /\ loop'.pc # "hung"
  <2>1. CASE Fetch
    BY <1>1, <1>2, <2>1, FetchOut, Zenon
  <2>2. CASE loop' = [Quiet EXCEPT !.pc = "unicast"] /\ UNCHANGED cached
    <3>1. Quiet \in LoopRec /\ Quiet.view \in [Svc -> Slots] /\ \A s \in Svc : Quiet.view[s] \in Wishes(s)
      BY <1>1, QuietIs, Zenon DEF LoopRec
    <3>2. loop' = [Quiet EXCEPT !.pc = "unicast", !.view = Quiet.view]
      BY <2>2, <3>1, Zenon DEF LoopRec
    <3>3. LoopType' /\ loop'.pc = "unicast"
      BY <1>1, <1>2, <3>1, <3>2, RoundStarts, Zenon
    <3> QED
      BY <1>1, <1>2, <2>2, <3>3, DataKept, Zenon
  <2> QED
    BY <2>1, <2>2, Zenon DEF TakeEnable
<1>8. SlotType'
  BY <1>1, <1>2, SlotKept, Zenon
<1>9. Healthy'
  BY <1>2, <1>3, <1>7, HealthSame, Zenon
<1> QED
  BY <1>1, <1>2, <1>4, <1>6, <1>7, <1>8, <1>9, FormSplitNext, Zenon

\* ServeProvision and ServeRemove: what is apart from UpdateGroups leaves its
\* two halves together,
LEMMA ServeStep ==
  ASSUME Form, Healthy, NEW s \in Svc, NEW want \in Wishes(s), Serve(s, want) PROVE Form' /\ Healthy'
<1>1. TypeOK /\ mode \in Mode /\ CtlType /\ DataType /\ SlotType /\ LoopType /\ LeftType
  BY FormSplit, Zenon DEF Form
<1>2. /\ UNCHANGED <<chain, cached, file, enabled, enableCh, ctl, loop, mode>>
      /\ Spend("http") /\ Locked(s, want) /\ (mode.apart /\ loop.pc = "pim" => s = "unicast")
  BY Zenon DEF Serve
<1>3. Spent
  BY <1>1, <1>2, SpendOut, Zenon DEF Kinds
<1>4. /\ sys' \in SysType /\ faults' \in Nat /\ faults' <= faults /\ lock' \in {"free", "stuck"}
      /\ slot' \in [Svc -> Slots] /\ \A v \in Svc : slot'[v] \in Wishes(v)
  BY <1>2, LockedOut, Zenon
<1>5. s = "unicast" \/ mode.multi = {} => lock' = "free"
  BY <1>2, LockedOut, Zenon
<1>6. s = "unicast" => MultiSame(sys, sys') /\ slot'["multicast"] = slot["multicast"]
  BY <1>2, LockedOut, Zenon
<1>7. s = "multicast" => UniSame(sys, sys') /\ slot'["unicast"] = slot["unicast"]
  BY <1>2, LockedOut, Zenon
<1>8. /\ faults' = faults /\ s = "unicast" /\ UniAt(sys, slot["unicast"]) => UniAt(sys', slot'["unicast"])
      /\ faults' = faults /\ s = "multicast" /\ Base(sys, slot["multicast"]) =>
           lock' = "free" /\ Base(sys', slot'["multicast"]) /\ Exact(sys', slot'["multicast"])
  BY <1>2, LockedOut, Zenon
<1>9. LeftType' /\ (Unharmed' => Unharmed /\ faults' = faults)
  BY <1>2, <1>3, <1>4, LeftStep, Zenon
<1>10. SlotType'
  BY <1>2, <1>4, Zenon DEF SlotType, Wishes
<1>11. CtlType' /\ DataType' /\ LoopType'
  BY <1>1, <1>2, CtlKept, DataKept, LoopKept, Zenon
<1>12. ASSUME mode.multi = {} PROVE ~Blocked'
  BY <1>2, <1>5, <1>12, Zenon DEF Healthy, Blocked
<1>13. ASSUME Unharmed', mode.apart PROVE ~Blocked' /\ Stands'
  <2>1. Unharmed /\ faults' = faults /\ ~Blocked /\ Stands
    BY <1>9, <1>13, Zenon DEF Healthy
  <2>2. UniAt(sys, slot["unicast"]) /\ Base(sys, slot["multicast"])
    BY <2>1, Zenon DEF Stands
  <2>3. Separate' = Separate
    BY <1>2, Zenon DEF Separate
  <2>4. CASE s = "unicast"
    <3>1. UniAt(sys', slot'["unicast"]) /\ MultiSame(sys, sys') /\ lock' = "free" /\ slot'["multicast"] = slot["multicast"]
      BY <1>5, <1>6, <1>8, <2>1, <2>2, <2>4, Zenon
    <3>2. /\ Base(sys', slot["multicast"])
          /\ Exact(sys, slot["multicast"]) => Exact(sys', slot["multicast"])
          /\ Half(sys, loop.old, loop.view["multicast"]) => Half(sys', loop.old, loop.view["multicast"])
      BY <2>2, <3>1, MultiSameKeeps
    <3>3. Stands'
      BY <1>2, <2>1, <2>3, <3>1, <3>2, Zenon DEF Stands, Half
    <3> QED
      BY <1>2, <2>1, <3>1, <3>3, Zenon DEF Blocked
  <2>5. CASE s = "multicast"
    <3>1. UniSame(sys, sys') /\ slot'["unicast"] = slot["unicast"] /\ loop.pc # "pim"
      BY <1>2, <1>7, <1>13, <2>5, Zenon
    <3>2. UniAt(sys', slot["unicast"])
      BY <2>2, <3>1, UniSameKeeps, Zenon
    <3>3. lock' = "free" /\ Base(sys', slot'["multicast"]) /\ Exact(sys', slot'["multicast"])
      BY <1>8, <2>1, <2>2, <2>5, Zenon
    <3>4. Stands'
      BY <1>2, <3>1, <3>2, <3>3, Zenon DEF Stands
    <3> QED
      BY <1>2, <2>1, <3>3, <3>4, Zenon DEF Blocked
  <2> QED
    BY <2>4, <2>5, Zenon DEF Svc
<1>14. Healthy'
  BY <1>2, <1>12, <1>13, Zenon DEF Healthy
<1> QED
  BY <1>1, <1>2, <1>9, <1>10, <1>11, <1>14, FormSplitNext, Zenon

\* The loop past a service.
LEMMA AfterIs ==
  ASSUME TypeOK, LoopType, NEW s \in Svc
  PROVE  /\ After(s) \in LoopRec /\ After(s).pc \in {"idle", "multicast"}
         /\ (\A v \in Svc : After(s).view[v] \in Wishes(v)) /\ After(s).old \in Wishes("multicast")
<1>1. /\ Quiet \in LoopRec /\ Quiet.pc = "idle"
      /\ (\A v \in Svc : Quiet.view[v] \in Wishes(v)) /\ Quiet.old \in Wishes("multicast")
  BY QuietIs, Zenon
<1>2. loop \in LoopRec /\ \A v \in Svc : loop.view[v] \in Wishes(v)
  BY Zenon DEF LoopType
<1>3. PICK l : l = [loop EXCEPT !.pc = "multicast", !.old = NoReq]
  BY Zenon
<1>4. l \in LoopRec /\ l.pc = "multicast" /\ l.view = loop.view /\ l.old = NoReq
  BY <1>2, <1>3, Zenon DEF LoopRec, Slots
<1>5. NoReq \in Wishes("multicast")
  BY WishTypes, SvcNames, Zenon
<1>6. After(s) = l \/ After(s) = Quiet
  BY <1>3, Zenon DEF After
<1> QED
  BY <1>1, <1>2, <1>4, <1>5, <1>6, Zenon

\* The loop past a service, at rest, or waiting for ever.
LEMMA LoopEnds ==
  ASSUME TypeOK, LoopType, UNCHANGED mode, NEW s \in Svc,
         loop' = After(s) \/ loop' = Quiet \/ loop' = [loop EXCEPT !.pc = "hung"]
  PROVE  LoopType' /\ loop'.pc # "pim" /\ (loop' # [loop EXCEPT !.pc = "hung"] => loop'.pc # "hung")
<1>1. /\ Quiet \in LoopRec /\ Quiet.pc = "idle"
      /\ (\A v \in Svc : Quiet.view[v] \in Wishes(v)) /\ Quiet.old \in Wishes("multicast")
  BY QuietIs, Zenon
<1>2. /\ After(s) \in LoopRec /\ After(s).pc \in {"idle", "multicast"}
      /\ (\A v \in Svc : After(s).view[v] \in Wishes(v)) /\ After(s).old \in Wishes("multicast")
  BY AfterIs, Zenon
<1>3. PICK l : l = [loop EXCEPT !.pc = "hung"]
  BY Zenon
<1>4. /\ l \in LoopRec /\ l.pc = "hung"
      /\ (\A v \in Svc : l.view[v] \in Wishes(v)) /\ l.old \in Wishes("multicast")
  <2>1. loop \in LoopRec /\ (\A v \in Svc : loop.view[v] \in Wishes(v)) /\ loop.old \in Wishes("multicast")
    BY Zenon DEF LoopType
  <2>2. l \in LoopRec /\ l.pc = "hung" /\ l.view = loop.view /\ l.old = loop.old
    BY <1>3, <2>1, Zenon DEF LoopRec
  <2> QED
    BY <2>1, <2>2, Zenon
<1>5. loop' = After(s) \/ loop' = Quiet \/ loop' = l
  BY <1>3, Zenon
<1>6. /\ loop' \in LoopRec /\ loop'.pc \in {"idle", "multicast", "hung"}
      /\ (\A v \in Svc : loop'.view[v] \in Wishes(v)) /\ loop'.old \in Wishes("multicast")
  BY <1>1, <1>2, <1>4, <1>5, Zenon
<1>7. (\A v \in Svc : Wishes(v)' = Wishes(v)) /\ Wishes("multicast")' = Wishes("multicast")
  BY Zenon DEF Wishes
<1>8. LoopType'
  BY <1>6, <1>7, Zenon DEF LoopType
<1> QED
  BY <1>1, <1>2, <1>3, <1>5, <1>6, <1>8, Zenon

\* An operation of the loop under the manager's lock, for the service s.
LEMMA LoopLocked ==
  ASSUME Form, Healthy, NEW s \in Svc, Locked(s, loop.view[s]), loop.pc # "pim", loop.pc # "hung",
         UNCHANGED <<chain, cached, file, enabled, enableCh, ctl, left, mode>>,
         \/ lock' = "free" /\ (loop' = After(s) \/ loop' = Quiet)
         \/ lock' # "free" /\ loop' = [loop EXCEPT !.pc = "hung"]
  PROVE  Form' /\ Healthy'
<1>1. TypeOK /\ mode \in Mode /\ CtlType /\ DataType /\ SlotType /\ LoopType /\ LeftType
  BY FormSplit, Zenon DEF Form
<1>2. loop.view[s] \in Wishes(s)
  BY <1>1, Zenon DEF LoopType
<1>3. Spent
  BY <1>1, SpentSame, Zenon
<1>4. /\ sys' \in SysType /\ faults' \in Nat /\ faults' <= faults /\ lock' \in {"free", "stuck"}
      /\ slot' \in [Svc -> Slots] /\ \A v \in Svc : slot'[v] \in Wishes(v)
  BY <1>2, LockedOut, Zenon
<1>5. s = "unicast" \/ mode.multi = {} => lock' = "free"
  BY <1>2, LockedOut, Zenon
<1>6. s = "unicast" => MultiSame(sys, sys') /\ slot'["multicast"] = slot["multicast"]
  BY <1>2, LockedOut, Zenon
<1>7. s = "multicast" => UniSame(sys, sys') /\ slot'["unicast"] = slot["unicast"]
  BY <1>2, LockedOut, Zenon
<1>8. /\ faults' = faults /\ s = "unicast" /\ UniAt(sys, slot["unicast"]) => UniAt(sys', slot'["unicast"])
      /\ faults' = faults /\ s = "multicast" /\ Base(sys, slot["multicast"]) =>
           lock' = "free" /\ Base(sys', slot'["multicast"]) /\ Exact(sys', slot'["multicast"])
  BY <1>2, LockedOut, Zenon
<1>9. LeftType' /\ (Unharmed' => Unharmed /\ faults' = faults)
  BY <1>3, <1>4, LeftStep, Zenon
<1>10. SlotType'
  BY <1>4, Zenon DEF SlotType, Wishes
<1>11. CtlType' /\ DataType'
  BY <1>1, CtlKept, DataKept, Zenon
<1>12. LoopType' /\ loop'.pc # "pim"
  BY <1>1, LoopEnds, Zenon
<1>13. ASSUME lock' = "free" PROVE ~Blocked'
  <2>1. loop' = After(s) \/ loop' = Quiet
    BY <1>13, Zenon
  <2>2. loop'.pc # "hung"
    BY <1>1, <2>1, AfterIs, QuietIs, Zenon
  <2> QED
    BY <1>13, <2>2, Zenon DEF Blocked
<1>14. ASSUME Unharmed', mode.apart PROVE ~Blocked' /\ Stands'
  <2>1. Unharmed /\ faults' = faults /\ Stands
    BY <1>9, <1>14, Zenon DEF Healthy
  <2>2. UniAt(sys, slot["unicast"]) /\ Base(sys, slot["multicast"]) /\ (Separate => Exact(sys, slot["multicast"]))
    BY <2>1, Zenon DEF Stands
  <2>3. Separate' = Separate
    BY Zenon DEF Separate
  <2>4. CASE s = "unicast"
    <3>1. UniAt(sys', slot'["unicast"]) /\ MultiSame(sys, sys') /\ lock' = "free" /\ slot'["multicast"] = slot["multicast"]
      BY <1>5, <1>6, <1>8, <2>1, <2>2, <2>4, Zenon
    <3>2. /\ Base(sys', slot["multicast"])
          /\ Exact(sys, slot["multicast"]) => Exact(sys', slot["multicast"])
      BY <2>2, <3>1, MultiSameKeeps, Zenon
    <3>3. Stands'
      BY <1>12, <2>2, <2>3, <3>1, <3>2, Zenon DEF Stands
    <3> QED
      BY <1>13, <3>1, <3>3, Zenon
  <2>5. CASE s = "multicast"
    <3>1. UniSame(sys, sys') /\ slot'["unicast"] = slot["unicast"]
      BY <1>7, <2>5, Zenon
    <3>2. UniAt(sys', slot["unicast"])
      BY <2>2, <3>1, UniSameKeeps, Zenon
    <3>3. lock' = "free" /\ Base(sys', slot'["multicast"]) /\ Exact(sys', slot'["multicast"])
      BY <1>8, <2>1, <2>2, <2>5, Zenon
    <3>4. Stands'
      BY <1>12, <3>1, <3>2, <3>3, Zenon DEF Stands
    <3> QED
      BY <1>13, <3>3, <3>4, Zenon
  <2> QED
    BY <2>4, <2>5, Zenon DEF Svc
<1>15. mode.multi = {} => ~Blocked'
  BY <1>5, <1>13, Zenon
<1>16. Healthy'
  BY <1>14, <1>15, Zenon DEF Healthy
<1> QED
  BY <1>1, <1>9, <1>10, <1>11, <1>12, <1>16, FormSplitNext, Zenon

\* reconcileService,
LEMMA ReconcileServiceStep ==
  ASSUME Form, Healthy, NEW s \in Svc, ReconcileService(s) PROVE Form' /\ Healthy'
<1>1. TypeOK /\ mode \in Mode /\ CtlType /\ DataType /\ SlotType /\ LoopType /\ LeftType
  BY FormSplit, Zenon DEF Form
<1>2. UNCHANGED <<chain, cached, file, enabled, enableCh, ctl, left, mode>> /\ loop.pc = s
  BY Zenon DEF ReconcileService
<1>3. loop.pc # "pim" /\ loop.pc # "hung"
  BY <1>2, Zenon DEF Svc
<1>4. Spent
  BY <1>1, <1>2, SpentSame, Zenon
<1>5. CtlType' /\ DataType'
  BY <1>1, <1>2, CtlKept, DataKept, Zenon
<1>6. loop' = After(s) => LoopType' /\ loop'.pc # "pim" /\ loop'.pc # "hung"
  BY <1>1, <1>2, LoopEnds, AfterIs, Zenon
<1>7. CASE loop' = After(s) /\ UNCHANGED <<slot, sys, lock, faults>>
  <2>1. SlotType' /\ LeftType'
    BY <1>1, <1>2, <1>4, <1>7, SlotKept, LeftStep DEF LeftType
  <2>2. Healthy'
    BY <1>2, <1>3, <1>4, <1>6, <1>7, HealthSame, Zenon
  <2> QED
    BY <1>1, <1>2, <1>5, <1>6, <1>7, <2>1, <2>2, FormSplitNext, Zenon
<1>8. CASE Ends(Fault(sys)) /\ loop' = After(s) /\ UNCHANGED <<slot, lock>>
  <2>1. sys \in SysType /\ faults \in Nat
    BY <1>1, Zenon DEF SlotType, LeftType
  <2>2. sys' = sys /\ faults > 0 /\ faults' = faults - 1
    BY <1>8, <2>1, Outcomes, Zenon DEF Ends
  <2>3. faults' \in Nat /\ faults' <= faults /\ faults' # faults
    BY <2>1, <2>2
  <2>4. SlotType' /\ LeftType' /\ ~Unharmed'
    BY <1>1, <1>2, <1>4, <1>8, <2>2, <2>3, SlotKept, LeftStep, Zenon
  <2>5. mode.multi = {} => ~Blocked'
    BY <1>6, <1>8, Zenon DEF Healthy, Blocked
  <2>6. Healthy'
    BY <1>2, <2>4, <2>5, Zenon DEF Healthy
  <2> QED
    BY <1>1, <1>2, <1>5, <1>6, <1>8, <2>4, <2>6, FormSplitNext, Zenon
<1>9. CASE Locked(s, loop.view[s]) /\ loop' = IF lock' = "free" THEN After(s) ELSE [loop EXCEPT !.pc = "hung"]
  BY <1>2, <1>3, <1>9, LoopLocked, Zenon
<1> QED
  BY <1>7, <1>8, <1>9, Zenon DEF ReconcileService

\* its full reprovisioning when UpdateGroups failed,
LEMMA FallbackStep ==
  ASSUME Form, Healthy, Fallback PROVE Form' /\ Healthy'
<1>1. /\ loop.pc = "fallback" /\ Locked("multicast", loop.view["multicast"])
      /\ loop' = IF lock' = "free" THEN Quiet ELSE [loop EXCEPT !.pc = "hung"]
      /\ UNCHANGED <<chain, cached, file, enabled, enableCh, ctl, left, mode>>
  BY Zenon DEF Fallback
<1> QED
  BY <1>1, LoopLocked, SvcNames, Zenon

\* The first half of UpdateGroups keeps tunnel, peer and senders, and the unicast
\* service.
LEMMA SteadyKeeps ==
  ASSUME NEW s, NEW x, Steady(s, x), NEW q, NEW p
  PROVE  /\ q # NoReq /\ Base(s, q) => Base(x.sys, q)
         /\ UniAt(s, p) => UniAt(x.sys, p)
<1>1. UniSame(s, x.sys)
  BY Zenon DEF Steady, Kept, UniSame
<1>2. \A pub, sub : Manned(s, pub, sub) => Manned(x.sys, pub, sub)
  BY WorkerNames, Zenon DEF Steady, Manned, On, Off
<1>3. \A E : Peered(s, "multicast", E) => Peered(x.sys, "multicast", E)
  BY Zenon DEF Steady, Kept, Peered
<1>4. q # NoReq /\ Base(s, q) => Base(x.sys, q)
  BY <1>2, <1>3, Zenon DEF Base, Steady, Kept
<1> QED
  BY <1>1, <1>4, UniSameKeeps, Zenon

\* both halves of UpdateGroups,
LEMMA UpdateGroupsStep ==
  ASSUME Form, Healthy, UpdateGroups PROVE Form' /\ Healthy'
<1>1. TypeOK /\ mode \in Mode /\ CtlType /\ DataType /\ SlotType /\ LoopType /\ LeftType
  BY FormSplit, Zenon DEF Form
<1>2. PICK old, new : old = slot["multicast"] /\ new = loop.view["multicast"]
  BY Zenon
<1>3. /\ UNCHANGED <<chain, cached, file, enabled, enableCh, ctl, slot, lock, left, mode>>
      /\ loop.pc = "multicast" /\ lock = "free" /\ old # NoReq /\ new # NoReq /\ old.ep = new.ep
  BY <1>2, Zenon DEF UpdateGroups, GroupsOnly
<1>4. PICK o \in UpdateRoutes(sys, old, new) :
        /\ Ends(o)
        /\ loop' = [loop EXCEPT !.pc = IF o.end = "ok" THEN "pim" ELSE "fallback", !.old = old]
  BY <1>2, Zenon DEF UpdateGroups
<1>5. old \in Wishes("multicast") /\ new \in Wishes("multicast")
  BY <1>1, <1>2, SvcNames, Zenon DEF SlotType, LoopType
<1>6. old \in mode.multi /\ new \in mode.multi
  BY <1>3, <1>5, Zenon DEF Wishes
<1>7. old \in Req /\ new \in Req /\ (Separate => Disjoint(old) /\ Disjoint(new))
  BY <1>1, <1>6, Types, Zenon DEF MultiReq, Separate, Disjoint
<1>8. sys \in SysType /\ faults \in Nat
  BY <1>1, Zenon DEF SlotType, LeftType
<1>9. /\ Steady(sys, o)
      /\ o.end = "ok" => (old.pub = {} <=> new.pub = {})
      /\ ~o.harm /\ Exact(sys, old) /\ Disjoint(old) /\ Disjoint(new) =>
           IF o.end = "ok" THEN Routed(o.sys, new) /\ Lists(o.sys, new.pub, old.sub) ELSE o.sys = sys
  BY <1>4, <1>7, <1>8, UpdateRoutesOut, Zenon
<1>10. /\ sys' = o.sys /\ faults' \in Nat /\ faults' <= faults /\ (faults' = faults => ~o.harm)
  <2>1. sys' = o.sys /\ (o.harm => faults > 0) /\ faults' = IF o.harm THEN faults - 1 ELSE faults
    BY <1>4, Zenon DEF Ends
  <2> QED
    BY <1>8, <2>1
<1>11. Spent
  BY <1>1, <1>3, SpentSame, Zenon
<1>12. LeftType' /\ (Unharmed' => Unharmed /\ faults' = faults)
  BY <1>3, <1>10, <1>11, LeftStep, Zenon
<1>13. sys' \in SysType
  BY <1>9, <1>10, Zenon DEF Steady, Outcome
<1>14. SlotType'
  BY <1>1, <1>3, <1>13, Zenon DEF SlotType, Wishes
<1>15. CtlType' /\ DataType'
  BY <1>1, <1>3, CtlKept, DataKept, Zenon
<1>16. PICK p \in {"pim", "fallback"} : p = IF o.end = "ok" THEN "pim" ELSE "fallback"
  BY Zenon
<1>17. loop' \in LoopRec /\ loop'.pc = p /\ loop'.view = loop.view /\ loop'.old = old
  <2>1. loop \in LoopRec /\ old \in Slots
    BY <1>1, <1>7, Zenon DEF LoopType, Slots
  <2>2. loop' = [loop EXCEPT !.pc = p, !.old = old]
    BY <1>4, <1>16, Zenon
  <2> QED
    BY <2>1, <2>2, Zenon DEF LoopRec
<1>18. LoopType'
  <2>1. (\A v \in Svc : Wishes(v)' = Wishes(v)) /\ Wishes("multicast")' = Wishes("multicast")
    BY <1>3, Zenon DEF Wishes
  <2>2. \A v \in Svc : loop.view[v] \in Wishes(v)
    BY <1>1, Zenon DEF LoopType
  <2> QED
    BY <1>2, <1>3, <1>5, <1>6, <1>17, <2>1, <2>2, Zenon DEF LoopType
<1>19. ~Blocked'
  BY <1>3, <1>17, Zenon DEF Blocked
<1>20. ASSUME Unharmed', mode.apart PROVE Stands'
  <2>1. faults' = faults /\ Stands
    BY <1>12, <1>20, Zenon DEF Healthy
  <2>2. ~o.harm /\ UniAt(sys, slot["unicast"]) /\ Base(sys, old) /\ (Separate => Exact(sys, old))
    BY <1>2, <1>3, <1>10, <2>1, Zenon DEF Stands
  <2>3. UniAt(sys', slot["unicast"]) /\ Base(sys', old)
    BY <1>3, <1>9, <1>10, <2>2, SteadyKeeps, Zenon
  <2>4. Separate' = Separate
    BY <1>3, Zenon DEF Separate
  <2>5. CASE o.end = "ok"
    <3>1. Half(sys', old, new)
      BY <1>3, <1>7, <1>9, <1>10, <2>2, <2>5, Zenon DEF Half
    <3>2. Half(sys, old, new)' <=> Half(sys', old, new)
      BY <2>4, Zenon DEF Half
    <3>3. loop'.pc = "pim" /\ loop'.old = old /\ loop'.view["multicast"] = new /\ slot' = slot
      BY <1>2, <1>3, <1>16, <1>17, <2>5, Zenon
    <3> QED
      BY <1>2, <2>3, <3>1, <3>2, <3>3, Zenon DEF Stands, Half
  <2>6. CASE o.end # "ok"
    <3>1. Separate => Exact(sys', old)
      BY <1>7, <1>9, <1>10, <2>2, <2>6, Zenon
    <3>2. loop'.pc # "pim" /\ slot' = slot
      BY <1>3, <1>16, <1>17, <2>6, Zenon
    <3> QED
      BY <1>2, <2>3, <2>4, <3>1, <3>2, Zenon DEF Stands
  <2> QED
    BY <2>5, <2>6, Zenon
<1>21. Healthy'
  BY <1>3, <1>19, <1>20, Zenon DEF Healthy
<1> QED
  BY <1>1, <1>3, <1>12, <1>14, <1>15, <1>18, <1>21, FormSplitNext, Zenon

\* of which the second hands the service over,
LEMMA UpdateGroupsPimStep ==
  ASSUME Form, Healthy, UpdateGroupsPim PROVE Form' /\ Healthy'
<1>1. TypeOK /\ mode \in Mode /\ CtlType /\ DataType /\ SlotType /\ LoopType /\ LeftType
  BY FormSplit, Zenon DEF Form
<1>2. PICK old, new : old = loop.old /\ new = loop.view["multicast"]
  BY Zenon
<1>3. /\ UNCHANGED <<chain, cached, file, enabled, enableCh, ctl, lock, left, mode>>
      /\ loop.pc = "pim"
  BY Zenon DEF UpdateGroupsPim
<1>4. PICK o \in UpdatePim(sys, old, new) :
        /\ Ends(o)
        /\ loop' = IF o.end = "ok" THEN Quiet
                   ELSE [loop EXCEPT !.pc = IF o.end = "hang" THEN "hung" ELSE "fallback"]
        /\ slot' = IF o.end = "ok" /\ slot["multicast"] = old
                   THEN [slot EXCEPT !["multicast"] = new] ELSE slot
  BY <1>2, Zenon DEF UpdateGroupsPim
<1>5. /\ old \in Wishes("multicast") /\ new \in Wishes("multicast") /\ old # NoReq /\ new # NoReq
      /\ mode.multi # {}
  BY <1>1, <1>2, <1>3, SvcNames, Zenon DEF LoopType
<1>6. old \in Req /\ new \in Req
  BY <1>1, <1>5, Types, Zenon DEF MultiReq, Wishes
<1>7. sys \in SysType /\ faults \in Nat
  BY <1>1, Zenon DEF SlotType, LeftType
<1>8. SenderCall(sys, o, "pim")
  BY <1>4, <1>6, <1>7, UpdatePimOut, Zenon
<1>9. ~o.harm /\ Manned(sys, old.pub, old.sub) =>
              /\ o.end = "ok" /\ Manned(o.sys, old.pub, new.sub)
              /\ Lists(sys, new.pub, old.sub) => Lists(o.sys, new.pub, new.sub)
  BY <1>4, <1>6, <1>7, UpdatePimOut, Zenon
<1>10. /\ sys' = o.sys /\ faults' \in Nat /\ faults' <= faults /\ (faults' = faults => ~o.harm)
  <2>1. sys' = o.sys /\ (o.harm => faults > 0) /\ faults' = IF o.harm THEN faults - 1 ELSE faults
    BY <1>4, Zenon DEF Ends
  <2> QED
    BY <1>7, <2>1
<1>11. Spent
  BY <1>1, <1>3, SpentSame, Zenon
<1>12. LeftType' /\ (Unharmed' => Unharmed /\ faults' = faults)
  BY <1>3, <1>10, <1>11, LeftStep, Zenon
<1>13. sys' \in SysType
  BY <1>8, <1>10, Zenon DEF SenderCall, Outcome
<1>14. (\A v \in Svc : Wishes(v)' = Wishes(v)) /\ Wishes("multicast")' = Wishes("multicast")
  BY <1>3, Zenon DEF Wishes
<1>15. slot' \in [Svc -> Slots] /\ \A v \in Svc : slot'[v] \in Wishes(v)
  BY <1>1, <1>4, <1>5, <1>6, Zenon DEF SlotType, Slots
<1>16. SlotType'
  BY <1>1, <1>3, <1>13, <1>14, <1>15, Zenon DEF SlotType
<1>17. CtlType' /\ DataType'
  BY <1>1, <1>3, CtlKept, DataKept, Zenon
<1>18. LoopType'
  <2>1. CASE loop' = Quiet
    BY <1>1, <1>3, <2>1, LoopEnds, SvcNames, Zenon
  <2>2. CASE loop' = [loop EXCEPT !.pc = "hung"]
    BY <1>1, <1>3, <2>2, LoopEnds, SvcNames, Zenon
  <2>3. CASE loop' = [loop EXCEPT !.pc = "fallback"]
    <3>1. loop \in LoopRec /\ (\A v \in Svc : loop.view[v] \in Wishes(v)) /\ loop.old \in Wishes("multicast")
      BY <1>1, Zenon DEF LoopType
    <3>2. loop' \in LoopRec /\ loop'.pc = "fallback" /\ loop'.view = loop.view /\ loop'.old = loop.old
      BY <2>3, <3>1, Zenon DEF LoopRec
    <3> QED
      BY <1>2, <1>3, <1>5, <1>14, <3>1, <3>2, Zenon DEF LoopType
  <2> QED
    BY <1>4, <2>1, <2>2, <2>3, Zenon
<1>19. ASSUME Unharmed', mode.apart PROVE ~Blocked' /\ Stands'
  <2>1. faults' = faults /\ Stands /\ ~Blocked
    BY <1>12, <1>19, Zenon DEF Healthy
  <2>2. /\ ~o.harm /\ UniAt(sys, slot["unicast"]) /\ Base(sys, old) /\ slot["multicast"] = old
        /\ Half(sys, old, new)
    BY <1>2, <1>3, <1>10, <2>1, Zenon DEF Stands
  <2>3. /\ Manned(sys, old.pub, old.sub) /\ sys.tun["multicast"] = [ep |-> old.ep, up |-> TRUE]
        /\ Peered(sys, "multicast", {old.ep})
    BY <1>5, <2>2, Zenon DEF Base
  <2>4. /\ o.end = "ok" /\ Manned(o.sys, old.pub, new.sub)
        /\ Lists(sys, new.pub, old.sub) => Lists(o.sys, new.pub, new.sub)
    BY <1>9, <2>2, <2>3, Zenon
  <2>5. Kept(sys, sys') /\ sys'.routes = sys.routes
    BY <1>8, <1>10, Zenon DEF SenderCall
  <2>6. /\ new.ep = old.ep /\ (old.pub = {} <=> new.pub = {})
        /\ Separate => Routed(sys, new) /\ Lists(sys, new.pub, old.sub)
    BY <2>2, Zenon DEF Half
  <2>7. Manned(sys', new.pub, new.sub)
    BY <1>10, <2>4, <2>6, Zenon DEF Manned
  <2>8. Base(sys', new)
    BY <1>5, <2>3, <2>5, <2>6, <2>7, Zenon DEF Base, Kept, Peered
  <2>9. Separate => Exact(sys', new)
    BY <1>10, <2>4, <2>5, <2>6, Zenon DEF Exact, Routed
  <2>10. UniAt(sys', slot["unicast"])
    <3>1. UniSame(sys, sys')
      BY <2>5, Zenon DEF Kept, UniSame
    <3> QED
      BY <2>2, <3>1, UniSameKeeps, Zenon
  <2>11. slot'["multicast"] = new /\ slot'["unicast"] = slot["unicast"]
    BY <1>1, <1>4, <2>2, <2>4, SvcNames, Zenon DEF SlotType
  <2>12. loop'.pc = "idle"
    BY <1>1, <1>4, <2>4, QuietIs, Zenon
  <2>13. Separate' = Separate
    BY <1>3, Zenon DEF Separate
  <2>14. Stands'
    BY <2>8, <2>9, <2>10, <2>11, <2>12, <2>13, Zenon DEF Stands
  <2> QED
    BY <1>3, <2>1, <2>12, <2>14, Zenon DEF Blocked
<1>20. Healthy'
  BY <1>3, <1>5, <1>19, Zenon DEF Healthy
<1> QED
  BY <1>1, <1>3, <1>12, <1>16, <1>17, <1>18, <1>20, FormSplitNext, Zenon

\* What is left of the system when the process ends.
LEMMA ForgetType == ASSUME NEW s \in SysType PROVE Forget(s) \in SysType
BY Zenon DEF Forget, SysType, IdleWorker

\* a restart, which counts as a crash,
LEMMA RestartStep ==
  ASSUME Form, Healthy, Restart, sys' \in SysType, faults' \in Nat, faults' <= faults
  PROVE  Form' /\ Healthy'
<1>1. TypeOK /\ mode \in Mode /\ CtlType /\ DataType /\ SlotType /\ LoopType /\ LeftType
  BY FormSplit, Zenon DEF Form
<1>2. /\ Spend("crash") /\ enabled' = file /\ enableCh' = <<>> /\ cached' = NoData
      /\ ctl' = [c \in Client |-> [pc |-> "idle", want |-> FALSE]]
      /\ slot' = Nothing /\ loop' = Quiet /\ lock' = "free" /\ UNCHANGED <<chain, file, mode>>
  BY Zenon DEF Restart
<1>3. Spent /\ left'["crash"] < left["crash"]
  BY <1>1, <1>2, SpendOut, Zenon DEF Kinds
<1>4. LeftType' /\ ~Unharmed'
  BY <1>2, <1>3, LeftStep, Zenon
<1>5. \A v \in Svc : Wishes(v)' = Wishes(v)
  BY <1>2, Zenon DEF Wishes
<1>6. CtlType'
  BY <1>1, <1>2, Zenon DEF CtlType
<1>7. DataType'
  BY <1>1, <1>2, <1>5, Zenon DEF DataType
<1>8. SlotType'
  BY <1>1, <1>2, <1>5, QuietIs, Zenon DEF SlotType
<1>9. LoopType' /\ loop'.pc = "idle"
  BY <1>1, <1>2, <1>5, QuietIs, SvcNames, Zenon DEF LoopType
<1>10. Healthy'
  BY <1>2, <1>4, <1>9, Zenon DEF Healthy, Blocked
<1> QED
  BY <1>1, <1>2, <1>4, <1>6, <1>7, <1>8, <1>9, <1>10, FormSplitNext, Zenon

\* with or without
LEMMA CrashStep ==
  ASSUME Form, Healthy, Crash PROVE Form' /\ Healthy'
<1>1. sys \in SysType /\ faults \in Nat
  BY FormSplit, Zenon DEF SlotType, LeftType
<1>2. Restart /\ sys' = Forget(sys) /\ faults' = faults
  BY Zenon DEF Crash
<1> QED
  BY <1>1, <1>2, ForgetType, RestartStep

\* The outcomes of Remove.
LEMMA RemovedOut ==
  ASSUME TypeOK, NEW s \in Svc, NEW t \in SysType, NEW r \in Wishes(s), NEW x \in Removed(t, r)
  PROVE  x \in Outcome
<1>1. CASE r = NoReq
  BY <1>1, Outcomes, Zenon DEF Removed
<1>2. CASE r # NoReq /\ s = "unicast"
  <2>1. r \in UniReq /\ x \in Teardown(t, r)
    BY <1>2, WishTypes, Zenon DEF Removed
  <2> QED
    BY <2>1, UniOps, Zenon DEF UniOut
<1>3. CASE r # NoReq /\ s = "multicast"
  <2>1. r \in MultiReq /\ x \in Teardown(t, r)
    BY <1>3, WishTypes, Zenon DEF Removed
  <2> QED
    BY <2>1, MultiOps, Zenon DEF MultiOut
<1> QED
  BY <1>1, <1>2, <1>3, Zenon DEF Svc

\* Counting down.
LEMMA OneLess ==
  ASSUME NEW m \in Nat, NEW n, n = m \/ (m > 0 /\ n = m - 1) PROVE n \in Nat /\ n <= m
OBVIOUS

\* an orderly shutdown,
LEMMA ShutdownStep ==
  ASSUME Form, Healthy, Shutdown PROVE Form' /\ Healthy'
<1>1. TypeOK /\ sys \in SysType /\ faults \in Nat
      /\ slot["unicast"] \in Wishes("unicast") /\ slot["multicast"] \in Wishes("multicast")
  BY FormSplit, SvcNames, Zenon DEF SlotType, LeftType, Form
<1>2. PICK A : A = Removed(sys, slot["unicast"])
  BY Zenon
<1>3. PICK o \in Despite(A, LAMBDA t : IF slot["multicast"] = NoReq THEN {Ok(t)} ELSE Teardown(t, slot["multicast"])) :
        /\ o.end # "hang"
        /\ Ends([o EXCEPT !.sys = Forget(@)])
  BY <1>2, Zenon DEF Shutdown, Removed
<1>4. \A a \in A : a \in Outcome
  BY <1>1, <1>2, SvcNames, RemovedOut, Zenon
<1>5. o \in Outcome
  <2>1. o \in UNION {IF a.end = "hang" THEN {a}
                     ELSE {Over(p, a) : p \in Removed(a.sys, slot["multicast"])} : a \in A}
    BY <1>3, Zenon DEF Despite, Over, Removed
  <2>2. PICK a \in A : IF a.end = "hang" THEN o = a
                       ELSE \E p \in Removed(a.sys, slot["multicast"]) : o = Over(p, a)
    BY <2>1, Zenon
  <2>3. a \in Outcome /\ a.sys \in SysType
    BY <1>4, Zenon DEF Outcome
  <2>4. CASE o = a
    BY <2>3, <2>4, Zenon
  <2>5. ASSUME NEW p \in Removed(a.sys, slot["multicast"]), o = Over(p, a) PROVE o \in Outcome
    <3>1. p \in Outcome
      BY <1>1, <2>3, SvcNames, RemovedOut, Zenon
    <3> QED
      BY <2>3, <2>5, <3>1, Zenon DEF Over, Outcome
  <2> QED
    BY <2>2, <2>4, <2>5, Zenon
<1>6. PICK u : u = [o EXCEPT !.sys = Forget(@)]
  BY Zenon
<1>7. u.sys = Forget(o.sys) /\ u.sys \in SysType
  BY <1>5, <1>6, ForgetType, Zenon DEF Outcome
<1>8. Ends(u)
  BY <1>3, <1>6, Zenon
<1>9. sys' = u.sys /\ (u.harm => faults > 0) /\ faults' = IF u.harm THEN faults - 1 ELSE faults
  BY <1>8, Zenon DEF Ends
<1>10. faults' \in Nat /\ faults' <= faults
  <2>1. faults' = faults \/ (faults > 0 /\ faults' = faults - 1)
    BY <1>9, Zenon
  <2> QED
    BY <1>1, <2>1, OneLess, Zenon
<1>11. Restart
  BY Zenon DEF Shutdown
<1> QED
  BY <1>7, <1>9, <1>10, <1>11, RestartStep, Zenon

\* and so every step.
LEMMA ServiceStep ==
  ASSUME Form, Healthy, [Next]_vars PROVE Form' /\ Healthy'
<1>1. CASE UNCHANGED vars
  <2>1. UNCHANGED <<chain, cached, file, enabled, enableCh, ctl, slot, sys, loop, lock, left, faults, mode>>
    BY <1>1, Zenon DEF vars
  <2>2. Form'
    BY <2>1, Zenon DEF Form, TypeOK, Wished, Count, Wishes
  <2>3. Healthy'
    BY <2>1, Zenon DEF Healthy, Unharmed, Blocked, Stands, Separate, Half
  <2> QED
    BY <2>2, <2>3, Zenon
<1>2. CASE Round
  BY <1>2, SvcNames, ReconcileServiceStep, UpdateGroupsStep, UpdateGroupsPimStep, FallbackStep, Zenon DEF Round
<1>3. CASE ChangeChain \/ (\E c \in Client, want \in BOOLEAN : Command(c, want)) \/ SetEnabled
  BY <1>3, ChangeChainStep, CommandStep, SetEnabledStep, Zenon
<1>4. CASE (\E s \in Svc : \E want \in Wishes(s) : Serve(s, want)) \/ Poll \/ TakeEnable
  BY <1>4, ServeStep, PollStep, TakeEnableStep, Zenon
<1>5. CASE Crash \/ Shutdown
  BY <1>5, CrashStep, ShutdownStep, Zenon
<1> QED
  BY <1>1, <1>2, <1>3, <1>4, <1>5, Zenon DEF Next

-----------------------------------------------------------------------------
\* Commands given one at a time keep what is known of them.
LEMMA CtlStep ==
  ASSUME CtlType, CtlInv, mode.patient, [Next]_vars PROVE CtlInv'
<1>1. /\ \A c, d \in Client : ctl[c].pc # "idle" /\ ctl[d].pc # "idle" => c = d
      /\ \A c \in Client : ctl[c].pc # "idle" => ctl[c].want = file /\ enableCh = <<>>
      /\ enableCh # <<>> => enableCh = <<file>>
      /\ (\A c \in Client : ctl[c].pc = "idle") /\ enableCh = <<>> => enabled = file
  BY Zenon DEF CtlInv, LastCommandWins
<1>2. ctl \in [Client -> [pc : {"idle", "check", "drain", "send"}, want : BOOLEAN]]
  BY Zenon DEF CtlType
<1>3. SUFFICES
      /\ \A c, d \in Client : ctl'[c].pc # "idle" /\ ctl'[d].pc # "idle" => c = d
      /\ \A c \in Client : ctl'[c].pc # "idle" => ctl'[c].want = file' /\ enableCh' = <<>>
      /\ enableCh' # <<>> => enableCh' = <<file'>>
      /\ (\A c \in Client : ctl'[c].pc = "idle") /\ enableCh' = <<>> => enabled' = file'
  BY Zenon DEF CtlInv, LastCommandWins
<1>4. CASE UNCHANGED <<file, enabled, enableCh, ctl>>
  BY <1>1, <1>4, Zenon
<1>5. ASSUME NEW c \in Client, NEW want \in BOOLEAN, Command(c, want)
      PROVE  /\ \A b, d \in Client : ctl'[b].pc # "idle" /\ ctl'[d].pc # "idle" => b = d
             /\ \A d \in Client : ctl'[d].pc # "idle" => ctl'[d].want = file' /\ enableCh' = <<>>
             /\ enableCh' # <<>> => enableCh' = <<file'>>
             /\ (\A d \in Client : ctl'[d].pc = "idle") /\ enableCh' = <<>> => enabled' = file'
  <2>1. /\ enableCh = <<>> /\ (\A d \in Client : ctl[d].pc = "idle") /\ file' = want /\ enableCh' = enableCh
        /\ ctl' = [ctl EXCEPT ![c] = [pc |-> "check", want |-> want]]
    BY <1>5, Zenon DEF Command
  <2>2. ctl'[c].pc = "check" /\ ctl'[c].want = want /\ \A d \in Client : d # c => ctl'[d].pc = "idle"
    BY <1>2, <2>1, Zenon
  <2> QED
    BY <2>1, <2>2, Zenon
<1>6. ASSUME NEW c \in Client, CheckEnabled(c) \/ Drain(c) \/ Send(c)
      PROVE  /\ \A b, d \in Client : ctl'[b].pc # "idle" /\ ctl'[d].pc # "idle" => b = d
             /\ \A d \in Client : ctl'[d].pc # "idle" => ctl'[d].want = file' /\ enableCh' = <<>>
             /\ enableCh' # <<>> => enableCh' = <<file'>>
             /\ (\A d \in Client : ctl'[d].pc = "idle") /\ enableCh' = <<>> => enabled' = file'
  <2>1. ctl[c].pc # "idle" /\ file' = file /\ enabled' = enabled
    BY <1>6, Zenon DEF CheckEnabled, Drain, Send
  <2>2. ctl[c].want = file /\ enableCh = <<>> /\ \A d \in Client : d # c => ctl[d].pc = "idle"
    BY <1>1, <2>1, Zenon
  <2>3. PICK p : ctl' = [ctl EXCEPT ![c].pc = p]
    BY <1>6, Zenon DEF CheckEnabled, Drain, Send
  <2>4. ctl'[c].pc = p /\ ctl'[c].want = ctl[c].want /\ \A d \in Client : d # c => ctl'[d] = ctl[d]
    BY <1>2, <2>3, Zenon
  <2>5. CASE CheckEnabled(c)
    <3>1. enableCh' = enableCh /\ ctl' = [ctl EXCEPT ![c].pc = IF enabled = ctl[c].want THEN "idle" ELSE "drain"]
      BY <2>5, Zenon DEF CheckEnabled
    <3>2. ctl'[c].pc = "idle" => enabled = ctl[c].want
      BY <1>2, <3>1, Zenon
    <3> QED
      BY <2>1, <2>2, <2>4, <3>1, <3>2, Zenon
  <2>6. CASE Drain(c)
    <3>1. enableCh' = <<>> /\ ctl' = [ctl EXCEPT ![c].pc = "send"]
      BY <2>6, Zenon DEF Drain
    <3>2. ctl'[c].pc # "idle"
      BY <1>2, <3>1, Zenon
    <3> QED
      BY <2>1, <2>2, <2>4, <3>1, <3>2, Zenon
  <2>7. CASE Send(c)
    <3>1. enableCh' = <<ctl[c].want>> /\ ctl' = [ctl EXCEPT ![c].pc = "idle"]
      BY <2>7, Zenon DEF Send
    <3>2. ctl'[c].pc = "idle"
      BY <1>2, <3>1, Zenon
    <3>3. enableCh' # <<>>
      BY <3>1, Zenon
    <3> QED
      BY <2>1, <2>2, <2>4, <3>1, <3>2, <3>3, Zenon
  <2> QED
    BY <1>6, <2>5, <2>6, <2>7, Zenon
<1>7. CASE TakeEnable
  <2>1. enableCh # <<>> /\ enabled' = Head(enableCh) /\ enableCh' = <<>> /\ file' = file /\ ctl' = ctl
    BY <1>7, Zenon DEF TakeEnable
  <2>2. enabled' = file
    BY <1>1, <2>1, HeadOne, Zenon
  <2> QED
    BY <1>1, <2>1, <2>2, Zenon
<1>8. CASE Crash \/ Shutdown
  <2>1. enabled' = file /\ file' = file /\ enableCh' = <<>> /\ ctl' = [c \in Client |-> [pc |-> "idle", want |-> FALSE]]
    BY <1>8, Zenon DEF Crash, Shutdown, Restart
  <2>2. \A c \in Client : ctl'[c].pc = "idle"
    BY <2>1, Zenon
  <2> QED
    BY <2>1, <2>2, Zenon
<1>9. CASE ChangeChain \/ Poll \/ (\E s \in Svc : \E want \in Wishes(s) : Serve(s, want))
  BY <1>4, <1>9, Zenon DEF ChangeChain, Poll, Serve
<1>10. CASE Round
  BY <1>4, <1>10, Zenon DEF Round, ReconcileService, UpdateGroups, UpdateGroupsPim, Fallback
<1>11. CASE UNCHANGED vars
  BY <1>4, <1>11, Zenon DEF vars
<1> QED
  BY <1>5, <1>6, <1>7, <1>8, <1>9, <1>10, <1>11, Zenon DEF Next, SetEnabled

\* The environment stays.
LEMMA ModeKept == ASSUME [Next]_vars PROVE mode' = mode
<1>1. CASE ChangeChain \/ (\E c \in Client, want \in BOOLEAN : Command(c, want)) \/ SetEnabled \/ Poll \/ TakeEnable
  BY <1>1, Zenon DEF ChangeChain, Command, SetEnabled, CheckEnabled, Drain, Send, Poll, TakeEnable
<1>2. CASE Round
  BY <1>2, Zenon DEF Round, ReconcileService, UpdateGroups, UpdateGroupsPim, Fallback
<1>3. CASE Crash \/ Shutdown \/ (\E s \in Svc : \E want \in Wishes(s) : Serve(s, want)) \/ UNCHANGED vars
  BY <1>3, Zenon DEF Crash, Shutdown, Restart, Serve, vars
<1> QED
  BY <1>1, <1>2, <1>3, Zenon DEF Next

\* The invariant holds at the start.
LEMMA InitInv == ASSUME Init PROVE RInv
<1>1. /\ mode \in Mode /\ left = mode.left /\ faults = mode.faults /\ chain = Nothing /\ cached = NoData
      /\ file \in BOOLEAN /\ enabled = file /\ enableCh = <<>> /\ slot = Nothing /\ sys = EmptySys
      /\ ctl = [c \in Client |-> [pc |-> "idle", want |-> FALSE]] /\ loop = Quiet /\ lock = "free"
  BY Zenon DEF Init
<1>2. mode \in ModeType
  BY <1>1, ReconcilerAssumption, Zenon
<1>3. mode.left \in [Kinds -> Nat] /\ mode.faults \in Nat
  BY <1>2, Zenon DEF ModeType, Kinds
<1>4. sys \in SysType
  BY <1>1, Zenon DEF EmptySys, SysType, NoTunnel, IdleWorker
<1>5. Nothing \in [Svc -> Req \cup {NoReq}] /\ \A s \in Svc : Nothing[s] = NoReq
  BY Zenon DEF Nothing
<1>6. /\ Quiet \in [pc : {"idle", "unicast", "multicast", "pim", "fallback", "hung"},
                   view : [Svc -> Req \cup {NoReq}], old : Req \cup {NoReq}]
      /\ Quiet.pc = "idle" /\ Quiet.view = Nothing /\ Quiet.old = NoReq
  BY <1>5, Zenon DEF Quiet
<1>7. CtlType
  BY <1>1, Zenon DEF CtlType
<1>8. left \in [DOMAIN mode.left -> Nat] /\ faults \in Nat
  BY <1>1, <1>3, Zenon
<1>9. TypeOK
  BY <1>1, <1>4, <1>5, <1>6, <1>7, <1>8, Zenon DEF TypeOK, CtlType
<1>10. Wished
  BY <1>1, <1>5, <1>6, Zenon DEF Wished, Wishes
<1>11. Count
  BY <1>1, <1>3 DEF Count, Kinds
<1>12. Stands
  <2>1. slot["unicast"] = NoReq /\ slot["multicast"] = NoReq
    BY <1>1, <1>5, SvcNames, Zenon
  <2>2. UniAt(sys, NoReq)
    BY <1>1, SvcNames, Zenon DEF UniAt, EmptySys, Peered
  <2>3. Manned(sys, {}, {})
    BY <1>1, WorkerNames, Zenon DEF Manned, Off, EmptySys, IdleWorker
  <2>4. Base(sys, NoReq)
    BY <1>1, <2>3, SvcNames, Zenon DEF Base, EmptySys, Peered
  <2> QED
    BY <1>1, <1>6, <2>1, <2>2, <2>4, Zenon DEF Stands, Exact
<1>13. Healthy
  BY <1>1, <1>6, <1>12, Zenon DEF Healthy, Blocked
<1>14. CtlInv
  BY <1>1, Zenon DEF CtlInv, LastCommandWins
<1> QED
  BY <1>9, <1>10, <1>11, <1>13, <1>14, Zenon DEF RInv

\* The inductive invariant behind the three theorems that follow (manager.go
\* StartReconciler, reconcile, Provision, Remove, UpdateGroups; services/*.go).
THEOREM ReconcilerInvariant == Spec => []RInv
<1>1. RInv /\ [Next]_vars => RInv'
  <2> SUFFICES ASSUME RInv, [Next]_vars PROVE RInv'
    BY Zenon
  <2>1. Form /\ Healthy /\ CtlInv
    BY Zenon DEF RInv, Form
  <2>2. Form' /\ Healthy'
    BY <2>1, ServiceStep, Zenon
  <2>3. CtlInv'
    <3>1. CASE mode.patient
      BY <2>1, <3>1, FormSplit, CtlStep, Zenon
    <3>2. CASE ~mode.patient
      BY <3>2, ModeKept, Zenon DEF CtlInv
    <3> QED
      BY <3>1, <3>2, Zenon
  <2> QED
    BY <2>2, <2>3, Zenon DEF RInv, Form
<1> QED
  BY <1>1, InitInv, PTL DEF Spec

\* Services that stand are intact, and nothing is left of others.
LEMMA StandsIntact ==
  ASSUME TypeOK, Wished, Stands, Separate, loop.pc # "pim", NEW s \in Svc
  PROVE  IF slot[s] = NoReq THEN Absent(s) ELSE Intact(s, slot[s])
<1>1. sys \in SysType /\ slot[s] \in Wishes(s)
  BY Zenon DEF TypeOK, Wished
<1>2. CASE s = "unicast"
  <2>1. UniAt(sys, slot[s])
    BY <1>2, Zenon DEF Stands
  <2>2. slot[s] # NoReq => slot[s].ep \in Endpoint
    BY <1>1, <1>2, WishTypes, Zenon DEF UniReq, Req
  <2> QED
    BY <1>2, <2>1, <2>2, Zenon DEF UniAt, Peered, Absent, Intact
<1>3. CASE s = "multicast"
  <2>1. Base(sys, slot[s]) /\ Exact(sys, slot[s])
    BY <1>3, Zenon DEF Stands
  <2>2. slot[s] # NoReq => slot[s].ep \in Endpoint /\ slot[s].kind = "multicast"
    BY <1>1, <1>3, WishTypes, Zenon DEF MultiReq, Req
  <2>3. \A w \in Worker : Off(sys, w) => ~Running(sys.worker[w])
    BY <1>1 DEF Off, Running, SysType
  <2>4. CASE slot[s] = NoReq
    <3>1. \A w \in Worker : Off(sys, w)
      BY <2>1, <2>4, Zenon DEF Base, Manned, Worker
    <3> QED
      BY <1>3, <2>1, <2>3, <2>4, <3>1, Zenon DEF Base, Peered, Absent
  <2>5. CASE slot[s] # NoReq
    <3>1. PICK r : r = slot[s]
      BY Zenon
    <3>2. sys.tun[s] = [ep |-> r.ep, up |-> TRUE] /\ <<s, r.ep>> \in sys.peers /\ Manned(sys, r.pub, r.sub)
      BY <1>3, <2>1, <2>2, <2>5, <3>1, Zenon DEF Base, Peered
    <3>3. (\A g \in Group : sys.routes[g] = RouteFor(r, g)) /\ Lists(sys, r.pub, r.sub)
      BY <2>1, <2>5, <3>1, Zenon DEF Exact, Routed
    <3>4. Sends("heartbeat", r.pub) /\ Sends("register", r.pub) /\ Sends("pim", r.sub)
      BY <2>3, <3>2, <3>3, WorkerNames, Zenon DEF Sends, Manned, Lists, On
    <3> QED
      BY <2>2, <2>5, <3>1, <3>2, <3>3, <3>4, Zenon DEF Intact
  <2> QED
    BY <2>4, <2>5, Zenon
<1> QED
  BY <1>2, <1>3, Zenon DEF Svc

\* For any endpoints, groups, requests and callers, and any bounds on ledger
\* changes, commands and calls: as long as no call to the kernel or the network
\* failed and the daemon did not restart, what is set up (tunnels, peers, rules,
\* routes, group lists, senders) is exactly that of the services the manager
\* holds, however provisioning, the loop and commands interleave.  No request
\* publishes and subscribes one group (Separate), no direct call for the
\* multicast service overtakes an update of its groups (apart), and the update
\* itself is over (manager.go provisionLocked, Remove, Reprovision; services/*.go
\* Setup, Teardown; multicast.go UpdateGroups).
THEOREM ReconcilerKernelMatchesServices == Spec => []KernelMatchesServices
<1>1. RInv => KernelMatchesServices
  BY StandsIntact, Zenon DEF RInv, KernelMatchesServices, Healthy
<1> QED
  BY <1>1, ReconcilerInvariant, PTL

\* The reconciler never waits for ever for one of its own senders, and neither
\* does a caller for the lock, unless a call failed, the daemon restarted, or the
\* multicast service was removed while its groups were being updated; without
\* multicast requests it never does (multicast.go Teardown; manager.go:583).
THEOREM ReconcilerLoopAlive == Spec => []LoopAlive
<1>1. RInv => LoopAlive
  BY Zenon DEF RInv, Healthy, LoopAlive
<1> QED
  BY <1>1, ReconcilerInvariant, PTL

\* Where commands are given one at a time, for any number of callers: once
\* nothing is under way the daemon is enabled exactly when its state file says so
\* (http.go ServeEnable, ServeDisable; manager.go SetEnabled, which drains the
\* channel before it sends).
THEOREM ReconcilerLastCommandWins == Spec => []LastCommandWins
<1>1. RInv => LastCommandWins
  BY Zenon DEF RInv, CtlInv, LastCommandWins
<1> QED
  BY <1>1, ReconcilerInvariant, PTL
=============================================================================
