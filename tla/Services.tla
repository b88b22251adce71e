------------------------------ MODULE Services ------------------------------
(***************************************************************************)
(* The tunnel services of doublezerod: what Setup, Teardown and            *)
(* UpdateGroups of IBRLService, EdgeFilteringService and MulticastService   *)
(* do to the kernel, to the BGP server and to the three background senders  *)
(* (heartbeat, PIM register, PIM join).                                     *)
(*                                                                         *)
(* A service operation is a sequence of calls, each of which may fail and   *)
(* end it half way, or block for ever on a channel.  It is modelled by the  *)
(* set of its outcomes: the system state it leaves and how it ended.        *)
(***************************************************************************)
EXTENDS Naturals, Sequences, FiniteSets

CONSTANTS Endpoint,   \* tunnel endpoints; one stands for src, dst and net
          Group,      \* multicast groups
          NoEp,       \* no tunnel interface
          NoReq       \* no provision request: no user, or no service

Svc == {"unicast", "multicast"}
Worker == {"heartbeat", "register", "pim"}

\* A ProvisionRequest, abstracted to what the services tell apart.
Req == [kind : {"ibrl", "edge", "multicast"}, ep : Endpoint,
        pub : SUBSET Group, sub : SUBSET Group]

\* tun: the GRE interfaces doublezero0 and doublezero1; routes: the static
\* multicast routes, with or without a source address; rules: the IP rules
\* and default table of edge filtering, known to a service or left behind by
\* one; peers: the BGP peers, one overlay
\* address per service and endpoint; worker: for each sender, whether the
\* goroutine its wait group counts is running ("live"), gone ("dead") or was
\* never started or has been reset ("none"), how many goroutines of earlier
\* Starts still run, and the groups it sends for.
SysType ==
    [tun    : [Svc -> [ep : Endpoint \cup {NoEp}, up : BOOLEAN]],
     routes : [Group -> {"none", "src", "plain"}],
     rules  : {"none", "owned", "leaked"},
     peers  : SUBSET (Svc \X Endpoint),
     worker : [Worker -> [cur : {"none", "live", "dead"}, old : Nat,
                          groups : SUBSET Group]]]

NoTunnel == [ep |-> NoEp, up |-> FALSE]
IdleWorker == [cur |-> "none", old |-> 0, groups |-> {}]

EmptySys ==
    [tun |-> [s \in Svc |-> NoTunnel], routes |-> [g \in Group |-> "none"],
     rules |-> "none", peers |-> {}, worker |-> [w \in Worker |-> IdleWorker]]

-----------------------------------------------------------------------------
(* Outcomes.  harm: some call of the operation failed that the kernel or the *)
(* network could have served; an Error without harm is certain from the state.*)

Ok(s)    == [sys |-> s, end |-> "ok", harm |-> FALSE]
Error(s) == [sys |-> s, end |-> "error", harm |-> FALSE]
Fault(s) == [sys |-> s, end |-> "error", harm |-> TRUE]
Lapse(s) == [sys |-> s, end |-> "ok", harm |-> TRUE]    \* the error is lost
Hang(s)  == [sys |-> s, end |-> "hang", harm |-> FALSE]

Then(outs, Step(_)) ==
    UNION {IF o.end # "ok" THEN {o}
           ELSE {[p EXCEPT !.harm = @ \/ o.harm] : p \in Step(o.sys)} :
               o \in outs}

\* The call's error is remembered, and returned after the calls that follow.
Despite(outs, Step(_)) ==
    UNION {IF o.end = "hang" THEN {o}
           ELSE {[p EXCEPT !.harm = @ \/ o.harm,
                           !.end = IF @ = "ok" THEN o.end ELSE @] :
                     p \in Step(o.sys)} : o \in outs}

-----------------------------------------------------------------------------
(* Kernel calls.                                                             *)

\* createBaseTunnel and createTunnelWithIP: an interface of that name that is
\* already there is kept as it is, whatever its endpoints.
CreateTunnel(s, svc, ep) ==
    LET made == [s EXCEPT !.tun[svc].ep = IF @ = NoEp THEN ep ELSE @]
        up   == [made EXCEPT !.tun[svc].up = TRUE]
    IN  {Ok(up), Fault(s), Fault(made), Fault(up)}

WithoutRoutes(s, svc) ==
    IF svc = "multicast" THEN [s EXCEPT !.routes = [g \in Group |-> "none"]]
                         ELSE s

\* TunnelDown, whose error is only logged, then TunnelDelete.  The kernel
\* drops the routes of an interface that goes down.
RemoveTunnel(s, svc) ==
    LET down == WithoutRoutes([s EXCEPT !.tun[svc].up = FALSE], svc)
        gone == [down EXCEPT !.tun[svc] = NoTunnel]
    IN  IF s.tun[svc].ep = NoEp THEN {Error(s)}
        ELSE {Ok(gone), Fault(s), Fault(down)}

SetRoutes(s, gs, kind) ==
    [s EXCEPT !.routes = [g \in Group |-> IF g \in gs THEN kind ELSE @[g]]]

\* RouteAdd replaces, so it succeeds whether or not the group has a route.
AddRoutes(s, gs, kind) ==
    {Ok(SetRoutes(s, gs, kind))}
      \cup {Fault(SetRoutes(s, done, kind)) : done \in SUBSET gs \ {gs}}

\* RouteDelete fails on a route that is not there; one with a source address
\* matches only routes that have it.
DeleteRoutes(s, gs, kinds) ==
    LET there == {g \in gs : s.routes[g] \in kinds}
        part  == {SetRoutes(s, done, "none") : done \in SUBSET there}
    IN  IF there = gs
        THEN {Ok(SetRoutes(s, gs, "none"))}
               \cup {Fault(t) : t \in part \ {SetRoutes(s, gs, "none")}}
        ELSE {Error(t) : t \in part}

-----------------------------------------------------------------------------
(* BGP server and background senders.                                        *)

AddPeer(s, svc, ep) ==
    {Ok([s EXCEPT !.peers = @ \cup {<<svc, ep>>}]), Fault(s)}

DeletePeer(s, svc, ep) == {Ok([s EXCEPT !.peers = @ \ {<<svc, ep>>}])}

\* startWithConn makes a new wait group and goroutine without stopping an
\* earlier goroutine, which keeps waiting on the same done channel.
Started(s, w, gs) ==
    [s EXCEPT !.worker[w] =
        [cur |-> "live", groups |-> gs,
         old |-> @.old + (IF @.cur = "live" THEN 1 ELSE 0)]]

StartHeartbeat(s, gs) == {Ok(Started(s, "heartbeat", gs)), Fault(s)}

StartRegister(s, gs) == {Ok(Started(s, "register", gs)), Fault(s)}

\* The PIM server stores the groups before it can fail.
StartPim(s, gs) ==
    {Ok(Started(s, "pim", gs)), Fault(s),
     Fault([s EXCEPT !.worker["pim"].groups = gs])}

Running(v) == v.cur = "live" \/ v.old > 0

\* Close hands one token to whichever goroutine takes it, then waits for the
\* goroutine of the current wait group.
StopOne(s, w, stopped) ==
    LET v == s.worker[w]
        older == [s EXCEPT !.worker[w].old = @ - 1]
    IN  (IF v.cur = "live" THEN {Ok([s EXCEPT !.worker[w].cur = stopped])}
                           ELSE {})
          \cup (IF v.old = 0 THEN {}
                ELSE {IF v.cur = "live" THEN Hang(older) ELSE Ok(older)})

\* These two return at once when they have no wait group.
CloseHeartbeat(s) ==
    IF s.worker["heartbeat"].cur = "none" THEN {Ok(s)}
    ELSE StopOne(s, "heartbeat", "none")

CloseRegister(s) ==
    IF s.worker["register"].cur = "none" THEN {Ok(s)}
    ELSE StopOne(s, "register", "none")

\* The PIM server sends the token whether or not a goroutine is there.
ClosePim(s) ==
    IF Running(s.worker["pim"]) THEN StopOne(s, "pim", "dead") ELSE {Hang(s)}

\* The heartbeat and register senders swap the list under a mutex ...
UpdateHeartbeat(s, gs) == {Ok([s EXCEPT !.worker["heartbeat"].groups = gs])}

UpdateRegister(s, gs) == {Ok([s EXCEPT !.worker["register"].groups = gs])}

\* ... the PIM server hands it to its goroutine over an unbuffered channel.
UpdatePimGroups(s, gs) ==
    IF Running(s.worker["pim"])
    THEN {Ok([s EXCEPT !.worker["pim"].groups = gs])} ELSE {Hang(s)}

-----------------------------------------------------------------------------
(* The three services.                                                       *)

SetupIBRL(s, r) ==
    Then(CreateTunnel(s, "unicast", r.ep),
         LAMBDA t : AddPeer(t, "unicast", r.ep))

TeardownIBRL(s, r) ==
    Then(DeletePeer(s, "unicast", r.ep), LAMBDA t : RemoveTunnel(t, "unicast"))

\* Rules and routes the service does not come to own are left in the kernel.
CreateRules(s) ==
    LET ruled == [s EXCEPT !.rules = "leaked"]
    IN  {Ok(ruled), Fault(s), Fault(ruled)}

\* flushRules and flushStaticRoutes forget their lists even on an error, and
\* a later deletion that succeeds overwrites the error of an earlier one.
FlushRules(s) ==
    LET lost == [s EXCEPT !.rules = "leaked"]
    IN  IF s.rules # "owned" THEN {Ok(s)}
        ELSE {Ok([s EXCEPT !.rules = "none"]), Fault(lost), Lapse(lost)}

SetupEdgeFiltering(s, r) ==
    LET own(t) == {Ok([t EXCEPT !.rules = "owned"])}
    IN  Then(Then(Then(CreateTunnel(s, "unicast", r.ep), CreateRules),
                  LAMBDA t : AddPeer(t, "unicast", r.ep)), own)

TeardownEdgeFiltering(s, r) ==
    Despite(Despite(FlushRules(s), LAMBDA t : DeletePeer(t, "unicast", r.ep)),
            LAMBDA t : RemoveTunnel(t, "unicast"))

SetupMulticast(s, r) ==
    LET tunnel == CreateTunnel(s, "multicast", r.ep)
        publish(t) ==
            Then(Then(AddRoutes(t, r.pub, "src"),
                      LAMBDA u : StartHeartbeat(u, r.pub)),
                 LAMBDA u : StartRegister(u, r.pub))
        subscribe(t) ==
            Then(AddRoutes(t, r.sub \ r.pub, "plain"),
                 LAMBDA u : StartPim(u, r.sub))
        published == IF r.pub = {} THEN tunnel ELSE Then(tunnel, publish)
        subscribed == IF r.sub = {} THEN published
                      ELSE Then(published, subscribe)
    IN  IF r.pub = {} /\ r.sub = {} THEN {Error(s)}
        ELSE Then(subscribed, LAMBDA t : AddPeer(t, "multicast", r.ep))

TeardownMulticast(s, r) ==
    LET beats == IF r.pub = {} THEN {Ok(s)}
                 ELSE Then(CloseHeartbeat(s), CloseRegister)
        joins == IF r.sub = {} THEN beats ELSE Then(beats, ClosePim)
    IN  Then(Then(joins, LAMBDA t : DeletePeer(t, "multicast", r.ep)),
             LAMBDA t : RemoveTunnel(t, "multicast"))

Setup(s, r) ==
    CASE r.kind = "ibrl"      -> SetupIBRL(s, r)
      [] r.kind = "edge"      -> SetupEdgeFiltering(s, r)
      [] r.kind = "multicast" -> SetupMulticast(s, r)

Teardown(s, r) ==
    CASE r.kind = "ibrl"      -> TeardownIBRL(s, r)
      [] r.kind = "edge"      -> TeardownEdgeFiltering(s, r)
      [] r.kind = "multicast" -> TeardownMulticast(s, r)

UpdateRoutesUnskipped(s, old, new) ==
    IF (old.pub = {}) # (new.pub = {}) THEN {Error(s)}
    ELSE Then(Then(Then(Then(DeleteRoutes(s, old.pub \ new.pub, {"src"}),
                LAMBDA t : AddRoutes(t, new.pub \ old.pub, "src")),
                LAMBDA t : UpdateHeartbeat(t, new.pub)),
                LAMBDA t : DeleteRoutes(t, old.sub \ new.sub, {"src", "plain"})),
                LAMBDA t : AddRoutes(t, (new.sub \ old.sub) \ new.pub, "plain"))

\* UpdateGroups, first part: the role check, the routes and the publisher's
\* senders.  old is what the service holds, new what it is to become.
UpdateRoutes(s, old, new) ==
    LET pubRemoved == old.pub \ new.pub
        pubAdded   == new.pub \ old.pub
        subRemoved == (old.sub \ new.sub) \ new.pub
        subAdded   == (new.sub \ old.sub) \ new.pub
        pubs == Then(DeleteRoutes(s, pubRemoved, {"src"}),
                     LAMBDA t : AddRoutes(t, pubAdded, "src"))
        beats == IF old.pub = new.pub THEN pubs
                 ELSE Then(Then(pubs,
                        LAMBDA t : UpdateHeartbeat(t, new.pub)),
                        LAMBDA t : UpdateRegister(t, new.pub))
        dels == Then(beats,
                  LAMBDA t : DeleteRoutes(t, subRemoved, {"src", "plain"}))
    IN  IF (old.pub = {}) # (new.pub = {}) THEN {Error(s)}
        ELSE Then(dels, LAMBDA t : AddRoutes(t, subAdded, "plain"))

UpdatePimNeverStarts(s, old, new) ==
    IF new.sub = {}
    THEN IF old.sub = {} THEN {Ok(s)} ELSE ClosePim(s)
    ELSE IF old.sub = new.sub THEN {Ok(s)}
    ELSE UpdatePimGroups(s, new.sub)

\* UpdateGroups, second part: the PIM server, stopped, started or updated.
UpdatePim(s, old, new) ==
    IF new.sub = {}
    THEN IF old.sub = {} THEN {Ok(s)} ELSE ClosePim(s)
    ELSE IF old.sub = {} THEN StartPim(s, new.sub)
    ELSE IF old.sub = new.sub THEN {Ok(s)}
    ELSE UpdatePimGroups(s, new.sub)

=============================================================================
