----------------------------- MODULE Reconciler -----------------------------
(***************************************************************************)
(* The NetlinkManager of doublezerod: the reconciler loop that polls the    *)
(* ledger and converges the tunnel services to it, the enable and disable   *)
(* commands with their state file and channel, the caching fetcher, the     *)
(* provision and remove handlers that take the same lock, and the daemon's  *)
(* shutdown, crash and restart.                                             *)
(***************************************************************************)
EXTENDS Services

CONSTANTS Client,     \* callers of the enable and disable endpoints
          NoData,     \* the fetcher has no cached program data
          Mode        \* the environments to explore, see ModeType

VARIABLES chain,      \* what the ledger says: the activated users' requests
          cached,     \* CachingFetcher.cached
          file,       \* state.json: reconciler_enabled
          enabled,    \* NetlinkManager.enabled
          enableCh,   \* the enable channel, of capacity one
          ctl,        \* the enable/disable calls in progress
          slot,       \* UnicastService and MulticastService: their requests
          sys,        \* the kernel, BGP peers and senders, see Services
          loop,       \* where the reconciler goroutine is, and its data
          lock,       \* "free", or "stuck": n.mu held by a blocked goroutine
          left,       \* how many more environment events may happen
          faults,     \* how many more calls may fail
          mode        \* the environment this behaviour runs in

vars == <<chain, cached, file, enabled, enableCh, ctl, slot, sys, loop, lock,
          left, faults, mode>>

\* uni, multi: the requests users may ask for; left: bounds on ledger changes,
\* commands, direct provision and remove calls, restarts; faults: a bound on
\* failing calls; patient: a command is given only while the loop is idle and
\* no command is pending; apart: no direct call for the multicast service is
\* made while its groups are being updated.
ModeType == [uni : SUBSET Req, multi : SUBSET Req, patient : BOOLEAN,
             apart : BOOLEAN,
             left : [{"chain", "cmd", "http", "crash"} -> Nat], faults : Nat]

ASSUME ReconcilerAssumption ==
    /\ NoReq \notin Req /\ NoEp \notin Endpoint
    /\ NoData \notin [Svc -> Req \cup {NoReq}]
    /\ Mode \subseteq ModeType
    /\ \A m \in Mode : /\ \A r \in m.uni : r.kind # "multicast"
                       /\ \A r \in m.multi : r.kind = "multicast"

Nothing == [s \in Svc |-> NoReq]

Wishes(s) ==
    {NoReq} \cup (IF s = "unicast" THEN mode.uni ELSE mode.multi)

Quiet == [pc |-> "idle", view |-> Nothing, old |-> NoReq]

TypeOK ==
    /\ mode \in Mode
    /\ chain \in [Svc -> Req \cup {NoReq}]
    /\ cached = NoData \/ cached \in [Svc -> Req \cup {NoReq}]
    /\ file \in BOOLEAN /\ enabled \in BOOLEAN
    /\ enableCh \in {<<>>, <<TRUE>>, <<FALSE>>}
    /\ ctl \in [Client -> [pc : {"idle", "check", "drain", "send"},
                           want : BOOLEAN]]
    /\ slot \in [Svc -> Req \cup {NoReq}]
    /\ sys \in SysType
    /\ loop \in [pc : {"idle", "unicast", "multicast", "pim", "fallback",
                       "hung"},
                 view : [Svc -> Req \cup {NoReq}], old : Req \cup {NoReq}]
    /\ lock \in {"free", "stuck"}
    /\ left \in [DOMAIN mode.left -> Nat] /\ faults \in Nat

-----------------------------------------------------------------------------
(* LoadOrMigrateState and NewNetlinkManager: the daemon starts from its state *)
(* file, with no service; a reconcile at start is the first poll.             *)

Init ==
    /\ mode \in Mode
    /\ left = mode.left /\ faults = mode.faults
    /\ chain = Nothing
    /\ cached = NoData
    /\ file \in BOOLEAN
    /\ enabled = file
    /\ enableCh = <<>>
    /\ ctl = [c \in Client |-> [pc |-> "idle", want |-> FALSE]]
    /\ slot = Nothing
    /\ sys = EmptySys
    /\ loop = Quiet
    /\ lock = "free"

Spend(what) == left[what] > 0 /\ left' = [left EXCEPT ![what] = @ - 1]

\* A user is created, deleted or changed on the ledger.
ChangeChain ==
    /\ Spend("chain")
    /\ \E s \in Svc : \E r \in Wishes(s) \ {chain[s]} :
         chain' = [chain EXCEPT ![s] = r]
    /\ UNCHANGED <<cached, file, enabled, enableCh, ctl, slot, sys, loop, lock,
                   faults, mode>>

-----------------------------------------------------------------------------
(* ServeEnable and ServeDisable: write the state file, then SetEnabled.       *)

Command(c, want) ==
    /\ Spend("cmd")
    /\ ctl[c].pc = "idle"
    /\ mode.patient => /\ loop.pc = "idle" /\ enableCh = <<>>
                       /\ \A d \in Client : ctl[d].pc = "idle"
    /\ file' = want
    /\ ctl' = [ctl EXCEPT ![c] = [pc |-> "check", want |-> want]]
    /\ UNCHANGED <<chain, cached, enabled, enableCh, slot, sys, loop, lock,
                   faults, mode>>

CheckEnabledAgainstFile(c) ==
    /\ ctl[c].pc = "check"
    /\ ctl' = [ctl EXCEPT ![c].pc = IF file = ctl[c].want THEN "idle"
                                                          ELSE "drain"]
    /\ UNCHANGED <<chain, cached, file, enabled, enableCh, slot, sys, loop,
                   lock, left, faults, mode>>

CheckEnabled(c) ==
    /\ ctl[c].pc = "check"
    /\ ctl' = [ctl EXCEPT ![c].pc =
                   IF enabled = ctl[c].want THEN "idle" ELSE "drain"]
    /\ UNCHANGED <<chain, cached, file, enabled, enableCh, slot, sys, loop,
                   lock, left, faults, mode>>

Drain(c) ==
    /\ ctl[c].pc = "drain"
    /\ enableCh' = <<>>
    /\ ctl' = [ctl EXCEPT ![c].pc = "send"]
    /\ UNCHANGED <<chain, cached, file, enabled, slot, sys, loop, lock, left,
                   faults, mode>>

Send(c) ==
    /\ ctl[c].pc = "send"
    /\ enableCh = <<>>
    /\ enableCh' = <<ctl[c].want>>
    /\ ctl' = [ctl EXCEPT ![c].pc = "idle"]
    /\ UNCHANGED <<chain, cached, file, enabled, slot, sys, loop, lock, left,
                   faults, mode>>

SetEnabled == \E c \in Client : CheckEnabled(c) \/ Drain(c) \/ Send(c)

-----------------------------------------------------------------------------
(* Provisioning.  Remove, Provision and Reprovision hold n.mu throughout, so  *)
(* each is one step: the service in the slot, if any, is torn down, and the   *)
(* wanted one, if any, set up.  The slot is given up when its teardown ends    *)
(* well, and taken when the setup does.                                       *)

Results(s, want) ==
    LET removed == IF slot[s] = NoReq THEN {Ok(sys)}
                                      ELSE Teardown(sys, slot[s])
        kept(o) == [out |-> o, slot |-> IF o.end = "ok" THEN NoReq ELSE slot[s]]
        set(o)  == [out |-> o, slot |-> IF o.end = "ok" THEN want ELSE NoReq]
    IN  IF want = NoReq THEN {kept(o) : o \in removed}
        ELSE {kept(o) : o \in {x \in removed : x.end # "ok"}}
               \cup {set(o) : o \in Then({x \in removed : x.end = "ok"},
                                        LAMBDA t : Setup(t, want))}

\* An operation ends with outcome o.  The number of operations that meet a
\* fault is bounded.
Ends(o) ==
    /\ o.harm => faults > 0
    /\ faults' = IF o.harm THEN faults - 1 ELSE faults
    /\ sys' = o.sys

\* A blocked goroutine keeps n.mu, and every later caller waits behind it.
Locked(s, want) ==
    /\ lock = "free"
    /\ \E x \in Results(s, want) :
         /\ Ends(x.out)
         /\ slot' = [slot EXCEPT ![s] = x.slot]
         /\ lock' = IF x.out.end = "hang" THEN "stuck" ELSE "free"

\* ServeProvision, which fails on a slot that is taken, and ServeRemove.
Serve(s, want) ==
    /\ Spend("http")
    /\ mode.apart /\ loop.pc = "pim" => s = "unicast"
    /\ want # slot[s] /\ (want = NoReq \/ slot[s] = NoReq)
    /\ Locked(s, want)
    /\ UNCHANGED <<chain, cached, file, enabled, enableCh, ctl, loop, mode>>

-----------------------------------------------------------------------------
(* StartReconciler.                                                          *)

FetchSticky ==
    /\ cached' = IF cached = NoData THEN chain ELSE cached
    /\ loop' = [Quiet EXCEPT !.pc = "unicast", !.view = cached']

\* GetProgramData, called by reconcile: fresh data, the cached data while they
\* are young or the RPC fails, or an error that ends this round.
Fetch ==
    \/ /\ cached' = chain
       /\ loop' = [Quiet EXCEPT !.pc = "unicast", !.view = chain]
    \/ /\ cached # NoData
       /\ loop' = [Quiet EXCEPT !.pc = "unicast", !.view = cached]
       /\ UNCHANGED cached
    \/ /\ cached = NoData
       /\ UNCHANGED <<cached, loop>>

Poll ==
    /\ loop.pc = "idle"
    /\ enabled
    /\ Fetch
    /\ UNCHANGED <<chain, file, enabled, enableCh, ctl, slot, sys, lock, left,
                   faults, mode>>

\* An enable reconciles at once; a disable removes what services there are,
\* which is a round that wants none.
TakeEnable ==
    /\ loop.pc = "idle"
    /\ enableCh # <<>>
    /\ enabled' = Head(enableCh)
    /\ enableCh' = <<>>
    /\ IF enabled' THEN Fetch
       ELSE /\ loop' = [Quiet EXCEPT !.pc = "unicast"]
            /\ UNCHANGED cached
    /\ UNCHANGED <<chain, file, ctl, slot, sys, lock, left, faults, mode>>

After(s) ==
    IF s = "unicast" THEN [loop EXCEPT !.pc = "multicast", !.old = NoReq]
                     ELSE Quiet

\* InfraEqual, for a service that implements GroupUpdater.
GroupsOnly(s) ==
    /\ s = "multicast" /\ slot[s] # NoReq /\ loop.view[s] # NoReq
    /\ slot[s].ep = loop.view[s].ep

\* reconcileService, when there is nothing to do or a whole service to remove,
\* provision or reprovision, or when buildProvisionRequest fails (the route to
\* the device is not known yet) and the service is left as it is.
ReconcileService(s) ==
    /\ loop.pc = s
    /\ \/ /\ loop.view[s] = slot[s]
          /\ lock = "free"
          /\ loop' = After(s)
          /\ UNCHANGED <<slot, sys, lock, faults>>
       \/ /\ loop.view[s] # NoReq
          /\ lock = "free"
          /\ Ends(Fault(sys))
          /\ loop' = After(s)
          /\ UNCHANGED <<slot, lock>>
       \/ /\ loop.view[s] # slot[s]
          /\ ~GroupsOnly(s)
          /\ Locked(s, loop.view[s])
          /\ loop' = IF lock' = "free" THEN After(s)
                     ELSE [loop EXCEPT !.pc = "hung"]
    /\ UNCHANGED <<chain, cached, file, enabled, enableCh, ctl, left, mode>>

\* reconcileService, incremental update: UpdateGroups runs without n.mu.
UpdateGroups ==
    /\ loop.pc = "multicast"
    /\ lock = "free"
    /\ GroupsOnly("multicast")
    /\ loop.view["multicast"] # slot["multicast"]
    /\ \E o \in UpdateRoutes(sys, slot["multicast"], loop.view["multicast"]) :
         /\ Ends(o)
         /\ loop' = [loop EXCEPT !.pc = IF o.end = "ok" THEN "pim"
                                                        ELSE "fallback",
                                 !.old = slot["multicast"]]
    /\ UNCHANGED <<chain, cached, file, enabled, enableCh, ctl, slot, lock,
                   left, mode>>

\* The rest of UpdateGroups.  The service it updates may have been removed
\* from its slot meanwhile.
UpdateGroupsPim ==
    /\ loop.pc = "pim"
    /\ \E o \in UpdatePim(sys, loop.old, loop.view["multicast"]) :
         /\ Ends(o)
         /\ loop' = IF o.end = "ok" THEN Quiet
                    ELSE [loop EXCEPT !.pc = IF o.end = "hang" THEN "hung"
                                                               ELSE "fallback"]
         /\ slot' = IF o.end = "ok" /\ slot["multicast"] = loop.old
                    THEN [slot EXCEPT !["multicast"] = loop.view["multicast"]]
                    ELSE slot
    /\ UNCHANGED <<chain, cached, file, enabled, enableCh, ctl, lock, left,
                   mode>>

\* The full reprovision that a failed incremental update falls back to.
Fallback ==
    /\ loop.pc = "fallback"
    /\ Locked("multicast", loop.view["multicast"])
    /\ loop' = IF lock' = "free" THEN Quiet ELSE [loop EXCEPT !.pc = "hung"]
    /\ UNCHANGED <<chain, cached, file, enabled, enableCh, ctl, left, mode>>

Round ==
    (\E s \in Svc : ReconcileService(s)) \/ UpdateGroups \/ UpdateGroupsPim
      \/ Fallback

-----------------------------------------------------------------------------
(* The end of the process, and its restart.                                  *)

Forget(t) ==
    [t EXCEPT !.peers = {}, !.worker = [w \in Worker |-> IdleWorker],
              !.rules = IF @ = "owned" THEN "leaked" ELSE @]

Restart ==
    /\ Spend("crash")
    /\ enabled' = file
    /\ enableCh' = <<>>
    /\ cached' = NoData
    /\ ctl' = [c \in Client |-> [pc |-> "idle", want |-> FALSE]]
    /\ slot' = Nothing
    /\ loop' = Quiet
    /\ lock' = "free"
    /\ UNCHANGED <<chain, file, mode>>

Crash == Restart /\ sys' = Forget(sys) /\ UNCHANGED faults

\* NetlinkManager.Close on the way out: both teardowns are tried.
Shutdown ==
    /\ Restart
    /\ lock = "free"
    /\ LET torn(t, s) == IF slot[s] = NoReq THEN {Ok(t)} ELSE Teardown(t, slot[s])
       IN  \E o \in Despite(torn(sys, "unicast"),
                            LAMBDA t : torn(t, "multicast")) :
             /\ o.end # "hang"
             /\ Ends([o EXCEPT !.sys = Forget(@)])

-----------------------------------------------------------------------------
Next ==
    \/ ChangeChain
    \/ \E c \in Client, want \in BOOLEAN : Command(c, want)
    \/ SetEnabled
    \/ \E s \in Svc : \E want \in Wishes(s) : Serve(s, want)
    \/ Poll \/ TakeEnable \/ Round
    \/ Crash \/ Shutdown

\* The goroutines run.  The cache expires and the RPC succeeds again and
\* again, so a poll is fresh infinitely often; select is fair to the channel.
Fairness ==
    /\ WF_vars(Round)
    /\ SF_vars(Poll /\ cached' = chain)
    /\ SF_vars(TakeEnable)
    /\ \A c \in Client : WF_vars(CheckEnabled(c) \/ Drain(c) \/ Send(c))

Spec == Init /\ [][Next]_vars /\ Fairness

-----------------------------------------------------------------------------
(* Correctness.                                                              *)

RouteFor(r, g) ==
    IF g \in r.pub THEN "src" ELSE IF g \in r.sub THEN "plain" ELSE "none"

Sends(w, gs) ==
    IF gs = {} THEN ~Running(sys.worker[w])
    ELSE /\ sys.worker[w].cur = "live" /\ sys.worker[w].old = 0
         /\ sys.worker[w].groups = gs

\* Everything Setup makes for request r is there, as Setup makes it.
Intact(s, r) ==
    /\ sys.tun[s] = [ep |-> r.ep, up |-> TRUE]
    /\ <<s, r.ep>> \in sys.peers
    /\ r.kind = "edge" => sys.rules = "owned"
    /\ s = "multicast" =>
         /\ \A g \in Group : sys.routes[g] = RouteFor(r, g)
         /\ Sends("heartbeat", r.pub) /\ Sends("register", r.pub)
         /\ Sends("pim", r.sub)

Absent(s) ==
    /\ sys.tun[s] = NoTunnel
    /\ \A e \in Endpoint : <<s, e>> \notin sys.peers
    /\ s = "unicast" => sys.rules = "none"
    /\ s = "multicast" =>
         /\ \A g \in Group : sys.routes[g] = "none"
         /\ \A w \in Worker : ~Running(sys.worker[w])

\* No call has failed, and the daemon has not been restarted, so far.
Unharmed == faults = mode.faults /\ left["crash"] = mode.left["crash"]

\* No user publishes and subscribes the same group.
Separate == \A r \in mode.multi : r.pub \cap r.sub = {}

\* The state is well typed, and whatever sequence of users, group changes, role changes and commands led
\* here, between two operations of the manager the kernel, the BGP server and
\* the senders hold exactly what the services in the slots set up, and nothing
\* of a service that was removed: an incremental UpdateGroups ends in the same
\* state as a teardown and a setup would, as long as no group is both published
\* and subscribed by one user, and no direct call for the service is made during
\* the update, which does not hold the manager's lock.
KernelMatchesServices ==
    /\ TypeOK
    /\ Unharmed /\ Separate /\ mode.apart /\ loop.pc # "pim" =>
         \A s \in Svc : IF slot[s] = NoReq THEN Absent(s) ELSE Intact(s, slot[s])

Blocked == loop.pc = "hung" \/ lock = "stuck"

\* The reconciler goroutine never blocks for ever in a service, and nobody
\* blocks while holding the manager's lock, as long as no call of a multicast
\* service has failed, and none was made during an update of its groups.
LoopAlive == (Unharmed /\ mode.apart) \/ mode.multi = {} => ~Blocked

\* Once the ledger and the commands settle, the provisioned services come to
\* be the activated users', and stay so: failed rounds are retried, stale data
\* is replaced, and a restart starts over.  A disabled daemon comes to have
\* none, unless a teardown failed or a caller provisioned one directly: only
\* the rounds of an enabled reconciler retry.
Converges ==
    <>[](IF Blocked THEN ~Unharmed ELSE IF enabled THEN slot = chain
         ELSE Unharmed /\ left["http"] = mode.left["http"] => slot = Nothing)

\* When no command is in progress or waiting, the reconciler is in the state
\* the state file records, which is that of the last command: a restart
\* changes nothing.  A command that is given before the loop has taken the one
\* before it may be lost.
LastCommandWins ==
    mode.patient /\ (\A c \in Client : ctl[c].pc = "idle") /\ enableCh = <<>> => enabled = file
=============================================================================
