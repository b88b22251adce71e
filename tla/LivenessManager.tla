--------------------------- MODULE LivenessManager ---------------------------
(***************************************************************************)
(* The bookkeeping of the liveness manager: which routes are desired,      *)
(* which it believes installed, which session watches which route, and     *)
(* what the kernel's table holds.  Session events start onSessionUp and    *)
(* onSessionDown as goroutines; each of them, RegisterRoute, WithdrawRoute *)
(* and AdminDownRoute is split at its critical sections and its calls to   *)
(* the kernel.  One caller registers and withdraws: the BGP session's      *)
(* goroutine.  What makes a session change state is in LivenessSession.    *)
(***************************************************************************)
EXTENDS Naturals, FiniteSets, Sequences

CONSTANTS
  Key,            \* route keys: interface, source, table, prefix, next hop
  Mode,           \* configurations and environments to consider
  MaxSess,        \* bound on the sessions ever created
  MaxCalls        \* bound on the callbacks under way

\* passiveMode, honorPassive: as in ManagerConfig; noUninstall: as in Route;
\* serial: a route's events wait for the callbacks of earlier ones;
\* mayFail: kernel calls may fail; mayAdmin: AdminDownRoute may be called;
\* routes: the routes that get registered.
ASSUME ManagerAssumption ==
  /\ IsFiniteSet(Key)
  /\ Mode \subseteq [passiveMode : BOOLEAN, honorPassive : BOOLEAN, noUninstall : BOOLEAN,
                     serial : BOOLEAN, mayFail : BOOLEAN, mayAdmin : BOOLEAN,
                     routes : SUBSET Key]
  /\ MaxSess \in Nat /\ MaxCalls \in Nat

VARIABLES
  mode,                 \* the configuration in force, fixed at the start
  desired, installed,   \* the keys in m.desired; those with m.installed[rk] true
  kernel,               \* the routes in the kernel's table
  table,                \* m.sessions: key -> index into sess, or 0
  sess,                 \* every session made so far
  calls,                \* slot -> callback under way
  caller                \* where RegisterRoute or WithdrawRoute is

vars == <<mode, desired, installed, kernel, table, sess, calls, caller>>

SState == {"AdminDown", "Down", "Init", "Up"}
Session == [key : Key, state : SState, alive : BOOLEAN, passive : BOOLEAN]

Idle == [pc |-> "idle"]
Callback == [pc : {"start", "add", "del", "clear"}, do : {"up", "down", "admin"},
             key : Key, s : 1 .. MaxSess]
CallerPc == [pc : {"mark", "want", "session", "forget", "kill", "delete"},
             key : Key, was : BOOLEAN]

TypeOK ==
  /\ mode \in Mode
  /\ desired \subseteq Key /\ installed \subseteq Key /\ kernel \subseteq Key
  /\ table \in [Key -> 0 .. Len(sess)]
  /\ sess \in Seq(Session) /\ Len(sess) <= MaxSess
  /\ calls \in [1 .. MaxCalls -> Callback \cup {Idle}]
  /\ caller \in CallerPc \cup {Idle}

Init ==
  /\ mode \in Mode
  /\ desired = {} /\ installed = {} /\ kernel = {}
  /\ table = [k \in Key |-> 0]
  /\ sess = <<>>
  /\ calls = [c \in 1 .. MaxCalls |-> Idle]
  /\ caller = Idle

Busy(k) ==
  \/ caller # Idle /\ caller.key = k
  \/ \E c \in DOMAIN calls : calls[c] # Idle /\ calls[c].key = k

MayStart(k) == mode.serial => ~Busy(k)

\* "go m.onSessionUp(sess)" and the like.
Spawn(do, s) ==
  \E c \in DOMAIN calls :
    /\ calls[c] = Idle
    /\ \A d \in 1 .. c - 1 : calls[d] # Idle
    /\ calls' = [calls EXCEPT ![c] = [pc |-> "start", do |-> do, key |-> sess[s].key, s |-> s]]

\* RouteAdd and RouteDelete, which may fail and then change nothing.
KernelOps(after) == {after} \cup IF mode.mayFail THEN {kernel} ELSE {}

-----------------------------------------------------------------------------
(* RegisterRoute *)

At(pc, k, was) == caller' = [pc |-> pc, key |-> k, was |-> was]

\* In PassiveMode the route goes to the kernel first, and nothing is recorded
\* when that fails.
Register(k) ==
  /\ caller = Idle
  /\ MayStart(k)
  /\ IF mode.passiveMode
     THEN \/ kernel' = kernel \cup {k} /\ At("mark", k, FALSE)
          \/ mode.mayFail /\ UNCHANGED <<kernel, caller>>
     ELSE At("want", k, FALSE) /\ UNCHANGED kernel
  /\ UNCHANGED <<mode, desired, installed, table, sess, calls>>

MarkInstalled ==
  /\ caller.pc = "mark"
  /\ installed' = installed \cup {caller.key}
  /\ caller' = [caller EXCEPT !.pc = "want"]
  /\ UNCHANGED <<mode, desired, kernel, table, sess, calls>>

Want ==
  /\ caller.pc = "want"
  /\ desired' = desired \cup {caller.key}
  /\ caller' = [caller EXCEPT !.pc = "session"]
  /\ UNCHANGED <<mode, installed, kernel, table, sess, calls>>

\* An existing session is reused, otherwise a fresh one starts in Down.
MakeSession ==
  LET k == caller.key IN
  /\ caller.pc = "session"
  /\ IF table[k] # 0 THEN UNCHANGED <<sess, table>>
     ELSE /\ Len(sess) < MaxSess
          /\ sess' = Append(sess, [key |-> k, state |-> "Down", alive |-> TRUE,
                                   passive |-> FALSE])
          /\ table' = [table EXCEPT ![k] = Len(sess) + 1]
  /\ caller' = Idle
  /\ UNCHANGED <<mode, desired, installed, kernel, calls>>

-----------------------------------------------------------------------------
(* WithdrawRoute *)

\* In PassiveMode a failed RouteDelete ends the call before anything else.
Withdraw(k) ==
  /\ caller = Idle
  /\ MayStart(k)
  /\ IF mode.passiveMode /\ ~mode.noUninstall
     THEN \/ k \in kernel /\ kernel' = kernel \ {k} /\ At("forget", k, FALSE)
          \/ (k \notin kernel \/ mode.mayFail) /\ UNCHANGED <<kernel, caller>>
     ELSE At("forget", k, FALSE) /\ UNCHANGED kernel
  /\ UNCHANGED <<mode, desired, installed, table, sess, calls>>

Forget ==
  LET k == caller.key IN
  /\ caller.pc = "forget"
  /\ desired' = desired \ {k}
  /\ installed' = installed \ {k}
  /\ At("kill", k, k \in installed)
  /\ UNCHANGED <<mode, kernel, table, sess, calls>>

\* Variant: the session stays in the table.
KillSessionKeepsEntry ==
  LET k == caller.key IN
  /\ caller.pc = "kill"
  /\ sess' = [s \in DOMAIN sess |->
                IF s = table[k] THEN [sess[s] EXCEPT !.alive = FALSE] ELSE sess[s]]
  /\ IF caller.was /\ ~mode.passiveMode /\ ~mode.noUninstall
     THEN At("delete", k, TRUE) ELSE caller' = Idle
  /\ UNCHANGED <<mode, desired, installed, kernel, table, calls>>

KillSession ==
  LET k == caller.key IN
  /\ caller.pc = "kill"
  /\ sess' = [s \in DOMAIN sess |->
                IF s = table[k] THEN [sess[s] EXCEPT !.alive = FALSE] ELSE sess[s]]
  /\ table' = [table EXCEPT ![k] = 0]
  /\ IF caller.was /\ ~mode.passiveMode /\ ~mode.noUninstall
     THEN At("delete", k, TRUE) ELSE caller' = Idle
  /\ UNCHANGED <<mode, desired, installed, kernel, calls>>

DeleteWithdrawn ==
  /\ caller.pc = "delete"
  /\ kernel' \in KernelOps(kernel \ {caller.key})
  /\ caller' = Idle
  /\ UNCHANGED <<mode, desired, installed, table, sess, calls>>

-----------------------------------------------------------------------------
(* Session events *)

Managed(s) == sess[s].alive /\ table[sess[s].key] = s

\* manager.HandleRx: the state machine takes the session from one state to
\* another and learns the peer's mode; a change to Up or Down starts the
\* callback.  Both happen while m.mu is held.
Rx(s, to, passive) ==
  LET from == sess[s].state IN
  /\ Managed(s)
  /\ MayStart(sess[s].key)
  /\ <<from, to>> \in {<<"Down", "Down">>, <<"Down", "Init">>, <<"Down", "Up">>,
                        <<"Init", "Init">>, <<"Init", "Up">>, <<"Init", "Down">>,
                        <<"Up", "Up">>, <<"Up", "Down">>}
  /\ sess' = [sess EXCEPT ![s].state = to, ![s].passive = passive]
  /\ CASE from # to /\ to = "Up" -> Spawn("up", s)
       [] from # to /\ to = "Down" -> Spawn("down", s)
       [] OTHER -> UNCHANGED calls
  /\ UNCHANGED <<mode, desired, installed, kernel, table, caller>>

\* Scheduler.tryExpire, which does not hold m.mu.
Timeout(s) ==
  /\ sess[s].alive
  /\ sess[s].state \in {"Init", "Up"}
  /\ MayStart(sess[s].key)
  /\ sess' = [sess EXCEPT ![s].state = "Down"]
  /\ Spawn("down", s)
  /\ UNCHANGED <<mode, desired, installed, kernel, table, caller>>

\* AdminDownRoute up to its call of onSessionDown.
AdminDownRoute(k) ==
  LET s == table[k] IN
  /\ mode.mayAdmin
  /\ s # 0
  /\ sess[s].state # "AdminDown"
  /\ MayStart(k)
  /\ sess' = [sess EXCEPT ![s].state = "AdminDown"]
  /\ Spawn("admin", s)
  /\ UNCHANGED <<mode, desired, installed, kernel, table, caller>>

-----------------------------------------------------------------------------
(* The callbacks *)

Goto(c, pc) ==
  calls' = [calls EXCEPT ![c] = IF pc = "idle" THEN Idle ELSE [@ EXCEPT !.pc = pc]]

\* Variant: the route is not looked up in desired.
ClaimUpUndesired(c) ==
  LET k == calls[c].key IN
  /\ calls[c].pc = "start" /\ calls[c].do = "up"
  /\ IF k \in installed \/ mode.passiveMode
     THEN Goto(c, "idle") /\ UNCHANGED installed
     ELSE Goto(c, "add") /\ installed' = installed \cup {k}
  /\ UNCHANGED <<mode, desired, kernel, table, sess, caller>>

\* onSessionUp: claim the installation under m.mu, then call the kernel.
ClaimUp(c) ==
  LET k == calls[c].key IN
  /\ calls[c].pc = "start" /\ calls[c].do = "up"
  /\ IF k \notin desired \/ k \in installed \/ mode.passiveMode
     THEN Goto(c, "idle") /\ UNCHANGED installed
     ELSE Goto(c, "add") /\ installed' = installed \cup {k}
  /\ UNCHANGED <<mode, desired, kernel, table, sess, caller>>

Add(c) ==
  /\ calls[c].pc = "add"
  /\ kernel' \in KernelOps(kernel \cup {calls[c].key})
  /\ Goto(c, "idle")
  /\ UNCHANGED <<mode, desired, installed, table, sess, caller>>

\* What follows onSessionDown: nothing for a goroutine, the last critical
\* section of AdminDownRoute for an administrative one.
After(c) == IF calls[c].do = "admin" THEN "clear" ELSE "idle"

\* Variants: the kernel is not told; PassiveMode is not looked at.
ClaimDownForgets(c) ==
  /\ calls[c].pc = "start" /\ calls[c].do \in {"down", "admin"}
  /\ installed' = installed \ {calls[c].key}
  /\ Goto(c, After(c))
  /\ UNCHANGED <<mode, desired, kernel, table, sess, caller>>
ClaimDownIgnoresPassive(c) ==
  LET k == calls[c].key IN
  /\ calls[c].pc = "start" /\ calls[c].do \in {"down", "admin"}
  /\ installed' = installed \ {k}
  /\ Goto(c, IF k \in installed /\ k \in desired THEN "del" ELSE After(c))
  /\ UNCHANGED <<mode, desired, kernel, table, sess, caller>>

\* onSessionDown: give up the installation under m.mu, unless this side or
\* the peer is passive, then call the kernel.
ClaimDown(c) ==
  LET k == calls[c].key
      keep == mode.passiveMode \/ (mode.honorPassive /\ sess[calls[c].s].passive) IN
  /\ calls[c].pc = "start" /\ calls[c].do \in {"down", "admin"}
  /\ installed' = IF keep THEN installed ELSE installed \ {k}
  /\ Goto(c, IF k \in installed /\ k \in desired /\ ~keep /\ ~mode.noUninstall
             THEN "del" ELSE After(c))
  /\ UNCHANGED <<mode, desired, kernel, table, sess, caller>>

Delete(c) ==
  /\ calls[c].pc = "del"
  /\ kernel' \in KernelOps(kernel \ {calls[c].key})
  /\ Goto(c, After(c))
  /\ UNCHANGED <<mode, desired, installed, table, sess, caller>>

ClearInstalled(c) ==
  /\ calls[c].pc = "clear"
  /\ installed' = installed \ {calls[c].key}
  /\ Goto(c, "idle")
  /\ UNCHANGED <<mode, desired, kernel, table, sess, caller>>

-----------------------------------------------------------------------------

Next ==
  \/ \E k \in mode.routes : Register(k) \/ Withdraw(k) \/ AdminDownRoute(k)
  \/ MarkInstalled \/ Want \/ MakeSession
  \/ Forget \/ KillSession \/ DeleteWithdrawn
  \/ \E s \in DOMAIN sess :
       \/ \E to \in SState, passive \in {FALSE, mode.honorPassive} : Rx(s, to, passive)
       \/ Timeout(s)
  \/ \E c \in DOMAIN calls :
       ClaimUp(c) \/ Add(c) \/ ClaimDown(c) \/ Delete(c) \/ ClearInstalled(c)

Spec == Init /\ [][Next]_vars

-----------------------------------------------------------------------------

\* What the manager believes installed is desired: a callback of a session
\* that was withdrawn meanwhile cannot mark its route installed again
\* (manager.go onSessionUp tests desired in the section that sets installed).
InstalledIsDesired == ~mode.passiveMode => installed \subseteq desired

\* Outside RegisterRoute and WithdrawRoute exactly the desired routes have a
\* session that watches them, and that session is the managed one.
DesiredIsMonitored ==
  \A k \in Key :
    (caller = Idle \/ caller.key # k) =>
      /\ k \in desired <=> table[k] # 0
      /\ table[k] # 0 => sess[table[k]].alive /\ sess[table[k]].key = k

Watched(k) == sess[table[k]]

\* When nothing is under way for a route the kernel holds it exactly while
\* its session is Up; a route that is not desired is not in the kernel; and
\* installed says what the kernel holds (rfc7 "Routing Integration").
KernelFollowsSession ==
  \A k \in Key : ~Busy(k) =>
    /\ k \in desired => (k \in kernel <=> Watched(k).state = "Up")
    /\ k \notin desired => k \notin kernel
    /\ k \in kernel <=> k \in installed

\* The callbacks of a route do not overlap, the kernel does not fail, and no
\* configuration keeps a route in the kernel while its session is down.
Undisturbed ==
  /\ mode.serial /\ ~mode.mayFail
  /\ ~mode.passiveMode /\ ~mode.honorPassive /\ ~mode.noUninstall

\* The same where nothing disturbs the callbacks (manager.go RegisterRoute,
\* WithdrawRoute, AdminDownRoute, onSessionUp, onSessionDown).
SerialKernelFollowsSession == Undisturbed => KernelFollowsSession

\* In PassiveMode the kernel holds a route exactly while it is desired (unless
\* the route is exempt from uninstallation),
\* whatever its session does and whenever its callbacks run, also when calls
\* to the kernel fail (manager.go RegisterRoute, WithdrawRoute).
KernelFollowsDesired ==
  mode.passiveMode /\ ~mode.noUninstall =>
    \A k \in Key : ~Busy(k) => (k \in kernel <=> k \in desired)
=============================================================================
