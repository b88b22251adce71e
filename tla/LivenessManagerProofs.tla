----------------------- MODULE LivenessManagerProofs -----------------------
(***************************************************************************)
(* Proofs about LivenessManager, for every number of routes, sessions and  *)
(* callbacks under way, and every configuration.                           *)
(***************************************************************************)
EXTENDS LivenessManager, TLAPS

\* Which keys have a session, and that it is the right one.  Between the two
\* critical sections of RegisterRoute ("session") the route is desired and
\* may have no session yet; between those of WithdrawRoute ("kill") it has
\* one that is no longer desired.
Monitored ==
  /\ \A k \in Key :
       /\ table[k] # 0 => sess[table[k]].alive /\ sess[table[k]].key = k
       /\ ~(caller.pc \in {"session", "kill"} /\ caller.key = k)
            => (k \in desired <=> table[k] # 0)
  /\ caller.pc = "session" => caller.key \in desired
  /\ caller.pc = "kill" => caller.key \notin desired

Believed ==
  ~mode.passiveMode => installed \subseteq desired /\ caller.pc # "mark"

IInv == TypeOK /\ Monitored /\ Believed

\* Idle is no running call: its pc tells it apart.
LEMMA CallerShape ==
  ASSUME caller \in CallerPc \cup {Idle}
  PROVE  /\ caller.pc = "idle" <=> caller = Idle
         /\ caller # Idle => caller \in CallerPc /\ caller.key \in Key
BY DEF CallerPc, Idle

\* A step of RegisterRoute or WithdrawRoute for a route is a call under way.
LEMMA CallType ==
  \A pc \in {"mark", "want", "session", "forget", "kill", "delete"},
     k \in Key, was \in BOOLEAN :
    [pc |-> pc, key |-> k, was |-> was] \in CallerPc
BY DEF CallerPc

\* A session in the table is one of the sequence, a record with a key.
LEMMA SessionShape ==
  ASSUME TypeOK, NEW s \in DOMAIN sess
  PROVE  s \in 1 .. Len(sess) /\ s \in 1 .. MaxSess /\ sess[s] \in Session
<1>1. Len(sess) \in Nat /\ DOMAIN sess = 1 .. Len(sess) /\ Len(sess) <= MaxSess
  BY DEF TypeOK
<1>2. sess[s] \in Session
  BY <1>1 DEF TypeOK
<1> QED
  BY <1>1, <1>2, ManagerAssumption

\* Starting a callback for an existing session keeps the slots typed.
LEMMA SpawnType ==
  ASSUME TypeOK, NEW do \in {"up", "down", "admin"}, NEW s \in DOMAIN sess,
         Spawn(do, s)
  PROVE  calls' \in [1 .. MaxCalls -> Callback \cup {Idle}]
<1>1. s \in 1 .. MaxSess /\ sess[s].key \in Key
  BY SessionShape DEF Session
<1>2. [pc |-> "start", do |-> do, key |-> sess[s].key, s |-> s] \in Callback
  BY <1>1 DEF Callback
<1> QED
  BY <1>2 DEF Spawn, TypeOK

\* Moving a callback to its next critical section keeps them typed.
LEMMA GotoType ==
  ASSUME TypeOK, NEW c \in DOMAIN calls, NEW pc,
         pc \in {"idle", "add", "del", "clear"},
         calls[c].pc # "idle", Goto(c, pc)
  PROVE  /\ calls' \in [1 .. MaxCalls -> Callback \cup {Idle}]
         /\ calls[c].key \in Key
<1>1. calls[c] \in Callback
  BY DEF TypeOK, Idle
<1>2. pc # "idle" => [calls[c] EXCEPT !.pc = pc] \in Callback
  BY <1>1 DEF Callback
<1>3. calls[c].key \in Key
  BY <1>1 DEF Callback
<1> QED
  BY <1>2, <1>3 DEF Goto, TypeOK

\* A change of a session's state leaves its key, its life and the others
\* alone, so the invariant survives it (Rx, Timeout, AdminDownRoute).
LEMMA SessionChange ==
  ASSUME IInv, NEW s \in DOMAIN sess, NEW new \in Session,
         new.key = sess[s].key, new.alive = sess[s].alive,
         sess' = [sess EXCEPT ![s] = new],
         calls' \in [1 .. MaxCalls -> Callback \cup {Idle}],
         UNCHANGED <<mode, desired, installed, kernel, table, caller>>
  PROVE  IInv'
<1>1. /\ sess' \in Seq(Session) /\ Len(sess') = Len(sess)
      /\ \A i \in 1 .. Len(sess) :
           sess'[i].key = sess[i].key /\ sess'[i].alive = sess[i].alive
  BY DEF IInv, TypeOK
<1>2. \A k \in Key : table[k] # 0 => table[k] \in 1 .. Len(sess)
  BY DEF IInv, TypeOK
<1>3. TypeOK'
  BY <1>1 DEF IInv, TypeOK
<1>4. Monitored'
  BY <1>1, <1>2 DEF IInv, Monitored
<1>5. Believed'
  BY DEF IInv, Believed
<1> QED
  BY <1>3, <1>4, <1>5 DEF IInv

\* The callbacks change what is believed installed, the kernel and their own
\* slot; as long as they only add desired routes the invariant survives.
LEMMA CallbackStep ==
  ASSUME IInv, calls' \in [1 .. MaxCalls -> Callback \cup {Idle}],
         installed' \subseteq Key, kernel' \subseteq Key,
         ~mode.passiveMode => installed' \subseteq desired,
         UNCHANGED <<mode, desired, table, sess, caller>>
  PROVE  IInv'
<1>1. TypeOK'
  BY DEF IInv, TypeOK
<1>2. Monitored'
  BY DEF IInv, Monitored
<1>3. Believed'
  BY DEF IInv, Believed
<1> QED
  BY <1>1, <1>2, <1>3 DEF IInv

-----------------------------------------------------------------------------
(* RegisterRoute and WithdrawRoute *)

\* RegisterRoute keeps the invariant in each of its critical sections.
LEMMA RegisterStep ==
  ASSUME IInv,
         (\E k \in Key : Register(k)) \/ MarkInstalled \/ Want \/ MakeSession
  PROVE  IInv'
<1> USE CallerShape DEF IInv
<1>1. ASSUME NEW k \in Key, Register(k) PROVE IInv'
  <2>1. \/ caller' = Idle
        \/ mode.passiveMode /\ caller' = [pc |-> "mark", key |-> k, was |-> FALSE]
        \/ caller' = [pc |-> "want", key |-> k, was |-> FALSE]
    BY <1>1 DEF Register, At
  <2>2. TypeOK'
    <3>1. caller' \in CallerPc \cup {Idle}
      BY <1>1, <2>1, CallType
    <3>2. kernel' \subseteq Key
      BY <1>1 DEF Register, TypeOK
    <3> QED
      BY <1>1, <3>1, <3>2 DEF Register, TypeOK
  <2>3. Monitored'
    BY <1>1, <2>1 DEF Register, Monitored, Idle
  <2>4. Believed'
    BY <1>1, <2>1 DEF Register, Believed, Idle
  <2> QED
    BY <2>2, <2>3, <2>4
<1>2. CASE MarkInstalled
  <2>1. caller \in CallerPc /\ caller.key \in Key
    BY <1>2 DEF MarkInstalled, TypeOK, Idle
  <2>2. caller'.pc = "want" /\ caller'.key = caller.key /\ caller' \in CallerPc
    BY <1>2, <2>1 DEF MarkInstalled, CallerPc
  <2>3. TypeOK'
    BY <1>2, <2>1, <2>2 DEF MarkInstalled, TypeOK
  <2>4. Monitored'
    BY <1>2, <2>2 DEF MarkInstalled, Monitored
  <2>5. Believed'
    BY <1>2, <2>2 DEF MarkInstalled, Believed
  <2> QED
    BY <2>3, <2>4, <2>5
<1>3. CASE Want
  <2>1. caller \in CallerPc /\ caller.key \in Key
    BY <1>3 DEF Want, TypeOK, Idle
  <2>2. caller'.pc = "session" /\ caller'.key = caller.key /\ caller' \in CallerPc
    BY <1>3, <2>1 DEF Want, CallerPc
  <2>3. TypeOK'
    BY <1>3, <2>1, <2>2 DEF Want, TypeOK
  <2>4. Monitored'
    BY <1>3, <2>2 DEF Want, Monitored
  <2>5. Believed'
    BY <1>3, <2>2 DEF Want, Believed
  <2> QED
    BY <2>3, <2>4, <2>5
<1>4. CASE MakeSession /\ table[caller.key] # 0
  <2>1. caller' = Idle /\ UNCHANGED <<mode, desired, installed, kernel, table, sess, calls>>
    BY <1>4 DEF MakeSession
  <2>2. caller.pc = "session" /\ caller.key \in desired
    BY <1>4 DEF MakeSession, Monitored
  <2>3. TypeOK'
    BY <2>1 DEF TypeOK
  <2>4. Monitored'
    BY <1>4, <2>1, <2>2 DEF Monitored, Idle
  <2>5. Believed'
    BY <2>1 DEF Believed, Idle
  <2> QED
    BY <2>3, <2>4, <2>5
<1>5. CASE MakeSession /\ table[caller.key] = 0
  <2> DEFINE k == caller.key
             new == [key |-> k, state |-> "Down", alive |-> TRUE, passive |-> FALSE]
  <2>1. /\ sess' = Append(sess, new) /\ Len(sess) < MaxSess
        /\ table' = [table EXCEPT ![k] = Len(sess) + 1] /\ caller' = Idle
        /\ UNCHANGED <<mode, desired, installed, kernel, calls>>
    BY <1>5 DEF MakeSession
  <2>2. caller.pc = "session" /\ k \in desired /\ k \in Key
    BY <1>5 DEF MakeSession, Monitored, TypeOK
  <2>3. new \in Session
    BY <2>2 DEF Session, SState
  <2> HIDE DEF k, new
  <2>4. /\ sess' \in Seq(Session) /\ Len(sess') = Len(sess) + 1
        /\ sess'[Len(sess) + 1] = new
        /\ \A i \in 1 .. Len(sess) : sess'[i] = sess[i]
        /\ Len(sess) \in Nat
    BY <2>1, <2>3 DEF TypeOK
  <2>5. \A j \in Key : table[j] \in 0 .. Len(sess)
    BY DEF TypeOK
  <2>6. /\ table'[k] = Len(sess) + 1
        /\ \A j \in Key : j # k => table'[j] = table[j]
        /\ table' \in [Key -> 0 .. Len(sess) + 1]
    BY <2>1, <2>2, <2>4, <2>5 DEF TypeOK
  <2>7. TypeOK'
    BY <2>1, <2>4, <2>6, ManagerAssumption DEF TypeOK
  <2>8. ASSUME NEW j \in Key
        PROVE  /\ table'[j] # 0 => sess'[table'[j]].alive /\ sess'[table'[j]].key = j
               /\ j \in desired <=> table'[j] # 0
    <3>1. CASE j = k
      BY <3>1, <2>2, <2>4, <2>6 DEF new
    <3>2. CASE j # k
      <4>1. table'[j] = table[j] /\ (table[j] # 0 => table[j] \in 1 .. Len(sess))
        BY <3>2, <2>5, <2>6, <2>4
      <4>2. j \in desired <=> table[j] # 0
        BY <3>2, <2>2 DEF Monitored, k
      <4> QED
        BY <4>1, <4>2, <2>4 DEF Monitored
    <3> QED
      BY <3>1, <3>2
  <2>9. Monitored'
    BY <2>1, <2>8 DEF Monitored, Idle
  <2>10. Believed'
    BY <2>1 DEF Believed, Idle
  <2> QED
    BY <2>7, <2>9, <2>10
<1> QED
  BY <1>1, <1>2, <1>3, <1>4, <1>5

\* So does WithdrawRoute.
LEMMA WithdrawStep ==
  ASSUME IInv,
         (\E k \in Key : Withdraw(k)) \/ Forget \/ KillSession \/ DeleteWithdrawn
  PROVE  IInv'
<1> USE CallerShape DEF IInv
<1>1. ASSUME NEW k \in Key, Withdraw(k) PROVE IInv'
  <2>1. caller' = Idle \/ caller' = [pc |-> "forget", key |-> k, was |-> FALSE]
    BY <1>1 DEF Withdraw, At
  <2>2. TypeOK'
    <3>1. caller' \in CallerPc \cup {Idle}
      BY <1>1, <2>1, CallType
    <3>2. kernel' \subseteq Key
      BY <1>1 DEF Withdraw, TypeOK
    <3> QED
      BY <1>1, <3>1, <3>2 DEF Withdraw, TypeOK
  <2>3. Monitored'
    BY <1>1, <2>1 DEF Withdraw, Monitored, Idle
  <2>4. Believed'
    BY <1>1, <2>1 DEF Withdraw, Believed, Idle
  <2> QED
    BY <2>2, <2>3, <2>4
<1>2. CASE Forget
  <2>1. caller \in CallerPc /\ caller.key \in Key
    BY <1>2 DEF Forget, TypeOK, Idle
  <2>2. caller' = [pc |-> "kill", key |-> caller.key, was |-> caller.key \in installed]
    BY <1>2 DEF Forget, At
  <2>3. caller' \in CallerPc
    BY <2>1, <2>2 DEF CallerPc
  <2>4. TypeOK'
    BY <1>2, <2>3 DEF Forget, TypeOK
  <2>5. Monitored'
    BY <1>2, <2>2 DEF Forget, Monitored
  <2>6. Believed'
    BY <1>2, <2>2 DEF Forget, Believed
  <2> QED
    BY <2>4, <2>5, <2>6
<1>3. CASE KillSession
  <2> DEFINE k == caller.key
  <2>1. k \in Key /\ k \notin desired /\ caller.pc = "kill"
    BY <1>3 DEF KillSession, TypeOK, Idle, Monitored
  <2>2. caller' = Idle \/ caller' = [pc |-> "delete", key |-> k, was |-> TRUE]
    BY <1>3 DEF KillSession, At
  <2>3. /\ sess' = [s \in DOMAIN sess |->
                      IF s = table[k] THEN [sess[s] EXCEPT !.alive = FALSE] ELSE sess[s]]
        /\ table' = [table EXCEPT ![k] = 0]
        /\ UNCHANGED <<mode, desired, installed, kernel, calls>>
    BY <1>3 DEF KillSession
  <2>4. caller' \in CallerPc \cup {Idle}
    BY <2>1, <2>2, CallType
  <2>5. /\ DOMAIN sess = 1 .. Len(sess) /\ Len(sess) \in Nat
        /\ \A s \in DOMAIN sess : sess[s] \in Session
    BY DEF TypeOK
  <2>6. \A s \in DOMAIN sess : [sess[s] EXCEPT !.alive = FALSE] \in Session
    BY <2>5, Zenon DEF Session
  <2> HIDE DEF k
  <2>7. sess' \in [1 .. Len(sess) -> Session]
    BY <2>3, <2>5, <2>6
  <2>8. sess' \in Seq(Session) /\ Len(sess') = Len(sess)
    BY <2>7, <2>5
  <2>9. /\ table' \in [Key -> 0 .. Len(sess)] /\ table'[k] = 0
        /\ \A j \in Key : j # k => table'[j] = table[j]
    BY <2>1, <2>3, <2>5 DEF TypeOK
  <2>10. TypeOK'
    BY <2>3, <2>4, <2>8, <2>9 DEF TypeOK
  <2>11. ASSUME NEW j \in Key
         PROVE  /\ table'[j] # 0 => sess'[table'[j]].alive /\ sess'[table'[j]].key = j
                /\ j \in desired <=> table'[j] # 0
    <3>1. CASE j = k
      BY <3>1, <2>1, <2>9
    <3>2. CASE j # k
      <4>1. /\ table'[j] = table[j]
            /\ table[j] # 0 => sess[table[j]].alive /\ sess[table[j]].key = j
            /\ j \in desired <=> table[j] # 0
        BY <3>2, <2>1, <2>9 DEF Monitored, k
      <4>2. table[j] # 0 /\ table[k] # 0 => table[j] # table[k]
        BY <3>2, <4>1, <2>1 DEF Monitored
      <4>3. table[j] # 0 => table[j] \in DOMAIN sess
        BY <2>5 DEF TypeOK
      <4>4. table[j] # 0 => sess'[table[j]] = sess[table[j]]
        BY <4>2, <4>3, <2>3
      <4> QED
        BY <4>1, <4>4
    <3> QED
      BY <3>1, <3>2
  <2>12. Monitored'
    BY <2>2, <2>3, <2>11 DEF Monitored, Idle
  <2>13. Believed'
    BY <2>2, <2>3 DEF Believed, Idle
  <2> QED
    BY <2>10, <2>12, <2>13
<1>4. CASE DeleteWithdrawn
  <2>1. kernel' \subseteq Key
    BY <1>4 DEF DeleteWithdrawn, KernelOps, TypeOK
  <2>2. TypeOK'
    BY <1>4, <2>1 DEF DeleteWithdrawn, TypeOK
  <2>3. Monitored'
    BY <1>4 DEF DeleteWithdrawn, Monitored, Idle
  <2>4. Believed'
    BY <1>4 DEF DeleteWithdrawn, Believed, Idle
  <2> QED
    BY <2>2, <2>3, <2>4
<1> QED
  BY <1>1, <1>2, <1>3, <1>4

-----------------------------------------------------------------------------
(* Session events and callbacks *)

\* Packets, timeouts and AdminDownRoute change a session's state and start a
\* callback.
LEMMA EventStep ==
  ASSUME IInv,
         \/ \E s \in DOMAIN sess :
              \/ \E to \in SState, passive \in {FALSE, mode.honorPassive} :
                   Rx(s, to, passive)
              \/ Timeout(s)
         \/ \E k \in Key : AdminDownRoute(k)
  PROVE  IInv'
<1>0. TypeOK
  BY DEF IInv
<1>1. ASSUME NEW s \in DOMAIN sess, NEW to \in SState,
             NEW passive \in {FALSE, mode.honorPassive}, Rx(s, to, passive)
      PROVE  IInv'
  <2> DEFINE new == [sess[s] EXCEPT !.state = to, !.passive = passive]
  <2>1. sess[s] \in Session
    BY <1>0, SessionShape
  <2>2. passive \in BOOLEAN
    BY <1>0, ManagerAssumption DEF TypeOK
  <2>3. new \in Session
    BY <2>1, <2>2, Zenon DEF Session
  <2>4. new.key = sess[s].key /\ new.alive = sess[s].alive
    BY <2>1 DEF Session
  <2>5. sess' = [sess EXCEPT ![s] = new]
    BY <1>1 DEF Rx
  <2>6. calls' \in [1 .. MaxCalls -> Callback \cup {Idle}]
    <3>1. \/ Spawn("up", s) \/ Spawn("down", s) \/ UNCHANGED calls
      BY <1>1 DEF Rx
    <3>2. UNCHANGED calls => calls' \in [1 .. MaxCalls -> Callback \cup {Idle}]
      BY <1>0 DEF TypeOK
    <3> QED
      BY <1>0, <3>1, <3>2, SpawnType
  <2>7. UNCHANGED <<mode, desired, installed, kernel, table, caller>>
    BY <1>1 DEF Rx
  <2> HIDE DEF new
  <2> QED
    BY <2>3, <2>4, <2>5, <2>6, <2>7, SessionChange
<1>2. ASSUME NEW s \in DOMAIN sess, NEW to \in SState, NEW do \in {"down", "admin"},
             sess' = [sess EXCEPT ![s].state = to], Spawn(do, s),
             UNCHANGED <<mode, desired, installed, kernel, table, caller>>
      PROVE  IInv'
  <2> DEFINE new == [sess[s] EXCEPT !.state = to]
  <2>1. sess[s] \in Session
    BY <1>0, SessionShape
  <2>2. new \in Session
    BY <2>1, Zenon DEF Session
  <2>3. new.key = sess[s].key /\ new.alive = sess[s].alive
    BY <2>1 DEF Session
  <2>4. sess' = [sess EXCEPT ![s] = new]
    BY <1>2
  <2>5. calls' \in [1 .. MaxCalls -> Callback \cup {Idle}]
    BY <1>0, <1>2, SpawnType
  <2> HIDE DEF new
  <2> QED
    BY <1>2, <2>2, <2>3, <2>4, <2>5, SessionChange
<1>3. ASSUME NEW s \in DOMAIN sess, Timeout(s) PROVE IInv'
  <2>1. sess' = [sess EXCEPT ![s].state = "Down"] /\ Spawn("down", s)
    BY <1>3 DEF Timeout
  <2>2. UNCHANGED <<mode, desired, installed, kernel, table, caller>>
    BY <1>3 DEF Timeout
  <2>3. "Down" \in SState
    BY DEF SState
  <2> QED
    BY <1>2, <2>1, <2>2, <2>3
<1>4. ASSUME NEW k \in Key, AdminDownRoute(k) PROVE IInv'
  <2> DEFINE s == table[k]
  <2>1. s \in DOMAIN sess
    BY <1>0, <1>4 DEF AdminDownRoute, TypeOK
  <2>2. sess' = [sess EXCEPT ![s].state = "AdminDown"] /\ Spawn("admin", s)
    BY <1>4 DEF AdminDownRoute
  <2>3. UNCHANGED <<mode, desired, installed, kernel, table, caller>>
    BY <1>4 DEF AdminDownRoute
  <2>4. "AdminDown" \in SState
    BY DEF SState
  <2> HIDE DEF s
  <2> QED
    BY <1>2, <2>1, <2>2, <2>3, <2>4
<1> QED
  BY <1>1, <1>3, <1>4

\* The callbacks: onSessionUp marks a route installed only if it is desired.
LEMMA CallbacksKeep ==
  ASSUME IInv,
         \E c \in DOMAIN calls :
           ClaimUp(c) \/ Add(c) \/ ClaimDown(c) \/ Delete(c) \/ ClearInstalled(c)
  PROVE  IInv'
<1>1. PICK c \in DOMAIN calls :
        ClaimUp(c) \/ Add(c) \/ ClaimDown(c) \/ Delete(c) \/ ClearInstalled(c)
  OBVIOUS
<1>2. TypeOK /\ (~mode.passiveMode => installed \subseteq desired)
  BY DEF IInv, Believed
<1>3. calls[c].pc # "idle"
  BY <1>1 DEF ClaimUp, Add, ClaimDown, Delete, ClearInstalled
<1>4. \E pc \in {"idle", "add", "del", "clear"} : Goto(c, pc)
  BY <1>1 DEF ClaimUp, Add, ClaimDown, Delete, ClearInstalled, After
<1>5. calls' \in [1 .. MaxCalls -> Callback \cup {Idle}] /\ calls[c].key \in Key
  BY <1>2, <1>3, <1>4, GotoType
<1>6. UNCHANGED <<mode, desired, table, sess, caller>>
  BY <1>1 DEF ClaimUp, Add, ClaimDown, Delete, ClearInstalled
<1>7. kernel' \subseteq Key
  BY <1>1, <1>2, <1>5
     DEF ClaimUp, Add, ClaimDown, Delete, ClearInstalled, KernelOps, TypeOK
<1>8. \/ installed' \subseteq installed
      \/ calls[c].key \in desired /\ installed' = installed \cup {calls[c].key}
  BY <1>1 DEF ClaimUp, Add, ClaimDown, Delete, ClearInstalled
<1>9. installed' \subseteq Key /\ (~mode.passiveMode => installed' \subseteq desired)
  BY <1>2, <1>5, <1>8 DEF TypeOK
<1> QED
  BY <1>5, <1>6, <1>7, <1>9, CallbackStep

-----------------------------------------------------------------------------
(* The theorems *)

\* IInv holds initially and every step of the manager preserves it.
THEOREM ManagerInvariant == Spec => []IInv
<1>1. Init => IInv
  <2> SUFFICES ASSUME Init PROVE IInv
    OBVIOUS
  <2>1. TypeOK
    BY ManagerAssumption DEF Init, TypeOK
  <2>2. Monitored /\ Believed
    BY DEF Init, Monitored, Believed, Idle
  <2> QED
    BY <2>1, <2>2 DEF IInv
<1>2. IInv /\ [Next]_vars => IInv'
  <2> SUFFICES ASSUME IInv, [Next]_vars PROVE IInv'
    OBVIOUS
  <2>1. mode.routes \subseteq Key
    BY ManagerAssumption DEF IInv, TypeOK
  <2>2. CASE Next
    BY <2>1, <2>2, RegisterStep, WithdrawStep, EventStep, CallbacksKeep DEF Next
  <2>3. CASE UNCHANGED vars
    BY <2>3 DEF vars, IInv, TypeOK, Monitored, Believed
  <2> QED
    BY <2>2, <2>3
<1> QED
  BY <1>1, <1>2, PTL DEF Spec

\* The maps, the sessions and the goroutines keep their types.
THEOREM ManagerTypeOK == Spec => []TypeOK
BY ManagerInvariant, PTL DEF IInv

\* Whatever callbacks of withdrawn sessions are still under way, the manager
\* believes installed only what is desired.
THEOREM ManagerInstalledIsDesired == Spec => []InstalledIsDesired
<1>1. IInv => InstalledIsDesired
  BY DEF IInv, Believed, InstalledIsDesired
<1> QED
  BY <1>1, ManagerInvariant, PTL

\* Outside RegisterRoute and WithdrawRoute exactly the desired routes have a
\* live session of their own.
THEOREM ManagerDesiredIsMonitored == Spec => []DesiredIsMonitored
<1>1. IInv => DesiredIsMonitored
  BY DEF IInv, Monitored, DesiredIsMonitored, Idle
<1> QED
  BY <1>1, ManagerInvariant, PTL

-----------------------------------------------------------------------------
(* PassiveMode *)

\* In PassiveMode no callback touches the kernel, and the kernel differs from
\* the desired routes only for the route that is being registered (it is in
\* the kernel already) or withdrawn (it is gone already).
PassiveInv ==
  mode.passiveMode /\ ~mode.noUninstall =>
    /\ \A c \in DOMAIN calls : calls[c].pc \notin {"add", "del"}
    /\ caller.pc # "delete"
    /\ \A k \in Key :
         ~(caller # Idle /\ caller.key = k) => (k \in kernel <=> k \in desired)
    /\ caller.pc \in {"mark", "want", "session"} => caller.key \in kernel
    /\ caller.pc = "session" => caller.key \in desired
    /\ caller.pc \in {"forget", "kill"} => caller.key \notin kernel
    /\ caller.pc = "kill" => caller.key \notin desired

\* A callback that starts is in its first critical section.
LEMMA SpawnStarts ==
  ASSUME TypeOK, NEW do, NEW s, Spawn(do, s)
  PROVE  /\ DOMAIN calls' = DOMAIN calls
         /\ \A c \in DOMAIN calls : calls'[c] = calls[c] \/ calls'[c].pc = "start"
BY DEF Spawn, TypeOK

\* Every step keeps PassiveInv.
LEMMA PassiveStep ==
  ASSUME TypeOK, PassiveInv, Next
  PROVE  PassiveInv'
<1> SUFFICES ASSUME mode.passiveMode, ~mode.noUninstall, mode' = mode
             PROVE  PassiveInv'
  BY DEF PassiveInv, Next, Register, Withdraw, AdminDownRoute, MarkInstalled, Want,
         MakeSession, Forget, KillSession, DeleteWithdrawn, Rx, Timeout, ClaimUp, Add,
         ClaimDown, Delete, ClearInstalled
<1>0. /\ mode.routes \subseteq Key /\ caller \in CallerPc \cup {Idle}
      /\ caller # Idle => caller \in CallerPc /\ caller.key \in Key /\ caller.pc # "idle"
  BY ManagerAssumption DEF TypeOK, CallerPc
<1>1. ASSUME NEW k \in mode.routes, Register(k) PROVE PassiveInv'
  <2>1. k \in Key /\ caller = Idle
    BY <1>0, <1>1 DEF Register
  <2>2. \/ kernel' = kernel \cup {k} /\ caller' = [pc |-> "mark", key |-> k, was |-> FALSE]
        \/ UNCHANGED <<kernel, caller>>
    BY <1>1 DEF Register, At
  <2> QED
    BY <1>1, <2>1, <2>2 DEF Register, PassiveInv, Idle
<1>2. ASSUME NEW k \in mode.routes, Withdraw(k) PROVE PassiveInv'
  <2>1. k \in Key /\ caller = Idle
    BY <1>0, <1>2 DEF Withdraw
  <2>2. \/ kernel' = kernel \ {k} /\ caller' = [pc |-> "forget", key |-> k, was |-> FALSE]
        \/ UNCHANGED <<kernel, caller>>
    BY <1>2 DEF Withdraw, At
  <2> QED
    BY <1>2, <2>1, <2>2 DEF Withdraw, PassiveInv, Idle
<1>3. CASE MarkInstalled
  <2>1. caller'.pc = "want" /\ caller'.key = caller.key /\ caller' # Idle /\ caller # Idle
    BY <1>0, <1>3 DEF MarkInstalled, CallerPc, Idle
  <2> QED
    BY <1>3, <2>1 DEF MarkInstalled, PassiveInv
<1>4. CASE Want
  <2>1. caller'.pc = "session" /\ caller'.key = caller.key /\ caller' # Idle /\ caller # Idle
    BY <1>0, <1>4 DEF Want, CallerPc, Idle
  <2> QED
    BY <1>4, <2>1 DEF Want, PassiveInv
<1>5. CASE MakeSession
  BY <1>5 DEF MakeSession, PassiveInv, Idle
<1>6. CASE Forget
  <2>1. caller' = [pc |-> "kill", key |-> caller.key, was |-> caller.key \in installed]
    BY <1>6 DEF Forget, At
  <2>2. caller'.pc = "kill" /\ caller'.key = caller.key /\ caller' # Idle /\ caller # Idle
    BY <1>6, <2>1 DEF Forget, Idle
  <2> QED
    BY <1>6, <2>2 DEF Forget, PassiveInv
<1>7. CASE KillSession
  BY <1>7 DEF KillSession, PassiveInv, Idle
<1>8. CASE DeleteWithdrawn
  BY <1>8 DEF DeleteWithdrawn, PassiveInv
<1>9. ASSUME NEW s, NEW do, Spawn(do, s) \/ UNCHANGED calls,
             UNCHANGED <<mode, desired, installed, kernel, table, caller>>
      PROVE  PassiveInv'
  <2>1. /\ DOMAIN calls' = DOMAIN calls
        /\ \A c \in DOMAIN calls : calls'[c] = calls[c] \/ calls'[c].pc = "start"
    BY <1>9, SpawnStarts
  <2> QED
    BY <1>9, <2>1 DEF PassiveInv
<1>10. ASSUME NEW s \in DOMAIN sess, NEW to, NEW passive, Rx(s, to, passive) PROVE PassiveInv'
  BY <1>9, <1>10 DEF Rx
<1>11. ASSUME NEW s \in DOMAIN sess, Timeout(s) PROVE PassiveInv'
  BY <1>9, <1>11 DEF Timeout
<1>12. ASSUME NEW k \in mode.routes, AdminDownRoute(k) PROVE PassiveInv'
  BY <1>9, <1>12 DEF AdminDownRoute
<1>13. ASSUME NEW c \in DOMAIN calls,
              ClaimUp(c) \/ Add(c) \/ ClaimDown(c) \/ Delete(c) \/ ClearInstalled(c)
       PROVE  PassiveInv'
  <2>1. ~Add(c) /\ ~Delete(c)
    BY DEF Add, Delete, PassiveInv
  <2>2. UNCHANGED <<mode, desired, kernel, caller>>
    BY <1>13, <2>1 DEF ClaimUp, ClaimDown, ClearInstalled
  <2>3. Goto(c, "idle") \/ Goto(c, "clear")
    BY <1>13, <2>1 DEF ClaimUp, ClaimDown, ClearInstalled, After
  <2>4. calls[c] # Idle /\ calls[c] \in Callback
    BY <1>13, <2>1 DEF ClaimUp, ClaimDown, ClearInstalled, TypeOK, Idle
  <2>5. [calls[c] EXCEPT !.pc = "clear"].pc = "clear"
    BY <2>4 DEF Callback
  <2>6. /\ DOMAIN calls' = DOMAIN calls
        /\ \A d \in DOMAIN calls : calls'[d] = calls[d] \/ calls'[d].pc \in {"idle", "clear"}
    <3>1. \E v : calls' = [calls EXCEPT ![c] = v] /\ v.pc \in {"idle", "clear"}
      BY <2>3, <2>5 DEF Goto, Idle
    <3> QED
      BY <3>1 DEF TypeOK
  <2> QED
    BY <2>2, <2>6 DEF PassiveInv
<1> QED
  BY <1>1, <1>2, <1>3, <1>4, <1>5, <1>6, <1>7, <1>8, <1>10, <1>11, <1>12, <1>13 DEF Next

\* In PassiveMode the kernel holds a route exactly while it is desired, for any
\* number of routes and callbacks and whichever kernel calls fail.
THEOREM ManagerKernelFollowsDesired == Spec => []KernelFollowsDesired
<1>1. Init => PassiveInv
  BY DEF Init, PassiveInv, Idle
<1>2. TypeOK /\ PassiveInv /\ [Next]_vars => PassiveInv'
  <2>1. ASSUME PassiveInv, UNCHANGED vars PROVE PassiveInv'
    BY <2>1 DEF PassiveInv, vars
  <2> QED
    BY <2>1, PassiveStep
<1>3. PassiveInv => KernelFollowsDesired
  BY DEF PassiveInv, KernelFollowsDesired, Busy
<1> QED
  BY <1>1, <1>2, <1>3, ManagerTypeOK, PTL DEF Spec

-----------------------------------------------------------------------------
(* Callbacks that do not overlap *)

\* Who is at work for route k, and the state of the session that watches it.
Serving(k) == caller # Idle /\ caller.key = k
Works(c, k) == calls[c] # Idle /\ calls[c].key = k
StateOf(k) == IF table[k] = 0 THEN "none" ELSE sess[table[k]].state

Settled(k) ==
  /\ k \in desired => (k \in kernel <=> StateOf(k) = "Up")
  /\ k \notin desired => k \notin kernel
  /\ k \in kernel <=> k \in installed

\* What each critical section of RegisterRoute and WithdrawRoute finds: a
\* settled route, or one that is in the kernel only if it was installed.
CallerStage(k) ==
  /\ caller.pc # "mark"
  /\ caller.pc \in {"want", "session", "forget"} => Settled(k)
  /\ caller.pc = "kill" => k \notin installed /\ (k \in kernel => caller.was)
  /\ caller.pc = "delete" => k \notin installed /\ k \notin desired

\* What each section of a callback finds: the session is still in the state
\* that started the callback, and the kernel still as that state found it.
CallStage(c, k) ==
  /\ k \in desired
  /\ StateOf(k) = "Up" <=> calls[c].do = "up"
  /\ calls[c].pc = "start" => /\ k \in kernel <=> k \in installed
                              /\ calls[c].do = "up" => k \notin kernel
  /\ calls[c].pc = "add" => calls[c].do = "up" /\ k \in installed
  /\ calls[c].pc = "del" => calls[c].do # "up" /\ k \notin installed
  /\ calls[c].pc = "clear" => calls[c].do # "up" /\ k \notin installed /\ k \notin kernel

KeyInv(k) ==
  /\ Serving(k) => CallerStage(k)
  /\ \A c \in DOMAIN calls :
       Works(c, k) => /\ CallStage(c, k) /\ ~Serving(k)
                      /\ \A d \in DOMAIN calls : Works(d, k) => d = c
  /\ ~Serving(k) /\ (\A c \in DOMAIN calls : ~Works(c, k)) => Settled(k)

SerialInv == Undisturbed => \A k \in Key : KeyInv(k)

\* A session that lives is the one in the table.
AliveManaged == \A s \in DOMAIN sess : sess[s].alive => table[sess[s].key] = s

\* A step that is not about route j leaves what KeyInv says of it.
LEMMA KeyFrame ==
  ASSUME NEW j, KeyInv(j),
         (j \in desired)' <=> j \in desired,
         (j \in installed)' <=> j \in installed,
         (j \in kernel)' <=> j \in kernel,
         StateOf(j)' = StateOf(j),
         Serving(j)' <=> Serving(j), Serving(j) => caller' = caller,
         DOMAIN calls' = DOMAIN calls,
         \A c \in DOMAIN calls : Works(c, j)' <=> Works(c, j),
         \A c \in DOMAIN calls : Works(c, j) => calls'[c] = calls[c]
  PROVE  KeyInv(j)'
<1>1. Settled(j)' <=> Settled(j)
  BY Zenon DEF Settled
<1>2. Serving(j) => (CallerStage(j)' <=> CallerStage(j))
  BY <1>1, Zenon DEF CallerStage
<1>3. ASSUME NEW c \in DOMAIN calls, Works(c, j)
      PROVE  CallStage(c, j)' <=> CallStage(c, j)
  <2>1. calls'[c].pc = calls[c].pc /\ calls'[c].do = calls[c].do
    BY <1>3, Zenon
  <2>2. (StateOf(j) = "Up")' <=> StateOf(j) = "Up"
    BY Zenon
  <2> QED
    BY <2>1, <2>2 DEF CallStage
<1> QED
  BY <1>1, <1>2, <1>3, Zenon DEF KeyInv

\* What a step for route k leaves alone.
Elsewhere(k) ==
  \A j \in Key \ {k} :
    /\ (j \in desired)' <=> j \in desired
    /\ (j \in installed)' <=> j \in installed
    /\ (j \in kernel)' <=> j \in kernel
    /\ StateOf(j)' = StateOf(j)

\* RegisterRoute or WithdrawRoute of k moves on, starts or returns.
LEMMA CallerMove ==
  ASSUME NEW k \in Key, \A j \in Key : KeyInv(j), Elsewhere(k),
         caller # Idle => caller.key = k, caller' # Idle => caller'.key = k,
         calls' = calls, \A c \in DOMAIN calls : ~Works(c, k),
         caller' # Idle => CallerStage(k)', caller' = Idle => Settled(k)'
  PROVE  \A j \in Key : KeyInv(j)'
<1>1. \A c, j : Works(c, j)' <=> Works(c, j)
  BY Zenon DEF Works
<1>2. KeyInv(k)'
  BY <1>1, Zenon DEF KeyInv, Serving
<1>3. ASSUME NEW j \in Key, j # k PROVE KeyInv(j)'
  <2>1. ~Serving(j) /\ ~Serving(j)'
    BY <1>3, Zenon DEF Serving
  <2>2. /\ (j \in desired)' <=> j \in desired
        /\ (j \in installed)' <=> j \in installed
        /\ (j \in kernel)' <=> j \in kernel
        /\ StateOf(j)' = StateOf(j)
    BY <1>3, Zenon DEF Elsewhere
  <2> QED
    BY <1>1, <1>3, <2>1, <2>2, KeyFrame
<1> QED
  BY <1>2, <1>3, Zenon

\* A callback of k starts, moves on or ends, and is the only one at work for k.
LEMMA CallMove ==
  ASSUME NEW k \in Key, \A j \in Key : KeyInv(j), Elsewhere(k),
         NEW c \in DOMAIN calls, NEW v, calls' = [calls EXCEPT ![c] = v],
         calls[c] # Idle => calls[c].key = k, v # Idle => v.key = k,
         caller' = caller, ~Serving(k),
         \A d \in DOMAIN calls : d # c => ~Works(d, k),
         v # Idle => CallStage(c, k)', v = Idle => Settled(k)'
  PROVE  \A j \in Key : KeyInv(j)'
<1>1. /\ DOMAIN calls' = DOMAIN calls /\ calls'[c] = v
      /\ \A d \in DOMAIN calls : d # c => calls'[d] = calls[d]
  BY Zenon
<1>2. \A j : Serving(j)' <=> Serving(j)
  BY Zenon DEF Serving
<1>3. \A d \in DOMAIN calls : d # c => ~Works(d, k)'
  BY <1>1, Zenon DEF Works
<1>4. Works(c, k)' <=> v # Idle
  BY <1>1, Zenon DEF Works
<1>5. KeyInv(k)'
  BY <1>1, <1>2, <1>3, <1>4, Zenon DEF KeyInv
<1>6. ASSUME NEW j \in Key, j # k PROVE KeyInv(j)'
  <2>1. \A d \in DOMAIN calls : Works(d, j)' <=> Works(d, j)
    BY <1>1, <1>6, Zenon DEF Works
  <2>2. \A d \in DOMAIN calls : Works(d, j) => calls'[d] = calls[d]
    BY <1>1, <1>6, Zenon DEF Works
  <2>3. /\ (j \in desired)' <=> j \in desired
        /\ (j \in installed)' <=> j \in installed
        /\ (j \in kernel)' <=> j \in kernel
        /\ StateOf(j)' = StateOf(j)
    BY <1>6, Zenon DEF Elsewhere
  <2> QED
    BY <1>1, <1>2, <1>6, <2>1, <2>2, <2>3, KeyFrame
<1> QED
  BY <1>5, <1>6, Zenon

\* Nobody is at work for k, and its session changes state without an event.
LEMMA StateMove ==
  ASSUME NEW k \in Key, \A j \in Key : KeyInv(j), Elsewhere(k),
         calls' = calls, caller' = caller, ~Busy(k), Settled(k)'
  PROVE  \A j \in Key : KeyInv(j)'
<1>1. \A c, j : Works(c, j)' <=> Works(c, j)
  BY Zenon DEF Works
<1>2. \A j : Serving(j)' <=> Serving(j)
  BY Zenon DEF Serving
<1>3. ~Serving(k) /\ \A c \in DOMAIN calls : ~Works(c, k)
  BY Zenon DEF Busy, Serving, Works
<1>4. KeyInv(k)'
  BY <1>1, <1>2, <1>3, Zenon DEF KeyInv
<1>5. ASSUME NEW j \in Key, j # k PROVE KeyInv(j)'
  <2>1. /\ (j \in desired)' <=> j \in desired
        /\ (j \in installed)' <=> j \in installed
        /\ (j \in kernel)' <=> j \in kernel
        /\ StateOf(j)' = StateOf(j)
    BY <1>5, Zenon DEF Elsewhere
  <2> QED
    BY <1>1, <1>2, <1>5, <2>1, KeyFrame
<1> QED
  BY <1>4, <1>5, Zenon

\* When nobody is at work for k it is settled; while RegisterRoute or
\* WithdrawRoute is, no callback of k is.
LEMMA KeyFacts ==
  ASSUME NEW k, KeyInv(k)
  PROVE  /\ ~Busy(k) => Settled(k) /\ ~Serving(k) /\ \A c \in DOMAIN calls : ~Works(c, k)
         /\ Serving(k) => CallerStage(k) /\ \A c \in DOMAIN calls : ~Works(c, k)
BY Zenon DEF KeyInv, Busy, Serving, Works

LEMMA StateSame ==
  ASSUME table' = table, sess' = sess
  PROVE  \A j : StateOf(j)' = StateOf(j)
BY Zenon DEF StateOf

\* RegisterRoute of a settled route leaves it settled.
LEMMA SerialRegister ==
  ASSUME IInv, Undisturbed, \A j \in Key : KeyInv(j),
         (\E k \in Key : Register(k)) \/ MarkInstalled \/ Want \/ MakeSession
  PROVE  \A j \in Key : KeyInv(j)'
<1>0. TypeOK /\ Monitored
  BY DEF IInv
<1>1. ASSUME NEW k \in Key, Register(k) PROVE \A j \in Key : KeyInv(j)'
  <2>1. /\ caller = Idle /\ ~Busy(k)
        /\ caller' = [pc |-> "want", key |-> k, was |-> FALSE]
        /\ UNCHANGED <<desired, installed, kernel, table, sess, calls>>
    BY <1>1 DEF Register, MayStart, Undisturbed, At
  <2>2. \A j : StateOf(j)' = StateOf(j)
    BY <2>1, StateSame
  <2>3. Settled(k) /\ \A c \in DOMAIN calls : ~Works(c, k)
    BY <2>1, KeyFacts
  <2>4. Settled(k)'
    BY <2>1, <2>2, <2>3 DEF Settled
  <2>5. CallerStage(k)' /\ caller' # Idle /\ caller'.key = k
    BY <2>1, <2>4 DEF CallerStage, Idle
  <2>6. Elsewhere(k)
    BY <2>1, <2>2 DEF Elsewhere
  <2> QED
    BY <2>1, <2>3, <2>5, <2>6, CallerMove
<1>2. SUFFICES ASSUME MarkInstalled \/ Want \/ MakeSession
               PROVE  \A j \in Key : KeyInv(j)'
  BY <1>1
<1>3. PICK k : k = caller.key
  OBVIOUS
<1>4. caller # Idle /\ k \in Key
  BY <1>0, <1>2, <1>3, CallerShape DEF MarkInstalled, Want, MakeSession, Idle, TypeOK
<1>5. Serving(k)
  BY <1>3, <1>4 DEF Serving
<1>6. CallerStage(k) /\ \A c \in DOMAIN calls : ~Works(c, k)
  BY <1>4, <1>5, KeyFacts
<1>7. ~MarkInstalled
  BY <1>6 DEF MarkInstalled, CallerStage
<1>8. Settled(k)
  BY <1>2, <1>6, <1>7 DEF Want, MakeSession, CallerStage
<1>9. CASE Want
  <2>1. /\ caller.pc = "want" /\ desired' = desired \cup {k}
        /\ UNCHANGED <<installed, kernel, table, sess, calls>>
    BY <1>3, <1>9 DEF Want
  <2>2. caller'.pc = "session" /\ caller'.key = k
    BY <1>0, <1>3, <1>4, <1>9, CallerShape DEF Want, CallerPc, TypeOK
  <2>3. \A j : StateOf(j)' = StateOf(j)
    BY <2>1, StateSame
  <2>4. k \notin desired => StateOf(k) = "none"
    BY <1>0, <1>3, <1>4, <2>1 DEF Monitored, StateOf
  <2>5. Settled(k)'
    BY <1>8, <2>1, <2>3, <2>4 DEF Settled
  <2>6. CallerStage(k)' /\ caller' # Idle
    BY <2>2, <2>5 DEF CallerStage, Idle
  <2>7. Elsewhere(k)
    BY <2>1, <2>3 DEF Elsewhere
  <2> QED
    BY <1>3, <1>4, <1>6, <2>1, <2>2, <2>6, <2>7, CallerMove
<1>10. CASE MakeSession
  <2>1. /\ caller.pc = "session" /\ caller' = Idle
        /\ UNCHANGED <<desired, installed, kernel, calls>>
    BY <1>10 DEF MakeSession
  <2>2. k \in desired
    BY <1>0, <1>3, <2>1 DEF Monitored
  <2>3. /\ \A j \in Key : j # k => StateOf(j)' = StateOf(j)
        /\ (StateOf(k) = "Up")' <=> StateOf(k) = "Up"
    <3>1. CASE table[k] # 0
      <4>1. table' = table /\ sess' = sess
        BY <1>3, <1>10, <3>1 DEF MakeSession
      <4> QED
        BY <4>1, StateSame
    <3>2. CASE table[k] = 0
      <4>1. PICK new : /\ new.state = "Down"
                       /\ sess' = Append(sess, new) /\ table' = [table EXCEPT ![k] = Len(sess) + 1]
        BY <1>3, <1>10, <3>2 DEF MakeSession
      <4>2. sess \in Seq(Session) /\ Len(sess) \in Nat /\ table \in [Key -> 0 .. Len(sess)]
        BY <1>0 DEF TypeOK
      <4>3. /\ sess'[Len(sess) + 1] = new /\ \A i \in 1 .. Len(sess) : sess'[i] = sess[i]
        BY <4>1, <4>2
      <4>4. table'[k] = Len(sess) + 1 /\ \A j \in Key : j # k => table'[j] = table[j]
        BY <1>4, <4>1, <4>2
      <4>5. StateOf(k)' = "Down" /\ StateOf(k) = "none"
        BY <3>2, <4>1, <4>2, <4>3, <4>4 DEF StateOf
      <4>6. ASSUME NEW j \in Key, j # k PROVE StateOf(j)' = StateOf(j)
        <5>1. table'[j] = table[j] /\ (table[j] # 0 => table[j] \in 1 .. Len(sess))
          BY <4>2, <4>4, <4>6
        <5> QED
          BY <4>3, <5>1 DEF StateOf
      <4> QED
        BY <4>5, <4>6
    <3> QED
      BY <3>1, <3>2
  <2>4. Settled(k)'
    BY <1>8, <2>1, <2>2, <2>3 DEF Settled
  <2>5. Elsewhere(k)
    BY <2>1, <2>3 DEF Elsewhere
  <2> QED
    BY <1>3, <1>4, <1>6, <2>1, <2>4, <2>5, CallerMove
<1> QED
  BY <1>2, <1>7, <1>9, <1>10

\* WithdrawRoute of a settled route takes it out of the kernel if it is there.
LEMMA SerialWithdraw ==
  ASSUME IInv, Undisturbed, \A j \in Key : KeyInv(j),
         (\E k \in Key : Withdraw(k)) \/ Forget \/ KillSession \/ DeleteWithdrawn
  PROVE  \A j \in Key : KeyInv(j)'
<1>0. TypeOK /\ Monitored
  BY DEF IInv
<1>1. ASSUME NEW k \in Key, Withdraw(k) PROVE \A j \in Key : KeyInv(j)'
  <2>1. /\ caller = Idle /\ ~Busy(k)
        /\ caller' = [pc |-> "forget", key |-> k, was |-> FALSE]
        /\ UNCHANGED <<desired, installed, kernel, table, sess, calls>>
    BY <1>1 DEF Withdraw, MayStart, Undisturbed, At
  <2>2. \A j : StateOf(j)' = StateOf(j)
    BY <2>1, StateSame
  <2>3. Settled(k) /\ \A c \in DOMAIN calls : ~Works(c, k)
    BY <2>1, KeyFacts
  <2>4. Settled(k)'
    BY <2>1, <2>2, <2>3 DEF Settled
  <2>5. CallerStage(k)' /\ caller' # Idle /\ caller'.key = k
    BY <2>1, <2>4 DEF CallerStage, Idle
  <2>6. Elsewhere(k)
    BY <2>1, <2>2 DEF Elsewhere
  <2> QED
    BY <2>1, <2>3, <2>5, <2>6, CallerMove
<1>2. SUFFICES ASSUME Forget \/ KillSession \/ DeleteWithdrawn
               PROVE  \A j \in Key : KeyInv(j)'
  BY <1>1
<1>3. PICK k : k = caller.key
  OBVIOUS
<1>4. caller # Idle /\ k \in Key
  <2>1. caller.pc \in {"forget", "kill", "delete"}
    BY <1>2, Zenon DEF Forget, KillSession, DeleteWithdrawn
  <2> QED
    BY <1>0, <1>3, <2>1, CallerShape DEF TypeOK
<1>5. Serving(k)
  BY <1>3, <1>4 DEF Serving
<1>6. CallerStage(k) /\ \A c \in DOMAIN calls : ~Works(c, k)
  BY <1>4, <1>5, KeyFacts
<1>7. CASE Forget
  <2>1. /\ caller.pc = "forget" /\ desired' = desired \ {k} /\ installed' = installed \ {k}
        /\ caller' = [pc |-> "kill", key |-> k, was |-> k \in installed]
        /\ UNCHANGED <<kernel, table, sess, calls>>
    BY <1>3, <1>7 DEF Forget, At
  <2>2. Settled(k)
    BY <1>6, <2>1 DEF CallerStage
  <2>3. caller'.pc = "kill" /\ caller'.key = k /\ caller' # Idle
    BY <2>1 DEF Idle
  <2>4. k \in installed => caller'.was
    BY <2>1, Zenon
  <2>5. CallerStage(k)'
    BY <2>1, <2>2, <2>3, <2>4 DEF CallerStage, Settled
  <2>6. \A j : StateOf(j)' = StateOf(j)
    BY <2>1, StateSame
  <2>7. Elsewhere(k)
    BY <2>1, <2>6 DEF Elsewhere
  <2> QED
    BY <1>3, <1>4, <1>6, <2>1, <2>3, <2>5, <2>7, CallerMove
<1>8. CASE KillSession
  <2>1. /\ caller.pc = "kill" /\ table' = [table EXCEPT ![k] = 0]
        /\ sess' = [s \in DOMAIN sess |->
                      IF s = table[k] THEN [sess[s] EXCEPT !.alive = FALSE] ELSE sess[s]]
        /\ IF caller.was THEN caller' = [pc |-> "delete", key |-> k, was |-> TRUE]
                         ELSE caller' = Idle
        /\ UNCHANGED <<desired, installed, kernel, calls>>
    BY <1>3, <1>8 DEF KillSession, At, Undisturbed
  <2>2. k \notin desired /\ k \notin installed /\ (k \in kernel => caller.was)
    BY <1>0, <1>3, <1>6, <2>1 DEF CallerStage, Monitored
  <2>3. caller' # Idle => CallerStage(k)' /\ caller'.key = k
    BY <2>1, <2>2 DEF CallerStage, Idle
  <2>4. caller' = Idle => Settled(k)'
    BY <2>1, <2>2 DEF Settled, Idle
  <2>5. ASSUME NEW j \in Key, j # k PROVE StateOf(j)' = StateOf(j)
    <3>1. DOMAIN sess = 1 .. Len(sess) /\ Len(sess) \in Nat /\ table \in [Key -> 0 .. Len(sess)]
      BY <1>0 DEF TypeOK
    <3>2. table'[j] = table[j] /\ (table[j] # 0 => table[j] \in DOMAIN sess)
      BY <2>1, <2>5, <3>1
    <3>3. ASSUME NEW i \in DOMAIN sess PROVE sess'[i].state = sess[i].state
      <4>1. sess[i] \in Session
        BY <1>0, SessionShape
      <4> QED
        BY <2>1, <4>1 DEF Session
    <3> QED
      BY <3>2, <3>3 DEF StateOf
  <2>6. Elsewhere(k)
    BY <2>1, <2>5 DEF Elsewhere
  <2> QED
    BY <1>3, <1>4, <1>6, <2>1, <2>3, <2>4, <2>6, CallerMove
<1>9. CASE DeleteWithdrawn
  <2>1. /\ caller.pc = "delete" /\ kernel' = kernel \ {k} /\ caller' = Idle
        /\ UNCHANGED <<desired, installed, table, sess, calls>>
    BY <1>3, <1>9 DEF DeleteWithdrawn, KernelOps, Undisturbed
  <2>2. Settled(k)'
    BY <1>6, <2>1 DEF CallerStage, Settled
  <2>3. \A j : StateOf(j)' = StateOf(j)
    BY <2>1, StateSame
  <2>4. Elsewhere(k)
    BY <2>1, <2>3 DEF Elsewhere
  <2> QED
    BY <1>3, <1>4, <1>6, <2>1, <2>2, <2>4, CallerMove
<1> QED
  BY <1>2, <1>7, <1>8, <1>9

\* Session s becomes new, and its callback starts when it comes Up or stops
\* being Up.
Follows(s, new) ==
  \/ calls' = calls /\ (new.state = "Up" <=> sess[s].state = "Up")
  \/ \E do \in {"up", "down", "admin"} :
       /\ Spawn(do, s) /\ (new.state = "Up" <=> do = "up")
       /\ do = "up" => sess[s].state # "Up"

\* A packet, a timeout or AdminDownRoute finds k settled and its session in the
\* table; it starts a callback whenever the session comes Up or stops being Up.
LEMMA SerialEvent ==
  ASSUME IInv, \A j \in Key : KeyInv(j),
         NEW s \in DOMAIN sess, NEW k, k = sess[s].key, table[k] = s, ~Busy(k),
         NEW new, sess' = [sess EXCEPT ![s] = new],
         UNCHANGED <<desired, installed, kernel, table, caller>>, Follows(s, new)
  PROVE  \A j \in Key : KeyInv(j)'
<1>0. TypeOK /\ Monitored
  BY DEF IInv
<1>1. /\ k \in Key /\ s \in 1 .. Len(sess) /\ s # 0
      /\ DOMAIN sess = 1 .. Len(sess) /\ table \in [Key -> 0 .. Len(sess)]
  BY <1>0, SessionShape DEF Session, TypeOK
<1>2. Settled(k) /\ ~Serving(k) /\ \A c \in DOMAIN calls : ~Works(c, k)
  BY <1>1, KeyFacts
<1>3. k \in desired
  BY <1>0, <1>1, <1>2 DEF Monitored, Serving, Idle
<1>4. StateOf(k) = sess[s].state /\ StateOf(k)' = new.state
  BY <1>1 DEF StateOf
<1>5. ASSUME NEW j \in Key, j # k PROVE StateOf(j)' = StateOf(j)
  <2>1. table[j] # 0 => table[j] # s /\ table[j] \in DOMAIN sess
    BY <1>0, <1>1, <1>5 DEF Monitored
  <2> QED
    BY <2>1 DEF StateOf
<1>6. Elsewhere(k)
  BY <1>5 DEF Elsewhere
<1>7. CASE calls' = calls /\ (new.state = "Up" <=> sess[s].state = "Up")
  <2>1. Settled(k)'
    BY <1>2, <1>4, <1>7 DEF Settled
  <2> QED
    BY <1>1, <1>6, <1>7, <2>1, StateMove
<1>8. ASSUME NEW do \in {"up", "down", "admin"}, Spawn(do, s), new.state = "Up" <=> do = "up",
             do = "up" => sess[s].state # "Up"
      PROVE  \A j \in Key : KeyInv(j)'
  <2>1. PICK v : v = [pc |-> "start", do |-> do, key |-> k, s |-> s]
    BY Zenon
  <2>2. PICK c \in DOMAIN calls : calls[c] = Idle /\ calls' = [calls EXCEPT ![c] = v]
    BY <1>8, <2>1, Zenon DEF Spawn
  <2>3. calls'[c] = v /\ v # Idle /\ v.key = k
    BY <1>0, <2>1, <2>2 DEF TypeOK, Idle
  <2>4. CallStage(c, k)'
    BY <1>2, <1>3, <1>4, <1>8, <2>1, <2>3 DEF CallStage, Settled
  <2> QED
    BY <1>1, <1>2, <1>6, <2>2, <2>3, <2>4, CallMove, Zenon
<1> QED
  BY <1>7, <1>8, Zenon DEF Follows

\* Each section of a callback takes k one step nearer to its session's state.
LEMMA SerialCallback ==
  ASSUME IInv, Undisturbed, \A j \in Key : KeyInv(j), NEW c \in DOMAIN calls,
         ClaimUp(c) \/ Add(c) \/ ClaimDown(c) \/ Delete(c) \/ ClearInstalled(c)
  PROVE  \A j \in Key : KeyInv(j)'
<1>0. TypeOK
  BY DEF IInv
<1>1. PICK k : k = calls[c].key
  OBVIOUS
<1>2. calls[c] # Idle /\ calls[c] \in Callback /\ k \in Key
  BY <1>0, <1>1 DEF ClaimUp, Add, ClaimDown, Delete, ClearInstalled, TypeOK, Idle, Callback
<1>3. Works(c, k)
  BY <1>1, <1>2 DEF Works
<1>4. /\ CallStage(c, k) /\ ~Serving(k)
      /\ \A d \in DOMAIN calls : d # c => ~Works(d, k)
  BY <1>2, <1>3, Zenon DEF KeyInv
<1>5. UNCHANGED <<desired, table, sess, caller>>
  BY DEF ClaimUp, Add, ClaimDown, Delete, ClearInstalled
<1>6. \A j : StateOf(j)' = StateOf(j)
  BY <1>5, StateSame
<1>7. \A j \in Key \ {k} : /\ (j \in installed)' <=> j \in installed
                           /\ (j \in kernel)' <=> j \in kernel
  BY <1>1 DEF ClaimUp, Add, ClaimDown, Delete, ClearInstalled, KernelOps
<1>8. Elsewhere(k)
  BY <1>5, <1>6, <1>7 DEF Elsewhere
<1>9. ASSUME Goto(c, "idle"), Settled(k)' PROVE \A j \in Key : KeyInv(j)'
  <2>1. calls' = [calls EXCEPT ![c] = Idle]
    BY <1>9 DEF Goto
  <2> QED
    BY <1>1, <1>2, <1>4, <1>5, <1>8, <1>9, <2>1, CallMove, Zenon
<1>10. ASSUME NEW pc \in {"add", "del", "clear"}, Goto(c, pc),
              calls'[c].pc = pc /\ calls'[c].do = calls[c].do => CallStage(c, k)'
       PROVE  \A j \in Key : KeyInv(j)'
  <2>1. PICK v : v = [calls[c] EXCEPT !.pc = pc]
    BY Zenon
  <2>2. v.pc = pc /\ v.do = calls[c].do /\ v.key = k /\ v # Idle
    BY <1>1, <1>2, <2>1 DEF Callback, Idle
  <2>3. calls' = [calls EXCEPT ![c] = v]
    BY <1>10, <2>1, Zenon DEF Goto
  <2>4. calls'[c] = v
    BY <2>3
  <2>5. CallStage(c, k)'
    BY <1>10, <2>2, <2>4
  <2> QED
    BY <1>1, <1>2, <1>4, <1>5, <1>8, <2>2, <2>3, <2>5, CallMove, Zenon
<1>11. CASE ClaimUp(c)
  <2>1. calls[c].pc = "start" /\ calls[c].do = "up"
    BY <1>11 DEF ClaimUp
  <2>2. Goto(c, "add") /\ installed' = installed \cup {k} /\ kernel' = kernel
    BY <1>1, <1>4, <1>11, <2>1 DEF ClaimUp, CallStage, Undisturbed
  <2>3. calls'[c].pc = "add" /\ calls'[c].do = calls[c].do => CallStage(c, k)'
    BY <1>4, <1>5, <1>6, <2>1, <2>2 DEF CallStage
  <2> QED
    BY <1>10, <2>2, <2>3
<1>12. CASE Add(c)
  <2>1. calls[c].pc = "add" /\ Goto(c, "idle") /\ kernel' = kernel \cup {k} /\ installed' = installed
    BY <1>1, <1>12 DEF Add, KernelOps, Undisturbed
  <2>2. Settled(k)'
    BY <1>4, <1>5, <1>6, <2>1 DEF CallStage, Settled
  <2> QED
    BY <1>9, <2>1, <2>2
<1>13. CASE ClaimDown(c)
  <2>1. /\ calls[c].pc = "start" /\ calls[c].do # "up"
        /\ installed' = installed \ {k} /\ kernel' = kernel
        /\ Goto(c, IF k \in installed THEN "del" ELSE After(c))
    BY <1>1, <1>4, <1>13 DEF ClaimDown, CallStage, Undisturbed
  <2>2. CASE k \in installed
    <3>1. calls'[c].pc = "del" /\ calls'[c].do = calls[c].do => CallStage(c, k)'
      BY <1>4, <1>5, <1>6, <2>1 DEF CallStage
    <3> QED
      BY <1>10, <2>1, <2>2, <3>1
  <2>3. CASE k \notin installed /\ calls[c].do = "admin"
    <3>1. calls'[c].pc = "clear" /\ calls'[c].do = calls[c].do => CallStage(c, k)'
      BY <1>4, <1>5, <1>6, <2>1, <2>3 DEF CallStage
    <3> QED
      BY <1>10, <2>1, <2>3, <3>1 DEF After
  <2>4. CASE k \notin installed /\ calls[c].do # "admin"
    <3>1. Settled(k)'
      BY <1>4, <1>5, <1>6, <2>1, <2>4 DEF CallStage, Settled
    <3> QED
      BY <1>9, <2>1, <2>4, <3>1 DEF After
  <2> QED
    BY <2>2, <2>3, <2>4
<1>14. CASE Delete(c)
  <2>1. calls[c].pc = "del" /\ Goto(c, After(c)) /\ kernel' = kernel \ {k} /\ installed' = installed
    BY <1>1, <1>14 DEF Delete, KernelOps, Undisturbed
  <2>2. CASE calls[c].do = "admin"
    <3>1. calls'[c].pc = "clear" /\ calls'[c].do = calls[c].do => CallStage(c, k)'
      BY <1>4, <1>5, <1>6, <2>1, <2>2 DEF CallStage
    <3> QED
      BY <1>10, <2>1, <2>2, <3>1 DEF After
  <2>3. CASE calls[c].do # "admin"
    <3>1. Settled(k)'
      BY <1>4, <1>5, <1>6, <2>1 DEF CallStage, Settled
    <3> QED
      BY <1>9, <2>1, <2>3, <3>1 DEF After
  <2> QED
    BY <2>2, <2>3
<1>15. CASE ClearInstalled(c)
  <2>1. calls[c].pc = "clear" /\ Goto(c, "idle") /\ kernel' = kernel /\ installed' = installed \ {k}
    BY <1>1, <1>15 DEF ClearInstalled
  <2>2. Settled(k)'
    BY <1>4, <1>5, <1>6, <2>1 DEF CallStage, Settled
  <2> QED
    BY <1>9, <2>1, <2>2
<1> QED
  BY <1>11, <1>12, <1>13, <1>14, <1>15

\* Sessions are made where the table has none and leave it when they die.
LEMMA AliveStep ==
  ASSUME IInv, AliveManaged, Next
  PROVE  AliveManaged'
<1>0. TypeOK /\ Monitored /\ mode.routes \subseteq Key
  BY ManagerAssumption DEF IInv, TypeOK
<1>1. DOMAIN sess = 1 .. Len(sess) /\ Len(sess) \in Nat /\ table \in [Key -> 0 .. Len(sess)]
  BY <1>0 DEF TypeOK
<1>2. \A s \in DOMAIN sess : sess[s].key \in Key
  BY <1>0, SessionShape DEF Session
<1>3. ASSUME table' = table, DOMAIN sess' = DOMAIN sess,
             \A s \in DOMAIN sess : sess'[s].key = sess[s].key /\ sess'[s].alive = sess[s].alive
      PROVE  AliveManaged'
  BY <1>3, Zenon DEF AliveManaged
<1>4. CASE MakeSession /\ table[caller.key] = 0
  <2>1. PICK k : k = caller.key
    OBVIOUS
  <2>2. PICK new : /\ sess' = Append(sess, new) /\ table' = [table EXCEPT ![k] = Len(sess) + 1]
                   /\ new.key = k
    BY <1>4, <2>1 DEF MakeSession
  <2>3. k \in Key
    BY <1>0, <1>4, <2>1, CallerShape DEF MakeSession, TypeOK, Idle
  <2>4. /\ DOMAIN sess' = 1 .. Len(sess) + 1 /\ sess'[Len(sess) + 1] = new
        /\ \A i \in 1 .. Len(sess) : sess'[i] = sess[i]
    BY <1>0, <2>2 DEF TypeOK
  <2>5. /\ table'[k] = Len(sess) + 1
        /\ \A j \in Key : j # k => table'[j] = table[j]
    BY <1>1, <2>2, <2>3
  <2>6. ASSUME NEW s \in DOMAIN sess, sess[s].alive PROVE sess[s].key # k
    BY <1>1, <1>4, <2>1, <2>6 DEF AliveManaged
  <2>7. ASSUME NEW s \in DOMAIN sess', sess'[s].alive PROVE table'[sess'[s].key] = s
    <3>1. CASE s = Len(sess) + 1
      BY <2>2, <2>4, <2>5, <3>1
    <3>2. CASE s # Len(sess) + 1
      <4>1. s \in DOMAIN sess /\ sess'[s] = sess[s]
        BY <1>1, <2>4, <2>7, <3>2
      <4> QED
        BY <1>2, <2>5, <2>6, <2>7, <4>1 DEF AliveManaged
    <3> QED
      BY <3>1, <3>2
  <2> QED
    BY <2>7 DEF AliveManaged
<1>5. CASE KillSession
  <2>1. PICK k : k = caller.key
    OBVIOUS
  <2>2. /\ table' = [table EXCEPT ![k] = 0]
        /\ sess' = [s \in DOMAIN sess |->
                      IF s = table[k] THEN [sess[s] EXCEPT !.alive = FALSE] ELSE sess[s]]
    BY <1>5, <2>1 DEF KillSession
  <2>3. ASSUME NEW s \in DOMAIN sess', sess'[s].alive PROVE table'[sess'[s].key] = s
    <3>1. s \in DOMAIN sess /\ sess[s] \in Session
      BY <1>0, <2>2, SessionShape
    <3>2. s # table[k]
      BY <2>2, <2>3, <3>1 DEF Session
    <3>3. sess'[s] = sess[s]
      BY <2>2, <3>1, <3>2
    <3>4. table[sess[s].key] = s /\ sess[s].key # k
      BY <2>3, <3>1, <3>2, <3>3 DEF AliveManaged
    <3> QED
      BY <1>1, <1>2, <2>2, <3>1, <3>3, <3>4
  <2> QED
    BY <2>3 DEF AliveManaged
<1>6. ASSUME NEW s \in DOMAIN sess, NEW to, NEW passive,
             \/ sess' = [sess EXCEPT ![s].state = to, ![s].passive = passive]
             \/ sess' = [sess EXCEPT ![s].state = to],
             table' = table
      PROVE  AliveManaged'
  <2>1. ASSUME NEW i \in DOMAIN sess
        PROVE  sess'[i].key = sess[i].key /\ sess'[i].alive = sess[i].alive
    <3>1. sess[i] \in Session
      BY <1>0, SessionShape
    <3> QED
      BY <1>6, <3>1 DEF Session
  <2>2. DOMAIN sess' = DOMAIN sess
    BY <1>6
  <2> QED
    BY <1>3, <1>6, <2>1, <2>2
<1>7. ASSUME NEW s \in DOMAIN sess, NEW to, NEW passive, Rx(s, to, passive) PROVE AliveManaged'
  BY <1>6, <1>7, Zenon DEF Rx
<1>8. ASSUME NEW s \in DOMAIN sess, Timeout(s) PROVE AliveManaged'
  BY <1>6, <1>8, Zenon DEF Timeout
<1>9. ASSUME NEW k \in Key, AdminDownRoute(k) PROVE AliveManaged'
  <2>1. table[k] \in DOMAIN sess
    BY <1>1, <1>9 DEF AdminDownRoute
  <2> QED
    BY <1>6, <1>9, <2>1, Zenon DEF AdminDownRoute
<1>10. CASE UNCHANGED <<table, sess>>
  BY <1>10, <1>3, Zenon
<1>11. MakeSession => UNCHANGED <<table, sess>> \/ table[caller.key] = 0
  BY DEF MakeSession
<1>12. ASSUME NEW k, Register(k) \/ Withdraw(k) PROVE UNCHANGED <<table, sess>>
  BY <1>12, Zenon DEF Register, Withdraw
<1>13. MarkInstalled \/ Want \/ Forget \/ DeleteWithdrawn => UNCHANGED <<table, sess>>
  BY Zenon DEF MarkInstalled, Want, Forget, DeleteWithdrawn
<1>14. ASSUME NEW c, ClaimUp(c) \/ Add(c) \/ ClaimDown(c) \/ Delete(c) \/ ClearInstalled(c)
       PROVE  UNCHANGED <<table, sess>>
  BY <1>14, Zenon DEF ClaimUp, Add, ClaimDown, Delete, ClearInstalled
<1>15. ASSUME NEW k \in mode.routes, AdminDownRoute(k) PROVE AliveManaged'
  BY <1>0, <1>9, <1>15
<1> QED
  BY <1>4, <1>5, <1>7, <1>8, <1>10, <1>11, <1>12, <1>13, <1>14, <1>15, Zenon DEF Next

\* Every step keeps the routes as their sessions, or the work under way, say.
LEMMA SerialStep ==
  ASSUME IInv, AliveManaged, SerialInv, Next
  PROVE  SerialInv'
<1>1. mode' = mode
  BY Zenon DEF Next, Register, Withdraw, AdminDownRoute, MarkInstalled, Want,
         MakeSession, Forget, KillSession, DeleteWithdrawn, Rx, Timeout, ClaimUp, Add,
         ClaimDown, Delete, ClearInstalled
<1>2. SUFFICES ASSUME Undisturbed, \A j \in Key : KeyInv(j)
               PROVE  \A j \in Key : KeyInv(j)'
  BY <1>1 DEF SerialInv, Undisturbed
<1>3. TypeOK /\ Monitored /\ mode.routes \subseteq Key
  BY ManagerAssumption DEF IInv, TypeOK
<1>4. \A k : MayStart(k) => ~Busy(k)
  BY <1>2, Zenon DEF Undisturbed, MayStart
<1>5. \A i \in DOMAIN sess : sess[i] \in Session
  BY <1>3, SessionShape
<1>6. ASSUME NEW s \in DOMAIN sess, NEW to \in SState, NEW passive, Rx(s, to, passive)
      PROVE  \A j \in Key : KeyInv(j)'
  <2>1. PICK k : k = sess[s].key
    BY Zenon
  <2>2. PICK new : new = [sess[s] EXCEPT !.state = to, !.passive = passive]
    BY Zenon
  <2>3. new.state = to
    BY <1>5, <2>2 DEF Session
  <2>4. /\ table[k] = s /\ ~Busy(k)
        /\ UNCHANGED <<desired, installed, kernel, table, caller>>
    BY <1>4, <1>6, <2>1, Zenon DEF Rx, Managed
  <2>5. sess' = [sess EXCEPT ![s] = new]
    <3>1. sess' = [sess EXCEPT ![s].state = to, ![s].passive = passive]
      BY <1>6, Zenon DEF Rx
    <3>2. sess' = [sess EXCEPT ![s] = [sess[s] EXCEPT !.state = to, !.passive = passive]]
      BY <3>1
    <3> QED
      BY <2>2, <3>2, Zenon
  <2>6. \/ calls' = calls /\ (to = "Up" <=> sess[s].state = "Up")
        \/ Spawn("up", s) /\ to = "Up" /\ sess[s].state # "Up"
        \/ Spawn("down", s) /\ to # "Up"
    BY <1>6 DEF Rx
  <2>7. Follows(s, new)
    BY <2>3, <2>6 DEF Follows
  <2> QED
    BY <1>2, <2>1, <2>4, <2>5, <2>7, SerialEvent, Zenon
<1>7. ASSUME NEW s \in DOMAIN sess, Timeout(s) PROVE \A j \in Key : KeyInv(j)'
  <2>1. PICK k : k = sess[s].key
    BY Zenon
  <2>2. PICK new : new = [sess[s] EXCEPT !.state = "Down"]
    BY Zenon
  <2>3. new.state # "Up"
    BY <1>5, <2>2 DEF Session
  <2>4. /\ table[k] = s /\ ~Busy(k) /\ sess' = [sess EXCEPT ![s] = new] /\ Spawn("down", s)
        /\ UNCHANGED <<desired, installed, kernel, table, caller>>
    BY <1>4, <1>7, <2>1, <2>2 DEF Timeout, AliveManaged
  <2>5. Follows(s, new)
    BY <2>3, <2>4 DEF Follows
  <2> QED
    BY <1>2, <2>1, <2>4, <2>5, SerialEvent, Zenon
<1>8. ASSUME NEW k \in mode.routes, AdminDownRoute(k) PROVE \A j \in Key : KeyInv(j)'
  <2>1. PICK s : s = table[k]
    BY Zenon
  <2>2. s \in DOMAIN sess /\ k = sess[s].key
    BY <1>3, <1>8, <2>1 DEF AdminDownRoute, TypeOK, Monitored
  <2>3. PICK new : new = [sess[s] EXCEPT !.state = "AdminDown"]
    BY Zenon
  <2>4. new.state # "Up"
    BY <1>5, <2>2, <2>3 DEF Session
  <2>5. /\ ~Busy(k) /\ sess' = [sess EXCEPT ![s] = new] /\ Spawn("admin", s)
        /\ UNCHANGED <<desired, installed, kernel, table, caller>>
    BY <1>4, <1>8, <2>1, <2>3 DEF AdminDownRoute
  <2>6. Follows(s, new)
    BY <2>4, <2>5 DEF Follows
  <2> QED
    BY <1>2, <2>1, <2>2, <2>5, <2>6, SerialEvent, Zenon
<1>9. ASSUME NEW k \in mode.routes, Register(k) \/ Withdraw(k) PROVE \A j \in Key : KeyInv(j)'
  BY <1>2, <1>3, <1>9, SerialRegister, SerialWithdraw
<1>10. CASE MarkInstalled \/ Want \/ MakeSession \/ Forget \/ KillSession \/ DeleteWithdrawn
  BY <1>2, <1>10, SerialRegister, SerialWithdraw, Zenon
<1>11. ASSUME NEW c \in DOMAIN calls,
              ClaimUp(c) \/ Add(c) \/ ClaimDown(c) \/ Delete(c) \/ ClearInstalled(c)
       PROVE  \A j \in Key : KeyInv(j)'
  BY <1>2, <1>11, SerialCallback, Zenon
<1> QED
  BY <1>6, <1>7, <1>8, <1>9, <1>10, <1>11, Zenon DEF Next

\* Where a route's callbacks do not overlap, the kernel does not fail and no
\* configuration keeps routes, the kernel holds a route exactly while its
\* session is Up whenever nothing is under way for it: for any number of routes
\* and sessions, and also after AdminDownRoute, withdrawals and registrations.
THEOREM ManagerSerialKernelFollowsSession == Spec => []SerialKernelFollowsSession
<1>1. Init => AliveManaged /\ SerialInv
  <2> SUFFICES ASSUME Init PROVE AliveManaged /\ \A k \in Key : KeyInv(k)
    BY DEF SerialInv
  <2>1. AliveManaged
    BY DEF Init, AliveManaged
  <2>2. ASSUME NEW k \in Key PROVE KeyInv(k)
    BY DEF Init, KeyInv, Serving, Works, Settled
  <2> QED
    BY <2>1, <2>2
<1>2. IInv /\ AliveManaged /\ SerialInv /\ [Next]_vars => AliveManaged' /\ SerialInv'
  <2>1. ASSUME AliveManaged, SerialInv, UNCHANGED vars PROVE AliveManaged' /\ SerialInv'
    <3>1. UNCHANGED <<mode, desired, installed, kernel, table, sess, calls, caller>>
      BY <2>1 DEF vars
    <3>2. AliveManaged'
      BY <2>1, <3>1, Zenon DEF AliveManaged
    <3>3. Undisturbed' <=> Undisturbed
      BY <3>1, Zenon DEF Undisturbed
    <3>4. /\ \A j : StateOf(j)' = StateOf(j)
          /\ \A j : Serving(j)' <=> Serving(j)
          /\ \A c, j : Works(c, j)' <=> Works(c, j)
      BY <3>1, StateSame, Zenon DEF Serving, Works
    <3>5. ASSUME NEW j \in Key, KeyInv(j) PROVE KeyInv(j)'
      BY <3>1, <3>4, <3>5, KeyFrame, Zenon
    <3> QED
      BY <2>1, <3>2, <3>3, <3>5, Zenon DEF SerialInv
  <2> QED
    BY <2>1, AliveStep, SerialStep
<1>3. IInv /\ SerialInv => SerialKernelFollowsSession
  <2> SUFFICES ASSUME IInv, SerialInv, Undisturbed, NEW k \in Key, ~Busy(k)
               PROVE  /\ k \in desired => (k \in kernel <=> Watched(k).state = "Up")
                      /\ k \notin desired => k \notin kernel
                      /\ k \in kernel <=> k \in installed
    BY DEF SerialKernelFollowsSession, KernelFollowsSession
  <2>1. Settled(k) /\ ~Serving(k)
    BY KeyFacts DEF SerialInv
  <2>2. k \in desired => table[k] # 0
    BY <2>1 DEF IInv, Monitored, Serving, Idle
  <2> QED
    BY <2>1, <2>2 DEF Settled, StateOf, Watched
<1> QED
  BY <1>1, <1>2, <1>3, ManagerInvariant, PTL DEF Spec

=============================================================================
