------------------------------ MODULE BgpServer ------------------------------
(***************************************************************************)
(* doublezerod's BGP server for one peer address: AddPeer and DeletePeer,  *)
(* the plugin called back by the peer's state machine, the session timeout *)
(* goroutines and the consumer of the status channel.                      *)
(*                                                                         *)
(* The channel is unbuffered: senders queue up, in order, and stay blocked *)
(* until the consumer takes their event.                                   *)
(***************************************************************************)
EXTENDS Naturals, Sequences

CONSTANTS
  Prefix,       \* prefixes the peer may announce
  Mode,         \* environments: [again, hasty, adds, ups], see below
  None

VARIABLES
  mode,         \* adds, ups: bounds on calls of AddPeer and on sessions
                \* again: AddPeer is called although the peer exists
                \* hasty: DeletePeer overtakes a timeout past its last check
  plug,         \* plugins created so far
  timer,        \* session timeouts started so far, with their plugin
  fsm,          \* the peer in corebgp: its plugin and where it is
  ups,          \* sessions established so far
  api,          \* the caller of AddPeer and DeletePeer
  chan,         \* blocked senders of peerStatusChan and their events
  hold,         \* event the consumer has taken and not stored
  lock,         \* peerStatusLock is held across a call
  status,       \* peerStatus entry of the peer
  registered,   \* peerPlugins entry of the peer: an index of plug, or 0
  routes        \* routes via the peer in the kernel

vars == <<mode, plug, timer, fsm, ups, api, chan, hold, lock, status, registered, routes>>

Status == {"pending", "initializing", "up", "down", "failed", "unreachable"}

ASSUME BgpAssumption ==
  /\ \A m \in Mode : m.adds \in Nat /\ m.ups \in Nat
  /\ None \notin Status

NoPeer == [pc |-> "none", plug |-> 0, stop |-> FALSE]

Init ==
  /\ mode \in Mode
  /\ plug = <<>> /\ timer = <<>>
  /\ fsm = NoPeer /\ ups = 0
  /\ api = "idle"
  /\ chan = <<>> /\ hold = None /\ lock = FALSE
  /\ status = None /\ registered = 0
  /\ routes = {}

Caller == <<"api", 0>>
Machine == <<"fsm", 0>>

Send(who, s) == chan' = Append(chan, [from |-> who, status |-> s])
Blocked(who) == \E i \in DOMAIN chan : chan[i].from = who

\* The timeouts of plugin p with the armed one cancelled; one that has left
\* its select is not stopped any more.
Cancelled(p) ==
  [i \in DOMAIN timer |->
     IF timer[i].plug = p /\ timer[i].stage = "armed"
     THEN [timer[i] EXCEPT !.stage = "ended"] ELSE timer[i]]

\* startSessionTimeout
Restarted(p) == Append(Cancelled(p), [plug |-> p, stage |-> "armed", what |-> "none"])

\* A timeout of p holds the plugin's mutex.
InSection(p) ==
  \E i \in DOMAIN timer : timer[i].plug = p /\ timer[i].stage \in {"checked", "sending"}
-----------------------------------------------------------------------------
\* AddPeer: a new plugin; Pending is sent first.
AddPeer ==
  /\ api = "idle" /\ Len(plug) < mode.adds
  /\ fsm.plug # 0 => mode.again
  /\ plug' = Append(plug, [tcp |-> FALSE, est |-> FALSE, deleted |-> FALSE])
  /\ Send(Caller, "pending")
  /\ api' = "adding"
  /\ UNCHANGED <<mode, timer, fsm, ups, hold, lock, status, registered, routes>>

\* Then the timeout is started and corebgp asked; it refuses a second peer.
AddToServer ==
  /\ api = "adding" /\ ~Blocked(Caller)
  /\ timer' = Restarted(Len(plug))
  /\ IF fsm.plug # 0 THEN api' = "idle" /\ UNCHANGED fsm
     ELSE /\ api' = "storing"
          /\ fsm' = [pc |-> "idle", plug |-> Len(plug), stop |-> FALSE]
  /\ UNCHANGED <<mode, plug, ups, chan, hold, lock, status, registered, routes>>

AddStore ==
  /\ api = "storing"
  /\ registered' = Len(plug)
  /\ api' = "idle"
  /\ UNCHANGED <<mode, plug, timer, fsm, ups, chan, hold, lock, status, routes>>

\* Mutant: the lock is kept until corebgp has removed the peer.
DeletePeerLocked ==
  /\ api = "idle" /\ registered # 0
  /\ plug' = [plug EXCEPT ![registered].deleted = TRUE]
  /\ timer' = Cancelled(registered)
  /\ registered' = 0 /\ status' = None /\ lock' = TRUE
  /\ api' = "deleting"
  /\ UNCHANGED <<mode, fsm, ups, chan, hold, routes>>

\* DeletePeer: MarkDeleted and the two map entries, then corebgp.
DeletePeer ==
  /\ api = "idle" /\ registered # 0
  /\ InSection(registered) => mode.hasty
  /\ plug' = [plug EXCEPT ![registered].deleted = TRUE]
  /\ timer' = Cancelled(registered)
  /\ registered' = 0 /\ status' = None
  /\ api' = "deleting"
  /\ UNCHANGED <<mode, fsm, ups, chan, hold, lock, routes>>

\* corebgp ends the state machine and waits for it.
DeleteFromServer ==
  /\ api = "deleting"
  /\ IF fsm.pc = "stopped" THEN fsm' = NoPeer /\ api' = "idle" /\ lock' = FALSE
     ELSE ~fsm.stop /\ fsm' = [fsm EXCEPT !.stop = TRUE] /\ UNCHANGED <<api, lock>>
  /\ UNCHANGED <<mode, plug, timer, ups, chan, hold, status, registered, routes>>
-----------------------------------------------------------------------------
\* The connection comes up: GetCapabilities.
GetCapabilities ==
  /\ fsm.pc = "idle" /\ ~fsm.stop
  /\ plug' = [plug EXCEPT ![fsm.plug].tcp = TRUE]
  /\ Send(Machine, "pending")
  /\ fsm' = [fsm EXCEPT !.pc = "connected"]
  /\ UNCHANGED <<mode, timer, ups, api, hold, lock, status, registered, routes>>

\* The peer's OPEN arrives: OnOpenMessage.
OnOpenMessage ==
  /\ fsm.pc = "connected" /\ ~Blocked(Machine) /\ ~fsm.stop
  /\ Send(Machine, "initializing")
  /\ fsm' = [fsm EXCEPT !.pc = "opened"]
  /\ UNCHANGED <<mode, plug, timer, ups, api, hold, lock, status, registered, routes>>

\* The handshake fails; no callback.
HandshakeFails ==
  /\ fsm.pc \in {"connected", "opened"} /\ ~Blocked(Machine)
  /\ fsm' = [fsm EXCEPT !.pc = "idle"]
  /\ UNCHANGED <<mode, plug, timer, ups, api, chan, hold, lock, status, registered, routes>>

\* Mutant: the flag is set without the mutex.
OnEstablishedUnlocked ==
  /\ fsm.pc = "opened" /\ ~Blocked(Machine) /\ ups < mode.ups
  /\ plug' = [plug EXCEPT ![fsm.plug].est = TRUE]
  /\ timer' = Cancelled(fsm.plug)
  /\ Send(Machine, "up")
  /\ ups' = ups + 1
  /\ fsm' = [fsm EXCEPT !.pc = "up"]
  /\ UNCHANGED <<mode, api, hold, lock, status, registered, routes>>

\* OnEstablished: the flag under the mutex, the timeout cancelled, Up sent.
OnEstablished ==
  /\ fsm.pc = "opened" /\ ~Blocked(Machine) /\ ups < mode.ups
  /\ ~InSection(fsm.plug)
  /\ plug' = [plug EXCEPT ![fsm.plug].est = TRUE]
  /\ timer' = Cancelled(fsm.plug)
  /\ Send(Machine, "up")
  /\ ups' = ups + 1
  /\ fsm' = [fsm EXCEPT !.pc = "up"]
  /\ UNCHANGED <<mode, api, hold, lock, status, registered, routes>>

\* handleUpdate: withdrawals, then announcements, with the peer as next hop.
HandleUpdate ==
  /\ fsm.pc = "up" /\ ~Blocked(Machine)
  /\ \E w, n \in SUBSET Prefix : routes' = (routes \ w) \cup n
  /\ UNCHANGED <<mode, plug, timer, fsm, ups, api, chan, hold, lock, status, registered>>

\* Mutant: no Down for a peer that is being deleted.
OnCloseSilent ==
  /\ fsm.pc = "up" /\ ~Blocked(Machine)
  /\ timer' = Cancelled(fsm.plug)
  /\ plug' = [plug EXCEPT ![fsm.plug].est = FALSE]
  /\ IF plug[fsm.plug].deleted THEN UNCHANGED chan ELSE Send(Machine, "down")
  /\ fsm' = [fsm EXCEPT !.pc = "closing"]
  /\ UNCHANGED <<mode, ups, api, hold, lock, status, registered, routes>>

\* The session ends: OnClose up to its send.
OnClose ==
  /\ fsm.pc = "up" /\ ~Blocked(Machine)
  /\ timer' = Cancelled(fsm.plug)
  /\ plug' = [plug EXCEPT ![fsm.plug].est = FALSE]
  /\ Send(Machine, "down")
  /\ fsm' = [fsm EXCEPT !.pc = "closing"]
  /\ UNCHANGED <<mode, ups, api, hold, lock, status, registered, routes>>

\* The routes via the peer are flushed and the deleted flag is read.
CloseFlush ==
  /\ fsm.pc = "closing" /\ ~Blocked(Machine)
  /\ routes' = {}
  /\ fsm' = [fsm EXCEPT !.pc = IF plug[fsm.plug].deleted THEN "idle" ELSE "rearm"]
  /\ UNCHANGED <<mode, plug, timer, ups, api, chan, hold, lock, status, registered>>

\* A new timeout, although the peer may have been deleted since.
CloseRearm ==
  /\ fsm.pc = "rearm"
  /\ timer' = Restarted(fsm.plug)
  /\ fsm' = [fsm EXCEPT !.pc = "idle"]
  /\ UNCHANGED <<mode, plug, ups, api, chan, hold, lock, status, registered, routes>>

\* corebgp ends the state machine between callbacks.
FsmStops ==
  /\ fsm.stop /\ fsm.pc \in {"idle", "connected", "opened"} /\ ~Blocked(Machine)
  /\ fsm' = [fsm EXCEPT !.pc = "stopped"]
  /\ UNCHANGED <<mode, plug, timer, ups, api, chan, hold, lock, status, registered, routes>>
-----------------------------------------------------------------------------
SetStage(i, s) ==
  timer' = [timer EXCEPT ![i].stage = s,
                         ![i].what = IF s = "ended" THEN "none" ELSE @]

\* Thirty seconds have passed.
Fire(i) ==
  /\ timer[i].stage = "armed"
  /\ SetStage(i, "fired")
  /\ UNCHANGED <<mode, plug, fsm, ups, api, chan, hold, lock, status, registered, routes>>

\* Mutant: only a peer that was never reached is reported.
CheckUnreachableOnly(i) ==
  LET p == plug[timer[i].plug] IN
  /\ timer[i].stage = "fired" /\ ~InSection(timer[i].plug)
  /\ IF p.deleted \/ p.est \/ p.tcp THEN SetStage(i, "ended")
     ELSE timer' = [timer EXCEPT ![i].stage = "checked", ![i].what = "unreachable"]
  /\ UNCHANGED <<mode, plug, fsm, ups, api, chan, hold, lock, status, registered, routes>>

\* emitTimeoutStatus: the checks, under the mutex.
Check(i) ==
  LET p == plug[timer[i].plug] IN
  /\ timer[i].stage = "fired" /\ ~InSection(timer[i].plug)
  /\ IF p.deleted \/ p.est THEN SetStage(i, "ended")
     ELSE timer' = [timer EXCEPT ![i].stage = "checked",
                      ![i].what = IF p.tcp THEN "failed" ELSE "unreachable"]
  /\ UNCHANGED <<mode, plug, fsm, ups, api, chan, hold, lock, status, registered, routes>>

\* Still under the mutex: the send.
Emit(i) ==
  /\ timer[i].stage = "checked"
  /\ SetStage(i, "sending")
  /\ Send(<<"timer", i>>, timer[i].what)
  /\ UNCHANGED <<mode, plug, fsm, ups, api, hold, lock, status, registered, routes>>

Emitted(i) ==
  /\ timer[i].stage = "sending" /\ ~Blocked(<<"timer", i>>)
  /\ SetStage(i, "ended")
  /\ UNCHANGED <<mode, plug, fsm, ups, api, chan, hold, lock, status, registered, routes>>

\* The goroutine of Serve.
Take ==
  /\ hold = None /\ chan # <<>>
  /\ hold' = Head(chan).status
  /\ chan' = Tail(chan)
  /\ UNCHANGED <<mode, plug, timer, fsm, ups, api, lock, status, registered, routes>>

Store ==
  /\ hold # None /\ ~lock
  /\ status' = hold /\ hold' = None
  /\ UNCHANGED <<mode, plug, timer, fsm, ups, api, chan, lock, registered, routes>>
-----------------------------------------------------------------------------
Api == AddToServer \/ AddStore \/ DeleteFromServer
Callback == OnEstablished \/ OnClose \/ CloseFlush \/ CloseRearm \/ FsmStops
Timeout(i) == Fire(i) \/ Check(i) \/ Emit(i) \/ Emitted(i)
Consumer == Take \/ Store

Next ==
  \/ AddPeer \/ DeletePeer \/ Api
  \/ GetCapabilities \/ OnOpenMessage \/ HandshakeFails \/ HandleUpdate \/ Callback
  \/ \E i \in DOMAIN timer : Timeout(i)
  \/ Consumer

Timers == UNION {1 .. m.adds + m.ups : m \in Mode}

\* Goroutines are scheduled and time passes; connections and sessions need not
\* come up, but one that is to be stopped closes.
Fairness ==
  /\ WF_vars(Api) /\ WF_vars(Consumer)
  /\ WF_vars(CloseFlush \/ CloseRearm \/ (fsm.stop /\ OnClose))
  /\ WF_vars(FsmStops)
  /\ \A i \in Timers : WF_vars(i \in DOMAIN timer /\ Timeout(i))

Spec == Init /\ [][Next]_vars /\ Fairness
-----------------------------------------------------------------------------
TypeOK ==
  /\ Len(plug) <= mode.adds /\ Len(timer) <= mode.adds + mode.ups
  /\ fsm.plug \in 0 .. Len(plug) /\ registered \in 0 .. Len(plug)
  /\ \A i \in DOMAIN chan : chan[i].status \in Status
  /\ status \in Status \cup {None} /\ hold \in Status \cup {None}
  /\ routes \subseteq Prefix
  /\ ups \in 0 .. mode.ups

Quiet == api = "idle" /\ chan = <<>> /\ hold = None
         /\ \A i \in DOMAIN timer : timer[i].stage \notin {"checked", "sending"}

\* Once every event has been consumed, the status the server shows is that of
\* the peer: one that has been deleted is not shown as Up by an event that was
\* still on its way to the map, and a running session is shown as Up, no
\* timeout, however late, having overwritten it.  The second holds where AddPeer
\* is called for new peers only and no deletion overtakes a timeout in its
\* critical section.
StatusMatchesPeer ==
  /\ TypeOK
  /\ Quiet /\ fsm = NoPeer => status # "up"
  /\ Quiet /\ ~mode.again /\ ~mode.hasty /\ fsm.pc = "up" => status = "up"

\* AddPeer and DeletePeer return, although the callbacks, the timeouts and the
\* callers wait for one channel, two locks and each other.
CallsReturn == []<>(api = "idle")

\* While a peer's session timeout runs, a report is to come: up, failed or
\* unreachable, unless the peer is deleted.
OutcomeReported ==
  \A i \in Timers :
    (i \in DOMAIN timer /\ timer[i].stage = "armed" /\ timer[i].plug = fsm.plug)
      ~> (status \in {"up", "failed", "unreachable"} \/ fsm = NoPeer)
=============================================================================
