---------------------------- MODULE Serviceability ----------------------------
(***************************************************************************)
(* The ledger as a whole: every instruction of Registry, Membership and    *)
(* Geolocation in any order, with the agent of a probe beside them, from a *)
(* state in which the devices of the environment already stand.  An        *)
(* environment (Mode) fixes                                                *)
(*   keys      the accounts instructions may name                          *)
(*   passIps   the client addresses of passes                              *)
(*   targets   the targets of geolocation users                            *)
(*   ops       the instruction families in use                             *)
(*   racked    the devices that exist at the start                         *)
(*   careful   whether callers avoid the calls that the README lists under *)
(*             "Known deviations"                                          *)
(*   dz, ids, sizes   the sizes of the pools                               *)
(*   caps      the limits operators set, maxUsers the one of the racked    *)
(*   maxRefs, maxUpdates   bounds on reference and update counts           *)
(* At some point the operators stop building and take everything down.     *)
(***************************************************************************)
EXTENDS Membership, GeoAgent

VARIABLE phase   \* "live", then "drain"

vars == <<registry, membership, geolocation, agent, mode, phase>>

Key(S) == S \cap mode.keys
Op(family) == family \in mode.ops

Ups == {u \in Users : u[1] \in mode.ips /\ u[2] \in mode.types}
PassKeys == {p \in Passes : p[1] \in mode.passIps /\ p[2] \in mode.keys}
RoleSets == SUBSET {"pubs", "subs"}

-----------------------------------------------------------------------------
(* The start: places and racked devices, with the counts they imply.       *)

Place(S) ==
  [s \in S |-> IF s \in mode.keys /\ mode.racked # {} THEN NewCounted
               ELSE [NewCounted EXCEPT !.st = "none"]]

\* The first key of a kind, where the racked devices are.
Home(S) == CHOOSE s \in Key(S) : TRUE

Racked(d) ==
  [NewDevice(d, Home(Contributors), Home(Locations), Home(Exchanges))
   EXCEPT !.max.users = mode.maxUsers,
          !.ifs = [i \in IfNames |-> IF i \in mode.keys THEN NewIf ELSE NoIf]]

Absent(d) ==
  [NewDevice(d, NoKey, NoKey, NoKey) EXCEPT !.st = "none"]

Init ==
  /\ mode \in Mode
  /\ phase = "live"
  /\ contributor = [c \in Contributors |->
       IF mode.racked # {} /\ c = Home(Contributors)
       THEN [NewCounted EXCEPT !.refs = Cardinality(mode.racked)] ELSE Place(Contributors)[c]]
  /\ location = [l \in Locations |->
       IF mode.racked # {} /\ l = Home(Locations)
       THEN [NewCounted EXCEPT !.refs = Cardinality(mode.racked)] ELSE Place(Locations)[l]]
  /\ exchange = [x \in Exchanges |->
       [st |-> IF mode.racked # {} /\ x \in mode.keys THEN "Activated" ELSE "none",
        refs |-> IF mode.racked # {} /\ x = Home(Exchanges) THEN Cardinality(mode.racked) ELSE 0,
        slot |-> <<NoKey, NoKey>>]]
  /\ device = [d \in Devices |-> IF d \in mode.racked THEN Racked(d) ELSE Absent(d)]
  /\ link = [k \in Links |-> NoLink]
  /\ topology = [t \in Topologies |-> [st |-> "none", refs |-> 0, bit |-> 0]]
  /\ pool = [devTunnel |-> NewPool(100, mode.sizes.devTunnel),
             linkIds |-> NewPool(0, mode.sizes.linkIds),
             segs |-> NewPool(1, mode.sizes.segs),
             bits |-> NewPool(1, mode.sizes.bits),
             vrfs |-> NewPool(1, mode.sizes.vrfs),
             userTunnel |-> NewPool(200, mode.sizes.userTunnel),
             groupIps |-> NewPool(300, mode.sizes.groupIps),
             pubIps |-> NewPool(400, mode.sizes.pubIps)]
  /\ tenant = [t \in Tenants |-> [st |-> "none", refs |-> 0, vrf |-> 0]]
  /\ pass = [p \in Passes |-> NoPass]
  /\ group = [g \in Groups |-> [st |-> "none", ip |-> NoNet, pubs |-> 0, subs |-> 0]]
  /\ user = [u \in Users |-> NoUser]
  /\ probe = [p \in Probes |-> NoProbe]
  /\ guser = [u \in GeoUsers |-> NoGeoUser]
  /\ agent = NewAgent

-----------------------------------------------------------------------------
(* Building.                                                               *)

Places ==
  /\ Op("places")
  /\ \/ \E c \in Key(Contributors) : CreateContributor(c) \/ DeleteContributor(c)
     \/ \E l \in Key(Locations) : CreateLocation(l) \/ DeleteLocation(l)
     \/ \E x \in Key(Exchanges) : CreateExchange(x) \/ DeleteExchange(x)

Slots ==
  /\ Op("slots")
  /\ \E x \in Key(Exchanges), i \in 1..2, d \in Key(Devices) :
       SetDevice(x, i, d) \/ RemoveDevice(x, i, d)

DeviceOps ==
  /\ Op("devices")
  /\ \E d \in Key(Devices) :
       \/ \E c \in Key(Contributors), l \in Key(Locations), x \in Key(Exchanges) :
            CreateDevice(d, c, l, x)
       \/ UpdateDeviceStatus(d, "Drained") \/ UpdateDeviceStatus(d, "Activated")
       \/ \E l \in Key(Locations) : UpdateDeviceLocation(d, l)
       \/ \E c \in Key(Contributors) : UpdateDeviceContributor(d, c)
       \/ DeleteDevice(d) \/ DeleteDeviceLegacy(d)

\* Limits and address blocks of devices that serve users.
Limits ==
  /\ Op("limits")
  /\ \E d \in Key(Devices) :
       \/ \E f \in mode.fields, n \in mode.caps : UpdateDeviceMax(d, f, n)
       \/ UpdateDeviceDzPrefix(d, DzBase[d] + mode.dz)

Interfaces ==
  /\ Op("interfaces")
  /\ \E d \in Key(Devices), i \in Key(Physical) : CreateInterface(d, i) \/ DeleteInterface(d, i)

Loopbacks ==
  /\ Op("loopbacks")
  /\ \E d \in Key(Devices) :
       \/ \E T \in SUBSET Key(Topologies) : CreateLoopback(d, T) \/ UpdateLoopbackTopologies(d, T)
       \/ DeleteLoopback(d)
       \/ \E seg \in 0..pool.segs.size : UpdateLoopbackSegment(d, seg)
       \/ \E t \in Key(Topologies) : AssignNodeSegments(t, d)

TopologyOps ==
  /\ Op("topologies")
  /\ \E t \in Key(Topologies) :
       \/ CreateTopology(t) \/ DeleteTopology(t)
       \/ \E K \in SUBSET Key(Links) : ClearTopology(t, K)

LinkOps ==
  /\ Op("links")
  /\ \E k \in Key(Links) :
       \/ \E c \in Key(Contributors), a, z \in Key(Devices), ia, iz \in Key(Physical) :
            CreateLink(k, c, a, z, ia, iz) \/ CreateDzxLink(k, c, a, z, ia)
       \/ \E iz \in Key(Physical) : AcceptLink(k, iz)
       \/ \E s \in {"Activated", "Suspended"} : UpdateLinkStatus(k, s)
       \/ DeleteLink(k)

Renumber ==
  /\ Op("renumber")
  /\ \E k \in Key(Links) :
       \/ \E id \in 0..pool.linkIds.size - 1 : UpdateLinkId(k, id)
       \/ \E o \in 0..pool.devTunnel.size - 1 : UpdateLinkNet(k, pool.devTunnel.base + o)

Retag ==
  /\ Op("retag")
  /\ \E k \in Key(Links), T \in SUBSET Key(Topologies) : UpdateLinkTopologies(k, T)

TenantOps ==
  /\ Op("tenants")
  /\ \E t \in Key(Tenants) : CreateTenant(t) \/ DeleteTenant(t)

PassOps ==
  /\ Op("passes")
  /\ \E p \in PassKeys :
       \/ \E seat \in mode.seat, n \in mode.caps, rem, add \in Key(Tenants) \cup {NoKey} :
            SetAccessPass(p, seat, n, rem, add)
       \/ \E max \in [Feeds -> mode.feedCaps] : SetAccessPassFeeds(p, max)
       \/ CloseAccessPass(p) \/ CheckStatusAccessPass(p)

Allowlists ==
  /\ Op("allowlists")
  /\ \E p \in PassKeys, r \in {"pubs", "subs"}, g \in Key(Groups) :
       AddToAllowlist(p, r, g) \/ RemoveFromAllowlist(p, r, g)

GroupOps ==
  /\ Op("groups")
  /\ \E g \in Key(Groups) :
       \/ CreateGroup(g) \/ DeleteGroup(g)
       \/ SetGroupStatus(g, "Suspended") \/ SetGroupStatus(g, "Activated")
       \/ \E o \in 0..pool.groupIps.size - 1 : UpdateGroupIp(g, pool.groupIps.base + o)

UserOps ==
  /\ Op("users")
  /\ \E u \in Ups, p \in PassKeys :
       \/ \E d \in Key(Devices), ten \in Key(Tenants) \cup {NoKey} : CreateUser(u, p[2], p, d, ten)
       \/ DeleteUser(u, p)

Roles ==
  /\ Op("roles")
  /\ \E u \in Ups, p \in PassKeys, g \in Key(Groups), roles \in RoleSets, f \in Feeds \cup {NoKey} :
       \/ UpdateRoles(u, p, g, roles, f)
       \/ \E d \in Key(Devices) : CreateSubscribeUser(u, p[2], p, d, f, g, roles)

UserUpdates ==
  /\ Op("updates")
  /\ \E u \in Ups :
       \/ \E id \in 0..mode.ids : UpdateUserId(u, id)
       \/ \E o \in 0..pool.userTunnel.size - 1 : UpdateUserNet(u, pool.userTunnel.base + o)
       \/ \E ip \in {u[1]} \cup {pool.pubIps.base + o : o \in 0..pool.pubIps.size - 1}
                    \cup UNION {{DzBase[d] + o : o \in 0..mode.dz - 1} : d \in Key(Devices)} :
            UpdateUserDz(u, ip)
       \/ \E type \in mode.types : UpdateUserType(u, type)
       \/ \E ten \in Key(Tenants), counted \in BOOLEAN : UpdateUserTenant(u, ten, counted)
       \/ RequestBanUser(u)

BuildRegistry ==
  /\ \/ Places \/ Slots \/ DeviceOps \/ Limits \/ Interfaces \/ Loopbacks
     \/ TopologyOps \/ LinkOps \/ Renumber \/ Retag
  /\ UNCHANGED membership

BuildMembership ==
  TenantOps \/ PassOps \/ Allowlists \/ GroupOps \/ UserOps \/ Roles \/ UserUpdates

GeoOps ==
  \/ \E p \in Key(Probes) :
       \/ \E x \in Key(Exchanges) : CreateGeoProbe(p, x) /\ UNCHANGED agent
       \/ DeleteGeoProbe(p) /\ IF p = Me THEN Uncounted ELSE UNCHANGED agent
       \/ \E d \in Key(Devices) :
            (AddParentDevice(p, d) \/ RemoveParentDevice(p, d)) /\ UNCHANGED agent
  \/ \E u \in Key(GeoUsers) :
       \/ (CreateGeoUser(u) \/ DeleteGeoUser(u)) /\ UNCHANGED agent
       \/ \E paid \in BOOLEAN : UpdatePaymentStatus(u, paid) /\ Uncounted
       \/ \E t \in mode.targets :
            /\ probe[t.probe].updates < mode.maxUpdates
            /\ AddTarget(u, t) \/ RemoveTarget(u, t.kind, t.host, t.probe)
            /\ UNCHANGED agent
       \/ \E dest \in Dests \cup {NoKey} :
            /\ \A p \in ProbesOf(u) : probe[p].updates < mode.maxUpdates
            /\ SetResultDestination(u, dest)
            /\ UNCHANGED agent

AgentOps ==
  /\ Op("agent")
  /\ \/ \E ok \in BOOLEAN : ReadProbe(ok)
     \/ SkipScan \/ ScanFails \/ Scan
     \/ \E k \in Kinds : TakeUpdate(k)
     \/ RestartAgent
  /\ UNCHANGED geolocation

BuildGeolocation ==
  /\ Op("geolocation")
  /\ GeoOps \/ AgentOps
  /\ UNCHANGED <<registry, membership>>

-----------------------------------------------------------------------------
(* Taking down: only the calls that remove something.                      *)

StopBuilding ==
  /\ phase = "live" /\ mode.careful /\ ~Op("agent")
  /\ phase' = "drain"
  /\ UNCHANGED <<registry, membership, geolocation, agent, mode>>

DrainLinks ==
  \E k \in Key(Links) :
    \/ link[k].st = "Activated" /\ UpdateLinkStatus(k, "Suspended")
    \/ DeleteLink(k)

DrainDevices ==
  \E d \in Key(Devices) :
    \/ \E x \in Key(Exchanges), i \in 1..2 : RemoveDevice(x, i, d)
    \/ \E i \in Key(Physical) : DeleteInterface(d, i)
    \/ DeleteLoopback(d)
    \/ device[d].st \in {"Activated", "Deleting"} /\ UpdateDeviceStatus(d, "Drained")
    \/ DeleteDevice(d)

DrainPlaces ==
  \/ \E c \in Key(Contributors) : DeleteContributor(c)
  \/ \E l \in Key(Locations) : DeleteLocation(l)
  \/ \E x \in Key(Exchanges) : DeleteExchange(x)
  \/ \E t \in Key(Topologies) : DeleteTopology(t)

\* The SDK's DeleteUser gives up every role first; a suspended group is reactivated for it.
DrainUsers ==
  \E u \in Ups, p \in PassKeys :
    \/ \E g \in user[u].pubs \cup user[u].subs : UpdateRoles(u, p, g, {}, NoKey)
    \/ DeleteUser(u, p)

DrainRest ==
  \/ \E g \in Key(Groups) : SetGroupStatus(g, "Activated") \/ DeleteGroup(g)
  \/ \E p \in PassKeys :
       \/ \E t \in pass[p].tenants : SetAccessPass(p, pass[p].seat, pass[p].maxUnicast, t, NoKey)
       \/ CloseAccessPass(p)
  \/ \E t \in Key(Tenants) : DeleteTenant(t)

DrainGeolocation ==
  \/ \E p \in Key(Probes) : DeleteGeoProbe(p)
  \/ \E u \in Key(GeoUsers) :
       \/ DeleteGeoUser(u)
       \/ \E t \in Range(guser[u].targets) : RemoveTarget(u, t.kind, t.host, t.probe)

Drain ==
  /\ phase = "drain"
  /\ \/ (DrainLinks \/ DrainDevices \/ DrainPlaces) /\ UNCHANGED <<membership, geolocation>>
     \/ (DrainUsers \/ DrainRest) /\ UNCHANGED geolocation
     \/ DrainGeolocation /\ UNCHANGED <<registry, membership>>
  /\ UNCHANGED <<agent, mode, phase>>

\* A bound on counts that drift when callers are not careful.
Counted ==
  /\ \A d \in Devices : device[d].refs <= mode.maxRefs
  /\ \A d \in Devices, c \in {"unicast", "pubs", "subs"} : device[d].cnt[c] <= mode.maxRefs
  /\ \A t \in Tenants : tenant[t].refs <= mode.maxRefs
  /\ \A p \in Passes : pass[p].conns <= mode.maxRefs

Build ==
  /\ phase = "live" /\ Counted
  /\ \/ (BuildRegistry \/ BuildMembership) /\ UNCHANGED <<geolocation, agent>>
     \/ BuildGeolocation
  /\ UNCHANGED <<mode, phase>>

Next == Build \/ StopBuilding \/ Drain

Fairness == WF_vars(Drain)

Spec == Init /\ [][Next]_vars /\ Fairness

-----------------------------------------------------------------------------
(* Properties.                                                             *)

Size(S) == Cardinality(S)
LiveOf(account) == {k \in DOMAIN account : Live(account[k])}
On(d) == {u \in Users : user[u].dev = d}
OnAs(d, c) == {u \in On(d) : Counter(user[u].type, user[u].asPub) = c}

\* The users that connected with pass p, where a payer has one kind of pass.
Using(p) == {u \in Users : user[u].own = p[2] /\ p[1] \in {NoNet, u[1]}}

\* The two ends of live links, and the slots of exchanges, that name device d.
EndsAt(d) == {e \in LiveOf(link) \X {"a", "z"} : link[e[1]][e[2]] = d}
SlotsOf(d) == {s \in LiveOf(exchange) \X {1, 2} : exchange[s[1]].slot[s[2]] = d}

\* The targets that name probe p.
Naming(p) ==
  {e \in GeoUsers \X (1..MaxTargets) :
     e[2] <= Len(guser[e[1]].targets) /\ guser[e[1]].targets[e[2]].probe = p}


\* Claims are pairs <<holder, what it holds>>: they exhaust the pool and do not overlap.
Shared(a, claims) ==
  /\ Held(a) = UNION {c[2] : c \in claims}
  /\ \A c, e \in claims : c # e => c[2] \cap e[2] = {}

One(n) == IF n = NoNet THEN {} ELSE {n}
Pair(n) == IF n = NoNet THEN {} ELSE {n, n + 1}

\* Every network, address, id and segment the ledger shows belongs to one account, and the
\* pools hold those and nothing else: no double allocation, and no leak.  With careful
\* callers this includes the pools the known deviations concern, and the two interfaces
\* of an accepted link are its own and carry its addresses.
Exclusive ==
  LET loops == {d \in LiveOf(device) : Exists(device[d].ifs[Loopback])}
      lo(d) == device[d].ifs[Loopback]
      accepted == {k \in LiveOf(link) : link[k].net # NoNet}
      dzFrom(d) == {u \in On(d) : user[u].dz \in Held(device[d].dz)}
  IN /\ Shared(pool.devTunnel, {<<k, Pair(link[k].net)>> : k \in LiveOf(link)}
                               \cup {<<d, One(lo(d).ip)>> : d \in loops})
     /\ Shared(pool.userTunnel, {<<u, Pair(user[u].net)>> : u \in Users})
     /\ Shared(pool.groupIps, {<<g, One(group[g].ip)>> : g \in Groups})
     /\ Shared(pool.vrfs, {<<t, One(tenant[t].vrf)>> : t \in Tenants})
     /\ \A d \in LiveOf(device) : Shared(device[d].ids, {<<u, One(user[u].id)>> : u \in On(d)})
     /\ \A s, t \in LiveOf(topology) : s # t => topology[s].bit # topology[t].bit
     /\ mode.careful =>
          /\ Shared(pool.linkIds, {<<k, {link[k].id}>> : k \in accepted})
          /\ Shared(pool.segs, UNION {{<<<<d, t>>, One(lo(d).flex[t])>> : t \in Topologies}
                                      \cup {<<<<d, d>>, One(lo(d).seg)>>} : d \in loops})
          /\ \A d \in LiveOf(device) :
               Shared(device[d].dz, {<<u, One(user[u].dz)>> : u \in dzFrom(d)}
                                    \cup {<<<<NoNet, d>>, {device[d].dz.base}>>})
          /\ Shared(pool.pubIps, {<<u, IF Drawn(u) THEN {user[u].dz} \ Held(device[user[u].dev].dz)
                                       ELSE {}>> : u \in {v \in Users : Exists(user[v])}})
          /\ \A k \in accepted :
               /\ device[link[k].a].ifs[link[k].ia].ip = link[k].net
               /\ device[link[k].z].ifs[link[k].iz].ip = link[k].net + 1

\* An allocator says it is exhausted only when it is: the ids of a range of whole words,
\* and the blocks of a pool all of whose blocks have one size.
AllocationComplete ==
  LET idOk(a) == a.size % WordBits = 0 /\ a.used # 0..a.size - 1 => IdFree(a) # {}
      ipOk(a, n) == IpFree([a EXCEPT !.hint = 0], n) # {} => IpFree(a, n) # {}
  IN /\ \A a \in {pool.linkIds, pool.segs, pool.bits, pool.vrfs} : idOk(a)
     /\ \A d \in LiveOf(device) : idOk(device[d].ids) /\ ipOk(device[d].dz, 1)
     /\ ipOk(pool.groupIps, 1) /\ ipOk(pool.pubIps, 1)
     /\ ipOk(pool.userTunnel, 2) /\ ipOk(pool.devTunnel, 2)

\* A user is admitted only where the users that are really there leave room: below the
\* device's limits and below the caps of an EdgeSeat pass.
AdmissionWithinCaps ==
  [][\A u \in Users :
       ~Exists(user[u]) /\ Exists(user'[u]) =>
         LET d == user'[u].dev
             c == Counter(user'[u].type, user'[u].asPub)
             cap == device[d].max[c]
         IN /\ Size(On(d)) < device[d].max.users
            /\ mode.careful =>
                 /\ cap > 0 => Size(OnAs(d, c)) < cap
                 /\ \A p \in PassesOf(u[1], user'[u].own) :
                      pass[p].seat =>
                        IF user'[u].type = "MCAST"
                        THEN Size({v \in Using(p) : user[v].feed = user'[u].feed})
                             < pass[p].seats[user'[u].feed].max
                        ELSE Size({v \in Using(p) : user[v].type # "MCAST"}) < pass[p].maxUnicast
    ]_vars

\* What the measurement loop works with, or is about to.
Measured(k) == IF agent.ch[k] = NoUpdate THEN agent.run[k] ELSE agent.ch[k]

\* An unchanged count means nothing was missed: between ticks, while the probe's update count
\* is the one its agent last acted on, the agent measures the targets the ledger lists for it
\* and sends the results where the ledger says, however reads, scans and instructions
\* interleave (discover in target_discovery.go skips the scan on that ground).  This is
\* claimed until a payment, a probe created again or a scan that fails comes between, which
\* wait for the next full refresh, and while the ledger lists at least one target.
UnchangedMeansSeen ==
  (/\ mode.careful /\ agent.pc = "wait" /\ agent.sure /\ agent.lastSeen = probe[Me].updates
   /\ \E k \in Kinds : Listed(k) # Nothing.n) =>
     \A k \in Kinds : Measured(k) \in Scans(k)

Gone ==
  /\ LiveOf(contributor) = {} /\ LiveOf(location) = {} /\ LiveOf(exchange) = {}
  /\ LiveOf(device) = {} /\ LiveOf(link) = {} /\ LiveOf(topology) = {} /\ LiveOf(group) = {}
  /\ \A u \in Users : ~Exists(user[u])
  /\ \A p \in Passes : ~Exists(pass[p])
  /\ \A t \in Tenants : ~Exists(tenant[t])
  /\ LiveOf(probe) = {} /\ LiveOf(guser) = {}
  /\ \A f \in DOMAIN pool \ {"bits"} : pool[f].used = {}

\* Whatever careful callers have built can be taken down again, to the last account and
\* the last address: no count is left that keeps an account from being deleted.
\* (A drain is never left, so this is phase = "drain" ~> []Gone.)
Reclaimable == <>[](phase = "drain" => Gone)
=============================================================================
