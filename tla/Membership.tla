------------------------------ MODULE Membership ------------------------------
(***************************************************************************)
(* The subscriber half of the serviceability program: tenants, access      *)
(* passes, multicast groups and users.  A user sits on a device, holds a   *)
(* tunnel network, a tunnel id and possibly an address, occupies a         *)
(* connection (and with an EdgeSeat pass a seat) of its owner's pass,      *)
(* counts towards its tenant and towards every group it has a role in.     *)
(*                                                                         *)
(* A user is addressed by its client address and the type it was created   *)
(* with, a pass by a client address (0 for a dynamic pass) and a payer, a  *)
(* tenant by its code: those addresses can be used again.  Feeds are       *)
(* fixed.  The epoch gate of unicast users and the QA and foundation       *)
(* overrides of the limits are left out.                                   *)
(***************************************************************************)
EXTENDS Registry

CONSTANTS
  Tenants, Groups, Feeds, Payers,
  Ips,        \* client addresses, integers outside every pool
  Types,      \* of {"IBRL", "ALLOC", "MCAST"}; ALLOC also stands for EdgeFiltering
  FeedExch,   \* the exchange a feed is offered at
  FeedGroups  \* and the groups it carries there

VARIABLES tenant, pass, group, user

membership == <<tenant, pass, group, user>>

Users == Ips \X Types
Passes == (Ips \cup {NoNet}) \X Payers

NoSeat == [max |-> 0, cur |-> 0]   \* a feed that is not on the pass
NoPass == [st |-> "none", seat |-> FALSE, conns |-> 0, tenants |-> {}, unicast |-> 0,
           maxUnicast |-> 0, pubs |-> {}, subs |-> {}, seats |-> [f \in Feeds |-> NoSeat]]
NoUser == [st |-> "none", own |-> NoKey, dev |-> NoKey, type |-> NoKey, ten |-> NoKey,
           asPub |-> FALSE, pubs |-> {}, subs |-> {}, net |-> NoNet, id |-> 0,
           dz |-> NoNet, feed |-> NoKey]

Exists(account) == account.st # "none"

\* Passes a user with this client address and owner may present.
PassesOf(ip, own) == {p \in {<<ip, own>>, <<NoNet, own>>} : Exists(pass[p])}

-----------------------------------------------------------------------------
(* Tenants.                                                                *)

CreateTenant(t) ==
  /\ ~Exists(tenant[t]) /\ IdFree(pool.vrfs) # {}
  /\ tenant' = [tenant EXCEPT ![t] = [st |-> "Activated", refs |-> 0,
                                      vrf |-> NextId(pool.vrfs)]]
  /\ pool' = [pool EXCEPT !.vrfs = IdAllocate(@)]
  /\ UNCHANGED <<contributor, location, exchange, device, link, topology, pass, group, user>>

DeleteTenant(t) ==
  /\ Exists(tenant[t]) /\ tenant[t].refs = 0
  /\ tenant' = [tenant EXCEPT ![t] = [st |-> "none", refs |-> 0, vrf |-> 0]]
  /\ pool' = [pool EXCEPT !.vrfs = IdDeallocate(@, tenant[t].vrf)]
  /\ UNCHANGED <<contributor, location, exchange, device, link, topology, pass, group, user>>

-----------------------------------------------------------------------------
(* Access passes.                                                          *)

\* One reference fewer for rem and one more for add.  The account of add is read before
\* that of rem is written, so when both are the same tenant the decrement is lost.
CountTenants(rem, add) ==
  [t \in Tenants |->
     [tenant[t] EXCEPT !.refs = IF t = add THEN @ + 1 ELSE IF t = rem THEN Less(@) ELSE @]]

Allowed(rem, add, before) == (before \ {rem}) \cup ({add} \cap Tenants)

\* Whether a client that keeps one kind of pass per payer may create p.
OnlyKind(p) ==
  \A q \in Passes : q[2] = p[2] /\ Exists(pass[q]) => (q[1] = NoNet) = (p[1] = NoNet)

\* SetAccessPass, on a pass that exists or not.  EdgeSeat to EdgeSeat keeps the seats.
SetAccessPass(p, seat, maxUnicast, rem, add) ==
  LET old == pass[p]
      keep == old.seat /\ seat
  IN /\ rem # NoKey => Exists(tenant[rem])
     /\ add # NoKey => Exists(tenant[add])
     /\ mode.careful =>
          /\ rem # NoKey => rem \in old.tenants /\ rem # add
          /\ add \notin old.tenants
          /\ Exists(old) \/ OnlyKind(p)
          /\ old.conns > 0 => old.seat = seat
     /\ pass' = [pass EXCEPT ![p] =
                   [old EXCEPT !.st = IF Exists(old) THEN @ ELSE "Requested",
                               !.seat = seat,
                               !.maxUnicast = maxUnicast,
                               !.tenants = Allowed(rem, add, @),
                               !.seats = IF keep THEN @ ELSE NoPass.seats]]
     /\ tenant' = CountTenants(rem, add)
     /\ UNCHANGED <<registry, group, user>>

\* SetAccessPassFeeds: the whole seat list is replaced.  A feed that stays keeps its live
\* count and its cap may not go below it; a feed that goes takes its count with it.
SetAccessPassFeeds(p, max) ==
  /\ pass[p].seat
  /\ \A f \in Feeds : max[f] > 0 => max[f] >= pass[p].seats[f].cur
  /\ mode.careful => \A f \in Feeds : pass[p].seats[f].cur > 0 => max[f] > 0
  /\ pass' = [pass EXCEPT ![p].seats =
                [f \in Feeds |-> IF max[f] = 0 THEN NoSeat
                                 ELSE [max |-> max[f], cur |-> @[f].cur]]]
  /\ UNCHANGED <<registry, tenant, group, user>>

\* CloseAccessPass leaves the counts of the tenants on the pass as they are.
CloseAccessPass(p) ==
  /\ Exists(pass[p]) /\ pass[p].conns = 0
  /\ mode.careful => pass[p].tenants = {}
  /\ pass' = [pass EXCEPT ![p] = NoPass]
  /\ UNCHANGED <<registry, tenant, group, user>>

\* CheckStatusAccessPass, and CheckUserAccessPass for the pass of a user.
CheckStatusAccessPass(p) ==
  /\ Exists(pass[p])
  /\ pass' = [pass EXCEPT ![p].st = IF pass[p].conns > 0 THEN "Connected" ELSE "Requested"]
  /\ UNCHANGED <<registry, tenant, group, user>>

\* The allowlists of a pass; adding to the list of a pass that is missing creates it.
AddToAllowlist(p, role, g) ==
  /\ Live(group[g])
  /\ mode.careful => Exists(pass[p]) \/ OnlyKind(p)
  /\ pass' = [pass EXCEPT ![p] =
                [(IF Exists(@) THEN @ ELSE [NoPass EXCEPT !.st = "Requested", !.maxUnicast = 1])
                 EXCEPT ![role] = @ \cup {g}]]
  /\ UNCHANGED <<registry, tenant, group, user>>

RemoveFromAllowlist(p, role, g) ==
  /\ Live(group[g]) /\ Exists(pass[p])
  /\ pass' = [pass EXCEPT ![p][role] = @ \ {g}]
  /\ UNCHANGED <<registry, tenant, group, user>>

-----------------------------------------------------------------------------
(* Multicast groups.                                                       *)

CreateGroup(g) ==
  /\ group[g].st = "none" /\ IpFree(pool.groupIps, 1) # {}
  /\ group' = [group EXCEPT ![g] = [st |-> "Activated", ip |-> NextIp(pool.groupIps, 1),
                                    pubs |-> 0, subs |-> 0]]
  /\ pool' = [pool EXCEPT !.groupIps = IpAllocate(@, 1)]
  /\ UNCHANGED <<contributor, location, exchange, device, link, topology, tenant, pass, user>>

\* SuspendMulticastGroup and ReactivateMulticastGroup.
SetGroupStatus(g, s) ==
  /\ Live(group[g]) /\ group[g].st # s
  /\ group' = [group EXCEPT ![g].st = s]
  /\ UNCHANGED <<registry, tenant, pass, user>>

\* UpdateMulticastGroup with one argument: multicast_ip.
UpdateGroupIp(g, ip) ==
  LET freed == IpDeallocate(pool.groupIps, group[g].ip, 1)
  IN /\ Live(group[g]) /\ IpSpecificOk(freed, ip, 1)
     /\ group' = [group EXCEPT ![g].ip = ip]
     /\ pool' = [pool EXCEPT !.groupIps = IpAllocateSpecific(freed, ip, 1)]
     /\ UNCHANGED <<contributor, location, exchange, device, link, topology, tenant, pass, user>>

DeleteGroup(g) ==
  /\ Live(group[g]) /\ group[g].pubs = 0 /\ group[g].subs = 0
  /\ group' = [group EXCEPT ![g] = [st |-> "closed", ip |-> NoNet, pubs |-> 0, subs |-> 0]]
  /\ pool' = [pool EXCEPT !.groupIps = IpDeallocate(@, group[g].ip, 1)]
  /\ UNCHANGED <<contributor, location, exchange, device, link, topology, tenant, pass, user>>

-----------------------------------------------------------------------------
(* Users: creation.                                                        *)

\* The counter of its device that a user of this type moves.
Counter(type, asPub) ==
  IF type # "MCAST" THEN "unicast" ELSE IF asPub THEN "pubs" ELSE "subs"

\* check_feed_metro_coverage: the feed is on the pass, is offered at the device's
\* exchange and carries the group.
Covers(p, feed, d, g) ==
  /\ feed # NoKey
  /\ pass[p].seats[feed].max > 0
  /\ FeedExch[feed] = device[d].exch
  /\ g \in FeedGroups[feed]

\* The limits of a device: max_users always, the one of the user's type when it is set.
DeviceAdmits(d, type, asPub) ==
  LET c == Counter(type, asPub)
  IN /\ device[d].st = "Activated"
     /\ device[d].cnt.users < device[d].max.users
     /\ device[d].max[c] > 0 => device[d].cnt[c] < device[d].max[c]

\* The pass: tenant allowlist for unicast users, seats of EdgeSeat passes.
PassAdmits(p, type, ten, feed, d, g) ==
  /\ type # "MCAST" => IF pass[p].tenants = {} THEN ten = NoKey ELSE ten \in pass[p].tenants
  /\ pass[p].seat =>
       IF type = "MCAST"
       THEN Covers(p, feed, d, g) /\ pass[p].seats[feed].cur < pass[p].seats[feed].max
       ELSE pass[p].unicast < pass[p].maxUnicast

\* The pass after the user has connected.
Connect(a, type, feed) ==
  LET ticks == a.seat /\ type = "MCAST"
  IN [a EXCEPT !.conns = @ + 1, !.st = "Connected",
               !.unicast = IF a.seat /\ type # "MCAST" THEN @ + 1 ELSE @,
               !.seats = IF ticks THEN [@ EXCEPT ![feed].cur = @ + 1] ELSE @]

\* Where validate_and_allocate_user_resources takes dz_ip from; "client" is no pool.
DzSource(type, publishes) ==
  CASE type = "ALLOC" -> "device"
    [] type = "MCAST" /\ publishes -> "pubs"
    [] OTHER -> "client"

\* create_user_core, the roles and validate_and_allocate_user_resources.
CreateUserWith(u, own, p, d, ten, feed, asPub, g, roles) ==
  LET type == u[2]
      src == DzSource(type, "pubs" \in roles)
      gains(role) == IF role \in roles THEN {g} ELSE {}
  IN /\ ~Exists(user[u]) /\ p \in PassesOf(u[1], own)
     /\ ten # NoKey => Exists(tenant[ten])
     /\ DeviceAdmits(d, type, asPub)
     /\ PassAdmits(p, type, ten, feed, d, g)
     /\ IpFree(pool.userTunnel, 2) # {} /\ IdFree(device[d].ids) # {}
     /\ src = "device" => IpFree(device[d].dz, 1) # {}
     /\ src = "pubs" => IpFree(pool.pubIps, 1) # {}
     /\ user' = [user EXCEPT ![u] =
                   [st |-> "Activated", own |-> own, dev |-> d, type |-> type, ten |-> ten,
                    asPub |-> asPub, pubs |-> gains("pubs"), subs |-> gains("subs"),
                    net |-> NextIp(pool.userTunnel, 2), id |-> NextId(device[d].ids),
                    dz |-> CASE src = "device" -> NextIp(device[d].dz, 1)
                             [] src = "pubs" -> NextIp(pool.pubIps, 1)
                             [] OTHER -> u[1],
                    feed |-> IF pass[p].seat /\ type = "MCAST" THEN feed ELSE NoKey]]
     /\ pass' = [pass EXCEPT ![p] = Connect(@, type, feed)]
     /\ device' = [device EXCEPT ![d].refs = @ + 1, ![d].cnt.users = @ + 1,
                                 ![d].cnt[Counter(type, asPub)] = @ + 1,
                                 ![d].ids = IdAllocate(@),
                                 ![d].dz = IF src = "device" THEN IpAllocate(@, 1) ELSE @]
     /\ pool' = [pool EXCEPT !.userTunnel = IpAllocate(@, 2),
                             !.pubIps = IF src = "pubs" THEN IpAllocate(@, 1) ELSE @]
     /\ tenant' = CountTenants(NoKey, ten)
     /\ group' = [h \in Groups |->
                    [group[h] EXCEPT !.pubs = @ + Cardinality(gains("pubs") \cap {h}),
                                     !.subs = @ + Cardinality(gains("subs") \cap {h})]]
     /\ UNCHANGED <<contributor, location, exchange, link, topology>>

\* CreateUser: no group and no feed, so a multicast user needs a pass that is not EdgeSeat.
CreateUser(u, own, p, d, ten) ==
  CreateUserWith(u, own, p, d, ten, NoKey, FALSE, NoKey, {})

\* CreateSubscribeUser: no tenant; the roles are checked against the pass's allowlists
\* unless the feed decides.
CreateSubscribeUser(u, own, p, d, feed, g, roles) ==
  /\ group[g].st = "Activated"
  /\ ~pass[p].seat => \A r \in roles : g \in pass[p][r]
  /\ mode.careful /\ "pubs" \in roles => u[2] # "ALLOC"
  /\ CreateUserWith(u, own, p, d, NoKey, feed, "pubs" \in roles, g, roles)

-----------------------------------------------------------------------------
(* Users: roles, updates, ban and deletion.                                *)

\* Whether dz_ip was drawn from a pool, and the pools after it is given back:
\* MulticastPublisherBlock is tried first, then the device's DzPrefixBlock.
Drawn(u) == user[u].dz \notin {NoNet, u[1]}
PubIpsWithout(u) == IF Drawn(u) THEN IpDeallocate(pool.pubIps, user[u].dz, 1) ELSE pool.pubIps
DzWithout(u) ==
  LET dz == device[user[u].dev].dz
  IN IF Drawn(u) /\ PubIpsWithout(u) = pool.pubIps THEN IpDeallocate(dz, user[u].dz, 1) ELSE dz

\* UpdateMulticastGroupRoles: the roles u has in g become `roles`.  Granting needs an
\* Activated user and the pass; the group must be Activated either way.  The first
\* publisher role draws an address, the last one given up returns it.
UpdateRoles(u, p, g, roles, feed) ==
  LET old == user[u]
      has(role) == g \in old[role]
      list(role) == IF role \in roles THEN old[role] \cup {g} ELSE old[role] \ {g}
      count(role, n) == IF has(role) = (role \in roles) THEN n
                        ELSE IF has(role) THEN Less(n) ELSE n + 1
      first == old.pubs = {} /\ list("pubs") # {}
      last == old.pubs # {} /\ list("pubs") = {}
  IN /\ Exists(old) /\ p \in PassesOf(u[1], old.own)
     /\ group[g].st = "Activated"
     /\ roles # {} =>
          /\ old.st = "Activated"
          /\ IF pass[p].seat THEN Covers(p, feed, old.dev, g)
             ELSE \A r \in roles : g \in pass[p][r]
     /\ mode.careful /\ "pubs" \in roles => old.dz \notin Held(device[old.dev].dz)
     /\ first /\ ~Drawn(u) => IpFree(pool.pubIps, 1) # {}
     /\ user' = [user EXCEPT ![u].pubs = list("pubs"), ![u].subs = list("subs"),
                             ![u].dz = CASE first /\ ~Drawn(u) -> NextIp(pool.pubIps, 1)
                                         [] last /\ Drawn(u) -> u[1]
                                         [] OTHER -> @]
     /\ group' = [group EXCEPT ![g].pubs = count("pubs", @), ![g].subs = count("subs", @)]
     /\ pool' = [pool EXCEPT !.pubIps = CASE first /\ ~Drawn(u) -> IpAllocate(@, 1)
                                          [] last -> PubIpsWithout(u)
                                          [] OTHER -> @]
     /\ UNCHANGED <<contributor, location, exchange, device, link, topology, tenant, pass>>

\* UpdateUser with one argument: tunnel_id, of the user's device; 0 gives it up.
UpdateUserId(u, id) ==
  LET d == user[u].dev
      freed == IdDeallocate(device[d].ids, user[u].id)
  IN /\ Exists(user[u]) /\ user[u].id # id
     /\ id # 0 => IdSpecificOk(freed, id)
     /\ user' = [user EXCEPT ![u].id = id]
     /\ device' = [device EXCEPT ![d].ids = IF id = 0 THEN freed
                                            ELSE IdAllocateSpecific(freed, id)]
     /\ UNCHANGED <<contributor, location, exchange, link, topology, pool, tenant, pass, group>>

\* UpdateUser with one argument: tunnel_net.
UpdateUserNet(u, net) ==
  LET freed == IpDeallocate(pool.userTunnel, user[u].net, 2)
  IN /\ Exists(user[u]) /\ user[u].net # net
     /\ IpSpecificOk(freed, net, 2)
     /\ user' = [user EXCEPT ![u].net = net]
     /\ pool' = [pool EXCEPT !.userTunnel = IpAllocateSpecific(freed, net, 2)]
     /\ UNCHANGED <<contributor, location, exchange, device, link, topology, tenant, pass, group>>

\* UpdateUser with one argument: dz_ip, taken from the first block that has it free.
UpdateUserDz(u, ip) ==
  LET d == user[u].dev
      fromPubs == IpSpecificOk(PubIpsWithout(u), ip, 1)
      fromDev == ~fromPubs /\ IpSpecificOk(DzWithout(u), ip, 1)
  IN /\ Exists(user[u]) /\ user[u].dz # ip
     /\ ip = u[1] \/ fromPubs \/ fromDev
     /\ mode.careful => user[u].pubs = {}
     /\ user' = [user EXCEPT ![u].dz = ip]
     /\ pool' = [pool EXCEPT !.pubIps = IF fromPubs THEN IpAllocateSpecific(PubIpsWithout(u), ip, 1)
                                        ELSE PubIpsWithout(u)]
     /\ device' = [device EXCEPT ![d].dz = IF fromDev THEN IpAllocateSpecific(DzWithout(u), ip, 1)
                                           ELSE DzWithout(u)]
     /\ UNCHANGED <<contributor, location, exchange, link, topology, tenant, pass, group>>

\* UpdateUser with one argument: user_type.  No counter follows.
UpdateUserType(u, type) ==
  /\ ~mode.careful
  /\ Exists(user[u]) /\ user[u].type # type
  /\ user' = [user EXCEPT ![u].type = type]
  /\ UNCHANGED <<registry, tenant, pass, group>>

\* UpdateUser with one argument: tenant_pk.  The counts follow when the caller supplies
\* the two tenant accounts.
UpdateUserTenant(u, ten, counted) ==
  /\ Exists(user[u]) /\ user[u].ten # ten
  /\ counted => Exists(tenant[ten]) /\ (user[u].ten # NoKey => Exists(tenant[user[u].ten]))
  /\ mode.careful => counted
  /\ user' = [user EXCEPT ![u].ten = ten]
  /\ tenant' = IF counted THEN CountTenants(user[u].ten, ten) ELSE tenant
  /\ UNCHANGED <<registry, pass, group>>

\* validate_and_deallocate_user_resources: the global pools and the user's device after it.
ReleasedPool(u) ==
  [pool EXCEPT !.userTunnel = IpDeallocate(@, user[u].net, 2), !.pubIps = PubIpsWithout(u)]
ReleasedDevice(u) ==
  [device[user[u].dev] EXCEPT !.ids = IdDeallocate(@, user[u].id), !.dz = DzWithout(u)]

\* Mutant: a banned user no longer counts towards max_users.
RequestBanUserUncounted(u) ==
  /\ user[u].st = "Activated" /\ user[u].pubs \cup user[u].subs = {}
  /\ pool' = ReleasedPool(u)
  /\ device' = [device EXCEPT ![user[u].dev] = [ReleasedDevice(u) EXCEPT !.cnt.users = Less(@)]]
  /\ user' = [user EXCEPT ![u].st = "Banned", ![u].net = NoNet, ![u].id = 0, ![u].dz = NoNet]
  /\ UNCHANGED <<contributor, location, exchange, link, topology, tenant, pass, group>>

RequestBanUser(u) ==
  /\ user[u].st = "Activated" /\ user[u].pubs \cup user[u].subs = {}
  /\ pool' = ReleasedPool(u)
  /\ device' = [device EXCEPT ![user[u].dev] = ReleasedDevice(u)]
  /\ user' = [user EXCEPT ![u].st = "Banned", ![u].net = NoNet, ![u].id = 0, ![u].dz = NoNet]
  /\ UNCHANGED <<contributor, location, exchange, link, topology, tenant, pass, group>>


\* The pass after a user of this type, recorded with this feed, has gone.
Disconnect(a, type, feed) ==
  LET n == Less(a.conns)
  IN [a EXCEPT !.conns = n, !.st = IF n > 0 THEN "Connected" ELSE "Disconnected",
               !.unicast = IF a.seat /\ type # "MCAST" THEN Less(@) ELSE @,
               !.seats = IF type = "MCAST" /\ feed # NoKey
                         THEN [@ EXCEPT ![feed].cur = Less(@)] ELSE @]

\* DeleteUser with either pass of the owner; every count is taken back by the type the
\* user has now.
DeleteUser(u, p) ==
  LET old == user[u]
      c == Counter(old.type, old.asPub)
  IN /\ Exists(old) /\ p \in PassesOf(u[1], old.own)
     /\ old.pubs \cup old.subs = {}
     /\ old.ten # NoKey => Exists(tenant[old.ten])
     /\ pass' = [pass EXCEPT ![p] = Disconnect(@, old.type, old.feed)]
     /\ pool' = ReleasedPool(u)
     /\ device' = [device EXCEPT ![old.dev] =
                     [ReleasedDevice(u) EXCEPT !.refs = Less(@), !.cnt.users = Less(@),
                                               !.cnt[c] = Less(@)]]
     /\ tenant' = CountTenants(old.ten, NoKey)
     /\ user' = [user EXCEPT ![u] = NoUser]
     /\ UNCHANGED <<contributor, location, exchange, link, topology, group>>
=============================================================================
