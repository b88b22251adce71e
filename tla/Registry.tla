------------------------------- MODULE Registry -------------------------------
(***************************************************************************)
(* The physical half of the serviceability program: contributors,          *)
(* locations, exchanges, devices with their interfaces, links and          *)
(* topologies, and the pools they draw from.  One action per instruction,  *)
(* which the runtime executes alone and rolls back when it returns an      *)
(* error, so an instruction that fails is a step not taken.                *)
(*                                                                         *)
(* An account is a record with a field st: "none" before it is created,    *)
(* "closed" after it is deleted, and otherwise its status.  Addresses of   *)
(* accounts come from globalstate.account_index and are never used twice,  *)
(* except topologies', which are derived from the name.  The health        *)
(* oracle's check_status_transition returns at once and is left out.       *)
(***************************************************************************)
EXTENDS Allocator, Functions

CONSTANTS
  Contributors, Locations, Exchanges, Devices, Links, Topologies,
  Physical,       \* names of physical interfaces
  UnicastDefault, \* the topology every new link is tagged with
  DzBase,         \* first address of each device's dz_prefix
  Mode            \* environments, see Serviceability

VARIABLES
  contributor, location, exchange, device, link, topology,
  pool,           \* the global resource extensions
  mode            \* the environment of this behaviour

registry == <<contributor, location, exchange, device, link, topology, pool>>

Loopback == "lo"           \* the Vpnv4 loopback of a device
IfNames == Physical \cup {Loopback}
NoKey == "-"               \* Pubkey::default()
NoNet == 0                 \* NetworkV4::default(), Ipv4Addr::UNSPECIFIED, id 0

Live(account) == account.st \notin {"none", "closed"}

\* saturating_sub(1)
Less(n) == IF n = 0 THEN 0 ELSE n - 1

NewCounted == [st |-> "Activated", refs |-> 0]
NoIf == [st |-> "none", ip |-> NoNet, seg |-> 0, flex |-> [t \in Topologies |-> 0]]
NewIf == [NoIf EXCEPT !.st = "Unlinked"]

\* create_resource reserves the first address of a DzPrefixBlock for the device.
NewDzBlock(base) == [NewPool(base, mode.dz) EXCEPT !.used = {0}]

NewDevice(d, c, l, x) ==
  [st |-> "Activated", co |-> c, loc |-> l, exch |-> x, refs |-> 0,
   ifs |-> [i \in IfNames |-> NoIf],
   max |-> [users |-> 0, unicast |-> 0, pubs |-> 0, subs |-> 0],
   cnt |-> [users |-> 0, unicast |-> 0, pubs |-> 0, subs |-> 0],
   ids |-> NewPool(1, mode.ids), dz |-> NewDzBlock(DzBase[d])]

NoLink == [st |-> "none", co |-> NoKey, a |-> NoKey, z |-> NoKey, ia |-> NoKey,
           iz |-> NoKey, net |-> NoNet, id |-> 0, topos |-> {}]

-----------------------------------------------------------------------------
(* Contributors, locations and exchanges: create, delete, setdevice.       *)

CreateContributor(c) ==
  /\ contributor[c].st = "none"
  /\ contributor' = [contributor EXCEPT ![c] = NewCounted]
  /\ UNCHANGED <<location, exchange, device, link, topology, pool>>

DeleteContributor(c) ==
  /\ Live(contributor[c]) /\ contributor[c].refs = 0
  /\ contributor' = [contributor EXCEPT ![c].st = "closed"]
  /\ UNCHANGED <<location, exchange, device, link, topology, pool>>

CreateLocation(l) ==
  /\ location[l].st = "none"
  /\ location' = [location EXCEPT ![l] = NewCounted]
  /\ UNCHANGED <<contributor, exchange, device, link, topology, pool>>

DeleteLocation(l) ==
  /\ Live(location[l]) /\ location[l].refs = 0
  /\ location' = [location EXCEPT ![l].st = "closed"]
  /\ UNCHANGED <<contributor, exchange, device, link, topology, pool>>

CreateExchange(x) ==
  /\ exchange[x].st = "none"
  /\ exchange' = [exchange EXCEPT ![x].st = "Activated"]
  /\ UNCHANGED <<contributor, location, device, link, topology, pool>>

\* Only the devices placed at the exchange are counted, not its two slots.
DeleteExchange(x) ==
  /\ Live(exchange[x]) /\ exchange[x].refs = 0
  /\ mode.careful => exchange[x].slot = <<NoKey, NoKey>>
  /\ exchange' = [exchange EXCEPT ![x].st = "closed"]
  /\ UNCHANGED <<contributor, location, device, link, topology, pool>>

\* Set: the slot must be empty and the two slots may not name one device.
SetDevice(x, i, d) ==
  /\ Live(exchange[x]) /\ Live(device[d])
  /\ exchange[x].slot[i] = NoKey /\ exchange[x].slot[3 - i] # d
  /\ exchange' = [exchange EXCEPT ![x].slot[i] = d]
  /\ device' = [device EXCEPT ![d].refs = @ + 1]
  /\ UNCHANGED <<contributor, location, link, topology, pool>>

\* Remove: the device that loses a reference is the one the caller supplies.
RemoveDevice(x, i, d) ==
  /\ Live(exchange[x]) /\ Live(device[d])
  /\ exchange[x].slot[i] # NoKey
  /\ mode.careful => exchange[x].slot[i] = d
  /\ exchange' = [exchange EXCEPT ![x].slot[i] = NoKey]
  /\ device' = [device EXCEPT ![d].refs = Less(@)]
  /\ UNCHANGED <<contributor, location, link, topology, pool>>

-----------------------------------------------------------------------------
(* Devices.                                                                *)

CreateDevice(d, c, l, x) ==
  /\ device[d].st = "none"
  /\ Live(contributor[c]) /\ Live(location[l]) /\ Live(exchange[x])
  /\ device' = [device EXCEPT ![d] = NewDevice(d, c, l, x)]
  /\ contributor' = [contributor EXCEPT ![c].refs = @ + 1]
  /\ location' = [location EXCEPT ![l].refs = @ + 1]
  /\ exchange' = [exchange EXCEPT ![x].refs = @ + 1]
  /\ UNCHANGED <<link, topology, pool>>

\* UpdateDevice with one argument: the status.
UpdateDeviceStatus(d, s) ==
  /\ Live(device[d])
  /\ device' = [device EXCEPT ![d].st = s]
  /\ UNCHANGED <<contributor, location, exchange, link, topology, pool>>

\* UpdateDevice with one argument: a limit, which may be below the live count.
UpdateDeviceMax(d, field, n) ==
  /\ Live(device[d])
  /\ device' = [device EXCEPT ![d].max[field] = n]
  /\ UNCHANGED <<contributor, location, exchange, link, topology, pool>>

\* UpdateDevice with one argument: the contributor, whose counts do not move.
UpdateDeviceContributor(d, c) ==
  /\ ~mode.careful
  /\ Live(device[d]) /\ Live(contributor[c])
  /\ device' = [device EXCEPT ![d].co = c]
  /\ UNCHANGED <<contributor, location, exchange, link, topology, pool>>

UpdateDeviceLocation(d, l) ==
  /\ Live(device[d]) /\ Live(location[l]) /\ device[d].loc # l
  /\ device' = [device EXCEPT ![d].loc = l]
  /\ location' = [location EXCEPT ![l].refs = @ + 1, ![device[d].loc].refs = Less(@)]
  /\ UNCHANGED <<contributor, exchange, link, topology, pool>>

\* UpdateDevice with one argument: dz_prefixes.  The block is created afresh, which is
\* only allowed while nothing but the reserved address is taken.
UpdateDeviceDzPrefix(d, base) ==
  /\ Live(device[d])
  /\ Cardinality(device[d].dz.used) <= 1
  /\ device' = [device EXCEPT ![d].dz = NewDzBlock(base)]
  /\ UNCHANGED <<contributor, location, exchange, link, topology, pool>>

DeleteDeviceGuard(d) ==
  /\ Live(device[d]) /\ device[d].st \notin {"Activated", "Deleting"}
  /\ device[d].refs = 0
  /\ \A i \in IfNames : device[d].ifs[i].st = "none"

DeleteDevice(d) ==
  /\ DeleteDeviceGuard(d)
  /\ device' = [device EXCEPT ![d].st = "closed"]
  /\ contributor' = [contributor EXCEPT ![device[d].co].refs = Less(@)]
  /\ location' = [location EXCEPT ![device[d].loc].refs = Less(@)]
  /\ exchange' = [exchange EXCEPT ![device[d].exch].refs = Less(@)]
  /\ UNCHANGED <<link, topology, pool>>

\* DeleteDevice from a caller that names no resource accounts.
DeleteDeviceLegacy(d) ==
  /\ DeleteDeviceGuard(d)
  /\ device' = [device EXCEPT ![d].st = "Deleting"]
  /\ UNCHANGED <<contributor, location, exchange, link, topology, pool>>

-----------------------------------------------------------------------------
(* Interfaces.  A loopback draws one address and one segment id for itself *)
(* and one per topology; a physical interface waits for a link.            *)

\* allocate_id for every topology of T, one after the other; ok is FALSE when one fails.
AllocSegments(a, flex, T) ==
  FoldSet(LAMBDA t, acc :
            IF acc.ok /\ IdFree(acc.a) # {}
            THEN [ok |-> TRUE, a |-> IdAllocate(acc.a),
                  flex |-> [acc.flex EXCEPT ![t] = NextId(acc.a)]]
            ELSE [acc EXCEPT !.ok = FALSE],
          [ok |-> TRUE, a |-> a, flex |-> flex], T)

\* deallocate_id for every topology of T.
FreeSegments(a, flex, T) ==
  FoldSet(LAMBDA t, acc : IdDeallocate(acc, flex[t]), a, T)

Tagged(flex) == {t \in Topologies : flex[t] # 0}

CreateInterface(d, i) ==
  /\ Live(device[d]) /\ i \in Physical /\ device[d].ifs[i].st = "none"
  /\ device' = [device EXCEPT ![d].ifs[i] = NewIf]
  /\ UNCHANGED <<contributor, location, exchange, link, topology, pool>>

CreateLoopback(d, T) ==
  LET first == pool.segs
      rest == AllocSegments(IdAllocate(first), NoIf.flex, T)
  IN /\ Live(device[d]) /\ device[d].ifs[Loopback].st = "none"
     /\ \A t \in T : Live(topology[t])
     /\ IpFree(pool.devTunnel, 1) # {} /\ IdFree(first) # {} /\ rest.ok
     /\ device' = [device EXCEPT ![d].ifs[Loopback] =
                     [st |-> "Activated", ip |-> NextIp(pool.devTunnel, 1),
                      seg |-> NextId(first), flex |-> rest.flex]]
     /\ pool' = [pool EXCEPT !.devTunnel = IpAllocate(@, 1), !.segs = rest.a]
     /\ UNCHANGED <<contributor, location, exchange, link, topology>>

\* Links that name the interface.
LinksOf(d, i) ==
  {k \in Links : Live(link[k])
                 /\ <<d, i>> \in {<<link[k].a, link[k].ia>>, <<link[k].z, link[k].iz>>}}

\* DeleteDeviceInterface does not look for links; the CLI refuses a linked interface.
DeleteInterface(d, i) ==
  /\ Live(device[d]) /\ i \in Physical
  /\ device[d].ifs[i].st \in {"Activated", "Unlinked"}
  /\ mode.careful => LinksOf(d, i) = {}
  /\ device' = [device EXCEPT ![d].ifs[i] = NoIf]
  /\ UNCHANGED <<contributor, location, exchange, link, topology, pool>>

\* Mutant: the segments of the topologies stay allocated.
DeleteLoopbackKeepFlex(d) ==
  LET lo == device[d].ifs[Loopback]
  IN /\ Live(device[d]) /\ lo.st = "Activated"
     /\ device' = [device EXCEPT ![d].ifs[Loopback] = NoIf]
     /\ pool' = [pool EXCEPT !.devTunnel = IpDeallocate(@, lo.ip, 1),
                             !.segs = IdDeallocate(@, lo.seg)]
     /\ UNCHANGED <<contributor, location, exchange, link, topology>>

DeleteLoopback(d) ==
  LET lo == device[d].ifs[Loopback]
  IN /\ Live(device[d]) /\ lo.st = "Activated"
     /\ device' = [device EXCEPT ![d].ifs[Loopback] = NoIf]
     /\ pool' = [pool EXCEPT
                   !.devTunnel = IpDeallocate(@, lo.ip, 1),
                   !.segs = IF lo.seg = 0 THEN @
                            ELSE FreeSegments(IdDeallocate(@, lo.seg), lo.flex,
                                              Tagged(lo.flex))]
     /\ UNCHANGED <<contributor, location, exchange, link, topology>>

\* UpdateDeviceInterface with one argument: node_segment_idx; 0 gives it up.
UpdateLoopbackSegment(d, seg) ==
  LET lo == device[d].ifs[Loopback]
      freed == IdDeallocate(pool.segs, lo.seg)
  IN /\ Live(device[d]) /\ lo.st = "Activated"
     /\ IF seg = 0 THEN ~mode.careful ELSE IdSpecificOk(freed, seg)
     /\ device' = [device EXCEPT ![d].ifs[Loopback].seg = seg]
     /\ pool' = [pool EXCEPT !.segs = IF seg = 0 THEN freed
                                      ELSE IdAllocateSpecific(freed, seg)]
     /\ UNCHANGED <<contributor, location, exchange, link, topology>>

\* UpdateDeviceInterface with update_topologies: keep, free and allocate.
UpdateLoopbackTopologies(d, T) ==
  LET lo == device[d].ifs[Loopback]
      gone == Tagged(lo.flex) \ T
      kept == [t \in Topologies |-> IF t \in gone THEN 0 ELSE lo.flex[t]]
      got == AllocSegments(FreeSegments(pool.segs, lo.flex, gone), kept,
                           T \ Tagged(lo.flex))
  IN /\ Live(device[d]) /\ lo.st = "Activated"
     /\ \A t \in T : Live(topology[t])
     /\ T # Tagged(lo.flex) /\ got.ok
     /\ device' = [device EXCEPT ![d].ifs[Loopback].flex = got.flex]
     /\ pool' = [pool EXCEPT !.segs = got.a]
     /\ UNCHANGED <<contributor, location, exchange, link, topology>>

-----------------------------------------------------------------------------
(* Links.  A WAN link is allocated and activated when it is created; a DZX *)
(* link stays Requested, with no network and id 0, until side Z accepts.   *)

\* The topologies a new link is tagged with.
DefaultTags == {UnicastDefault} \cap {t \in Topologies : Live(topology[t])}

\* The reference counts of a new link tagged T.
TagTopologies(T) ==
  [t \in Topologies |-> [topology[t] EXCEPT !.refs = IF t \in T THEN @ + 1 ELSE @]]

\* validate_and_allocate_link_resources: net and id are only drawn when they are unset.
AllocLinkOk(net, id) ==
  /\ net = NoNet => IpFree(pool.devTunnel, 2) # {}
  /\ id = 0 => IdFree(pool.linkIds) # {}

AllocLink(net, id) ==
  [pool EXCEPT !.devTunnel = IF net = NoNet THEN IpAllocate(@, 2) ELSE @,
               !.linkIds = IF id = 0 THEN IdAllocate(@) ELSE @]

LinkNet(net) == IF net = NoNet THEN NextIp(pool.devTunnel, 2) ELSE net
LinkId(id) == IF id = 0 THEN NextId(pool.linkIds) ELSE id

Activate(iface, ip) ==
  [iface EXCEPT !.st = "Activated", !.ip = IF @ = NoNet THEN ip ELSE @]

CreateLink(k, c, a, z, ia, iz) ==
  /\ link[k].st = "none" /\ a # z
  /\ Live(contributor[c]) /\ Live(device[a]) /\ Live(device[z])
  /\ device[a].co = c /\ device[z].co = c
  /\ device[a].ifs[ia].st = "Unlinked" /\ device[z].ifs[iz].st = "Unlinked"
  /\ AllocLinkOk(NoNet, 0)
  /\ LET net == LinkNet(NoNet)
     IN /\ link' = [link EXCEPT ![k] =
                      [st |-> "Activated", co |-> c, a |-> a, z |-> z, ia |-> ia,
                       iz |-> iz, net |-> net, id |-> LinkId(0), topos |-> DefaultTags]]
        /\ device' = [device EXCEPT ![a].refs = @ + 1, ![z].refs = @ + 1,
                                    ![a].ifs[ia] = Activate(@, net),
                                    ![z].ifs[iz] = Activate(@, net + 1)]
  /\ pool' = AllocLink(NoNet, 0)
  /\ contributor' = [contributor EXCEPT ![c].refs = @ + 1]
  /\ topology' = TagTopologies(DefaultTags)
  /\ UNCHANGED <<location, exchange>>

CreateDzxLink(k, c, a, z, ia) ==
  /\ link[k].st = "none" /\ a # z
  /\ Live(contributor[c]) /\ Live(device[a]) /\ Live(device[z])
  /\ device[a].co = c /\ device[a].ifs[ia].st # "none"
  /\ link' = [link EXCEPT ![k] = [NoLink EXCEPT !.st = "Requested", !.co = c, !.a = a,
                                    !.z = z, !.ia = ia, !.topos = DefaultTags]]
  /\ device' = [device EXCEPT ![a].refs = @ + 1, ![z].refs = @ + 1]
  /\ contributor' = [contributor EXCEPT ![c].refs = @ + 1]
  /\ topology' = TagTopologies(DefaultTags)
  /\ UNCHANGED <<location, exchange, pool>>

AcceptLink(k, iz) ==
  LET m == link[k]
      net == LinkNet(m.net)
  IN /\ m.st = "Requested"
     /\ device[m.a].ifs[m.ia].st = "Unlinked" /\ device[m.z].ifs[iz].st = "Unlinked"
     /\ AllocLinkOk(m.net, m.id)
     /\ link' = [link EXCEPT ![k] = [m EXCEPT !.st = "Activated", !.iz = iz,
                                              !.net = net, !.id = LinkId(m.id)]]
     /\ device' = [device EXCEPT ![m.a].ifs[m.ia] = Activate(@, net),
                                 ![m.z].ifs[iz] = Activate(@, net + 1)]
     /\ pool' = AllocLink(m.net, m.id)
     /\ UNCHANGED <<contributor, location, exchange, topology>>

\* SuspendLink, ResumeLink and UpdateLink with one argument, the status.  Link::validate
\* refuses every status but Requested while there is no tunnel_net.
UpdateLinkStatus(k, s) ==
  /\ Live(link[k]) /\ link[k].st # s
  /\ s # "Requested" => link[k].net # NoNet
  /\ link' = [link EXCEPT ![k].st = s]
  /\ UNCHANGED <<contributor, location, exchange, device, topology, pool>>

\* UpdateLink with one argument: tunnel_id.  An old id of 0 is not given back and a new
\* one of 0 is not taken.
UpdateLinkId(k, id) ==
  LET old == link[k].id
      freed == IF old = 0 THEN pool.linkIds ELSE IdDeallocate(pool.linkIds, old)
  IN /\ Live(link[k]) /\ id # old
     /\ mode.careful => 0 \notin {old, id}
     /\ id # 0 => IdSpecificOk(freed, id)
     /\ link' = [link EXCEPT ![k].id = id]
     /\ pool' = [pool EXCEPT !.linkIds = IF id = 0 THEN freed ELSE IdAllocateSpecific(freed, id)]
     /\ UNCHANGED <<contributor, location, exchange, device, topology>>

\* UpdateLink with one argument: tunnel_net; both interfaces get the new addresses.
UpdateLinkNet(k, net) ==
  LET m == link[k]
      freed == IpDeallocate(pool.devTunnel, m.net, 2)
  IN /\ Live(m) /\ m.net # NoNet
     /\ IpSpecificOk(freed, net, 2)
     /\ device[m.a].ifs[m.ia].st # "none" /\ device[m.z].ifs[m.iz].st # "none"
     /\ link' = [link EXCEPT ![k].net = net]
     /\ device' = [device EXCEPT ![m.a].ifs[m.ia].ip = net, ![m.z].ifs[m.iz].ip = net + 1]
     /\ pool' = [pool EXCEPT !.devTunnel = IpAllocateSpecific(freed, net, 2)]
     /\ UNCHANGED <<contributor, location, exchange, topology>>

\* UpdateLink with one argument: link_topologies, diffed against the old ones.
UpdateLinkTopologies(k, T) ==
  LET old == link[k].topos
  IN /\ Live(link[k]) /\ T # old
     /\ \A t \in (T \ old) \cup (old \ T) : Live(topology[t])
     /\ link' = [link EXCEPT ![k].topos = T]
     /\ topology' = [t \in Topologies |->
                       [topology[t] EXCEPT !.refs = IF t \in T \ old THEN @ + 1
                                                    ELSE IF t \in old \ T THEN Less(@)
                                                    ELSE @]]
     /\ UNCHANGED <<contributor, location, exchange, device, pool>>

\* Deleting a link that was never accepted gives back id 0 and unlinks its side A
\* interface, whoever holds them by then; careful callers wait until nobody does.
HarmlessDelete(k) ==
  \/ link[k].net # NoNet
  \/ 0 \notin Held(pool.linkIds) /\ device[link[k].a].ifs[link[k].ia].st # "Activated"

Unlink(ifs, i) ==
  IF i \in IfNames /\ ifs[i].st # "none" THEN [ifs EXCEPT ![i].st = "Unlinked", ![i].ip = NoNet]
  ELSE ifs

\* Mutant: the reference of the side Z device is not given back.
DeleteLinkKeepZ(k) ==
  LET m == link[k]
  IN /\ Live(m) /\ m.st # "Activated"
     /\ mode.careful => HarmlessDelete(k)
     /\ \A t \in m.topos : Live(topology[t])
     /\ link' = [link EXCEPT ![k] = [NoLink EXCEPT !.st = "closed"]]
     /\ device' = [device EXCEPT ![m.a].ifs = Unlink(@, m.ia), ![m.z].ifs = Unlink(@, m.iz),
                                 ![m.a].refs = Less(@)]
     /\ pool' = [pool EXCEPT !.devTunnel = IpDeallocate(@, m.net, 2),
                             !.linkIds = IdDeallocate(@, m.id)]
     /\ contributor' = [contributor EXCEPT ![m.co].refs = Less(@)]
     /\ topology' = [t \in Topologies |->
                       [topology[t] EXCEPT !.refs = IF t \in m.topos THEN Less(@) ELSE @]]
     /\ UNCHANGED <<location, exchange>>

DeleteLink(k) ==
  LET m == link[k]
  IN /\ Live(m) /\ m.st # "Activated"
     /\ mode.careful => HarmlessDelete(k)
     /\ \A t \in m.topos : Live(topology[t])
     /\ link' = [link EXCEPT ![k] = [NoLink EXCEPT !.st = "closed"]]
     /\ device' = [device EXCEPT ![m.a].ifs = Unlink(@, m.ia), ![m.z].ifs = Unlink(@, m.iz),
                                 ![m.a].refs = Less(@), ![m.z].refs = Less(@)]
     /\ pool' = [pool EXCEPT !.devTunnel = IpDeallocate(@, m.net, 2),
                             !.linkIds = IdDeallocate(@, m.id)]
     /\ contributor' = [contributor EXCEPT ![m.co].refs = Less(@)]
     /\ topology' = [t \in Topologies |->
                       [topology[t] EXCEPT !.refs = IF t \in m.topos THEN Less(@) ELSE @]]
     /\ UNCHANGED <<location, exchange>>

-----------------------------------------------------------------------------
(* Topologies.                                                             *)

\* The admin group bit is drawn here and never given back.
CreateTopology(t) ==
  /\ ~Live(topology[t]) /\ IdFree(pool.bits) # {}
  /\ topology' = [topology EXCEPT ![t] = [st |-> "Activated", refs |-> 0,
                                          bit |-> NextId(pool.bits)]]
  /\ pool' = [pool EXCEPT !.bits = IdAllocate(@)]
  /\ UNCHANGED <<contributor, location, exchange, device, link>>

DeleteTopology(t) ==
  /\ Live(topology[t]) /\ topology[t].refs = 0
  /\ topology' = [topology EXCEPT ![t] = [st |-> "closed", refs |-> 0, bit |-> 0]]
  /\ UNCHANGED <<contributor, location, exchange, device, link, pool>>

\* TopologyClear over the links K: the count falls by the links that had the tag.
ClearTopology(t, K) ==
  LET hit == {k \in K : t \in link[k].topos}
      n == topology[t].refs - Cardinality(hit)
  IN /\ \A k \in K : Live(link[k])
     /\ hit # {}
     /\ link' = [k \in Links |-> IF k \in hit THEN [link[k] EXCEPT !.topos = @ \ {t}]
                                 ELSE link[k]]
     /\ topology' = IF Live(topology[t])
                    THEN [topology EXCEPT ![t].refs = IF n < 0 THEN 0 ELSE n]
                    ELSE topology
     /\ UNCHANGED <<contributor, location, exchange, device, pool>>

\* AssignTopologyNodeSegments on one device.
AssignNodeSegments(t, d) ==
  /\ Live(topology[t]) /\ Live(device[d])
  /\ device[d].ifs[Loopback].st # "none" /\ device[d].ifs[Loopback].flex[t] = 0
  /\ IdFree(pool.segs) # {}
  /\ device' = [device EXCEPT ![d].ifs[Loopback].flex[t] = NextId(pool.segs)]
  /\ pool' = [pool EXCEPT !.segs = IdAllocate(@)]
  /\ UNCHANGED <<contributor, location, exchange, link, topology>>
=============================================================================
