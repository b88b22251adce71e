--------------------------- MODULE MCServiceability ---------------------------
(***************************************************************************)
(* Serviceability for TLC.  Each environment puts one group of instruction *)
(* families to work on few accounts and small pools; the ones named Wild   *)
(* let callers make the calls that careful callers avoid.                  *)
(***************************************************************************)
EXTENDS Serviceability

\* Pools of one or two words of two bits unless an environment says otherwise.
Sizes == [devTunnel |-> 4, linkIds |-> 2, segs |-> 4, bits |-> 2, vrfs |-> 2,
          userTunnel |-> 4, groupIps |-> 2, pubIps |-> 2]

Small == [Sizes EXCEPT !.userTunnel = 2, !.pubIps = 1]

Base == [keys |-> {}, ops |-> {}, racked |-> {}, careful |-> TRUE,
         ips |-> {}, passIps |-> {}, types |-> {}, seat |-> {FALSE}, caps |-> {1}, feedCaps |-> {0},
         targets |-> {}, fields |-> {}, maxUsers |-> 2, maxRefs |-> 9, maxUpdates |-> 2,
         dz |-> 2, ids |-> 2, sizes |-> Sizes]

\* Two devices are placed, moved, put into exchange slots and deleted.
Placing == [Base EXCEPT !.keys = {"c1", "l1", "l2", "x1", "d1", "d2"},
                        !.ops = {"places", "slots", "devices"}]
PlacingWild == [Placing EXCEPT !.careful = FALSE, !.keys = {"c1", "c2", "l1", "x1", "d1", "d2"},
                                !.maxRefs = 1]

Rack == [Base EXCEPT !.keys = {"c1", "l1", "x1", "d1", "d2"}, !.racked = {"d1", "d2"}]

\* Two links between two racked devices, with renumbering.
Linking == [Rack EXCEPT !.keys = @ \cup {"e1", "e2", "k1", "k2"},
                        !.ops = {"links", "interfaces", "renumber"}]
LinkingWild == [Linking EXCEPT !.careful = FALSE, !.keys = @ \ {"e2"}, !.maxRefs = 1]

\* Topologies, the links tagged with them and the segments of two loopbacks.
Tagging == [Rack EXCEPT !.keys = @ \cup {"e1", "k1", "k2", "ud", "t1"},
                        !.ops = {"links", "topologies"}]
Retagging == [Tagging EXCEPT !.keys = @ \ {"k2"}, !.ops = @ \cup {"retag"}]
Segments == [Rack EXCEPT !.keys = @ \cup {"t1"}, !.ops = {"loopbacks", "topologies"}]
SegmentsWild == [Segments EXCEPT !.careful = FALSE, !.sizes.segs = 3]

Edge == [Base EXCEPT !.keys = {"c1", "l1", "x1", "d1", "w1"}, !.racked = {"d1"},
                     !.ips = {10, 11}, !.passIps = {0}]

\* Unicast users of one device with EdgeSeat passes, and with limits.
Unicast == [Edge EXCEPT !.ops = {"passes", "users"},
                        !.types = {"IBRL", "ALLOC"}, !.seat = BOOLEAN, !.fields = {"unicast"},
                        !.maxUsers = 3, !.dz = 4, !.ids = 4, !.sizes.userTunnel = 8]
Limited == [Unicast EXCEPT !.ops = @ \cup {"limits"}, !.maxUsers = 2]
UnicastWild == [Unicast EXCEPT !.keys = @ \cup {"v1"}, !.careful = FALSE,
                               !.types = {"IBRL", "MCAST"}, !.ips = {10},
                               !.passIps = {0, 10}, !.ops = {"tenants", "passes", "users", "updates"},
                               !.seat = {TRUE}, !.dz = 2, !.ids = 2, !.sizes = Small,
                               !.maxRefs = 1]

\* Users whose tunnel, address and tenant are changed, and who are banned.
Updating == [Edge EXCEPT !.keys = @ \cup {"v1"},
                         !.ops = {"tenants", "passes", "users", "updates"},
                         !.fields = {"users"}, !.ips = {10}, !.passIps = {10}, !.types = {"ALLOC", "MCAST"},
                         !.sizes = Small]
UpdatingLimited == [Updating EXCEPT !.ops = {"passes", "users", "limits"}]
UpdatingFull == [Updating EXCEPT !.ops = {"passes", "users", "updates"}, !.maxUsers = 1]

\* Multicast users: roles from allowlists, and seats of feeds.
Multicast == [Edge EXCEPT !.keys = @ \cup {"g1"}, !.ops = {"allowlists", "groups", "roles"},
                          !.types = {"MCAST"}, !.sizes.groupIps = 1]
MulticastWild == [Multicast EXCEPT !.careful = FALSE, !.sizes = Sizes, !.types = {"ALLOC", "MCAST"},
                                   !.ips = {10}, !.ops = {"passes", "allowlists", "groups", "roles",
                                                            "users"}]
Seats == [Edge EXCEPT !.keys = @ \cup {"g1"}, !.ops = {"passes", "groups", "roles"},
                      !.types = {"MCAST"}, !.seat = BOOLEAN, !.feedCaps = {0, 1, 2}]

\* A geolocation user whose targets name two probes.
Geo == [Rack EXCEPT !.keys = {"c1", "l1", "x1", "d1", "p1", "p2", "gu1"}, !.racked = {"d1"},
                    !.ops = {"geolocation"},
                    !.targets = {Target("Outbound", "h1", 0, "p1"), Target("Outbound", "h1", 1, "p1"),
                                 Target("Inbound", "h1", 0, "p2")}]

\* The agent of a probe, with restarts and reads that fail.
Probing == [Geo EXCEPT !.keys = {"c1", "l1", "x1", "p1", "gu1"},
                       !.ops = {"geolocation", "agent"}, !.maxUpdates = 2,
                       !.targets = {Target("Outbound", "h1", 0, "p1"), Target("Inbound", "h1", 0, "p1")}]

Environments ==
  {Placing, PlacingWild, Linking, LinkingWild, Tagging, Retagging, Segments,
   SegmentsWild, Unicast, Limited, UnicastWild, Updating, UpdatingLimited, UpdatingFull, Multicast,
   MulticastWild, Seats, Geo, Probing}

MCDzBase == [d \in {"d1", "d2"} |-> IF d = "d1" THEN 500 ELSE 600]
MCFeedExch == [f \in {"f1"} |-> "x1"]
MCFeedGroups == [f \in {"f1"} |-> {"g1"}]
=============================================================================
