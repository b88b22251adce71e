SPECIFICATION Spec
CONSTANTS
  WordBits = 2
  ByteBits = 1
  Contributors = {"c1", "c2"}
  Locations = {"l1", "l2"}
  Exchanges = {"x1"}
  Devices = {"d1", "d2"}
  Links = {"k1", "k2"}
  Topologies = {"ud", "t1"}
  Physical = {"e1", "e2"}
  UnicastDefault = "ud"
  DzBase <- MCDzBase
  Tenants = {"v1"}
  Groups = {"g1"}
  Feeds = {"f1"}
  Payers = {"w1"}
  Ips = {10, 11}
  Types = {"IBRL", "ALLOC", "MCAST"}
  FeedExch <- MCFeedExch
  FeedGroups <- MCFeedGroups
  GeoUsers = {"gu1", "gu2"}
  Probes = {"p1", "p2"}
  Hosts = {"h1"}
  Dests = {"r1"}
  MaxParents = 1
  MaxTargets = 2
  Me = "p1"
  Kinds = {"Outbound", "Inbound"}
  RefreshEvery = 2
  Mode <- Environments
INVARIANTS  Exclusive AllocationComplete UnchangedMeansSeen
PROPERTIES AdmissionWithinCaps Reclaimable
CHECK_DEADLOCK FALSE
