SPECIFICATION LiveSpec
CONSTANTS
  t1 = t1
  a1 = a1
  a2 = a2
  a3 = a3
  p1 = p1
  p2 = p2
  d1 = d1
  j1 = j1
  j2 = j2
  s1 = s1
  s2 = s2
  s3 = s3
  None = None
  Torrent <- OneTorrent
  Address <- TwoAddresses
  Slot <- TwoSlots
  DiscSlot <- OneDiscSlot
  ConnSlot <- OneConnSlot
  Socket <- TwoSockets
  MaxCandidates = 2
  MaxFailures = 1
  ConnParallel = 1
  QueueLimit = 1
  MaxGeneration = 3
PROPERTIES
  CandidatesTried
  JobsDrain
  DiscoveryStarts
INVARIANT EndpointsDistinct
