SPECIFICATION MCSpec
CONSTANTS
  Tasks = {t1, t2, t3}
  Agents = {a1, a2}
  NoAgent = NoAgent
  Incidents = {i1, i2}
  FleetLimit = 1
  Worked = t1
  Broken = i1
INVARIANTS
  OneRepairTask
PROPERTIES
  LiveClaimIsKept
  ExpiredClaimEnds
  UnlistedOutageGetsTask
