\* One process on the node at a time: it may die at any point and another takes
\* its place, with other canary evidence and an empty memory.
CONSTANTS
  w1 = w1
  eyes = eyes
  heart = heart
  lom = lom
  site = site
  Workers = {w1}
  Organs = {eyes, heart}
  Eyes = eyes
  Core = lom
  Projects = {lom, site}
  Sightings <- MCSightings
  Journeys <- MCJourneys
  Registries <- MCRegistries
  OrganReports <- MCOrganReports
  Batches <- MCBatches
  Canaries <- MCCanaries
  Grants <- MCGrants
  Ttl = 1
  MaxAge = 2
  CanaryMaxAge = 1
  MaxRows = 2
  MaxRecords = 3
  Horizon = 4

SPECIFICATION BSpec

INVARIANTS
  BTypeOK
  ActedOnCurrentTruth
  UnattendedStops
  RowsWereAnnounced
  PreparedIsBacked

PROPERTY HumanAskStays
