SPECIFICATION Spec
CONSTANTS
  Ids = {d1, d2}
  MaxParts = 2
  MaxEp = 4
  None = None
  Broken = Broken
  Vacant = Vacant
  PartCounts = {0, 2}
  Longs = {FALSE, TRUE}
  Faults = {"resume", "create", "save"}
SYMMETRY Symmetry
INVARIANTS
  TypeOK
  ReadingsReachTheirEndpoint
  EndpointsAreListed
PROPERTIES
  SavedIdsComeBack
