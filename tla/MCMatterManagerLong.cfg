SPECIFICATION Spec
CONSTANTS
  Ids = {d1}
  MaxParts = 1
  MaxEp = 6
  None = None
  Broken = Broken
  Vacant = Vacant
  PartCounts = {1}
  Longs = {FALSE, TRUE}
  Faults = {}
PROPERTIES
  PartIdsStable
