SPECIFICATION Spec
CONSTANTS
  Ids = {d1, d2, d3}
  Configs = {c1, c2}
  Structures = {sFits}
  Oversize = {sTooLong}
  NoStructure = NoStructure
  Truncated = Truncated
  Null = Null
  Vacant = Vacant
  NoFile = NoFile
  Torn = Torn
  Weight <- MCWeight
  DEVICES_MAX = 2
  ReadLimit = 6
  Faults = {}
SYMMETRY Symmetry
PROPERTIES
  NeverLosesDevices
