SPECIFICATION Spec
CONSTANTS
  Ids = {d1, d2, d3}
  Configs = {c1}
  Structures = {sFits}
  Oversize = {sTooLong}
  NoStructure = NoStructure
  Truncated = Truncated
  Null = Null
  Vacant = Vacant
  NoFile = NoFile
  Torn = Torn
  Weight <- MCWeight
  DEVICES_MAX = 2
  ReadLimit = 6
  Faults = {"mount", "format", "load", "flush", "open", "write", "rename"}
SYMMETRY Symmetry
INVARIANTS
  TypeOK
  PublishedIsWhole
PROPERTIES
  OnlyRemovalLosesDevices
  ImplementsContract
