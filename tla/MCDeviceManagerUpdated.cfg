SPECIFICATION Spec
CONSTANTS
  Ids = {d1, d2}
  Configs = {c1, c2}
  Objs = {o1, o2}
  None = None
  MaxPollers = 2
  MaxLinkEvents = 0
SYMMETRY Symmetry
INVARIANTS
  UpdatedDevicesFollow
