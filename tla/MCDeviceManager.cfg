SPECIFICATION Spec
CONSTANTS
  Ids = {d1, d2}
  Configs = {c1, c2}
  Objs = {o1, o2}
  None = None
  MaxPollers = 2
  MaxLinkEvents = 2
SYMMETRY Symmetry
INVARIANTS
  TypeOK
  ListMatchesHeap
  SinglePoller
  NoPollerOutlivesItsDevice
  EveryDeviceIsPolled
  EveryEndpointHasADevice
  ReadingsReachTheirDevice
  NoDeviceLeftPaused
PROPERTIES
  FactoryResetForgets
