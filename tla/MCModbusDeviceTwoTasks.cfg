SPECIFICATION Spec
CONSTANTS
  Tasks = {t1, t2}
  Event = Event
  Http = Http
  Fds = {0, 1}
  None = None
  Readable = {"input"}
  MaxOthers = 1
  MaxLinkEvents = 2
SYMMETRY Symmetry
INVARIANTS
  TypeOK
  DescriptorsAccountedFor
  OwnDescriptorsOnly
CHECK_DEADLOCK FALSE
