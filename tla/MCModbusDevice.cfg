SPECIFICATION FairSpec
CONSTANTS
  Tasks = {t1}
  Event = Event
  Http = Http
  Fds = {0, 1}
  None = None
  Readable = {"input", "holding"}
  MaxOthers = 1
  MaxLinkEvents = 2
INVARIANTS
  NoStaleAnswer
  NothingAfterDelete
PROPERTIES
  PauseTakesHold
  ReadingsKeepFlowing
CHECK_DEADLOCK FALSE
