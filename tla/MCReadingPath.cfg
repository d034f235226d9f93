\* The system really may stop: a poll task deleted while it holds the CHIP
\* stack lock leaves everybody waiting, and the restart ends the behaviour.
CHECK_DEADLOCK FALSE
SPECIFICATION FairSpec
CONSTANTS
  AddressCount = 65536
  ValueCount = 65536
  MaxRegisters = 125
  None = None
  Explored <- MCExplored
  Documents <- MCDocuments
  Readouts = {50, 60}
  QueueSize = 2
  MaxRequests = 1
  Null = Null
  Reset = Reset
  Torn = Torn
INVARIANTS
  TypeOK
  SpecsAreExact
  RequestsFit
  RoutingIsExact
  ChargeIsBounded
  NoUseAfterFree
  ResetIsUnblocked
  StoreAgrees
PROPERTIES
  SubscribersCatchUp
  ResetReboots
