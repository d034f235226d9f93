SPECIFICATION FairSpec
CONSTANTS
  Page = page
  Others = {other}
  Fds = {f1, f2}
  MaxClients = 2
  Second = 2
  WindowSeconds = 1
  Longest = 2
  Word = 3
  Scopes <- MCScopes
  MaxOpens = 2
  None = None
  Http = Http
  Ghost = Ghost
INVARIANTS
  TypeOK
  RegistrationsSurvive
  RegisteredClientsAreTold
PROPERTIES
  SlotsComeBack
  CountdownNeverOverpromises
  ClosedWindowIsShownClosed
