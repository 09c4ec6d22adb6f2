\* One part at a time; the Max bounds count what users and the world do to it.
CONSTANTS
  app = app
  other = other
  Callers <- BothCallers
  MaxThreads = 3
  MaxStops = 2
  a1 = a1
  a2 = a2
  b1 = b1
  Ap = {a1, a2, b1}
  SsidOf <- MCSsidOf
  Signal <- MCSignal
  Late = {a1}
  Secured = {"a", "b"}
  NoSsid = "none"
  MaxNetEvents = 3
  Device = {d1}
  NoDevice = NoDevice
  ForegroundOp = {"confirm", "connect", "remove", "scan"}
  MaxBtEvents = 2
  MaxBrightness = 2
  Charge = {"low", "full"}
  Profile = {"saver", "fast"}
  MaxPowerEvents = 2
  Block = "enabled"
  MaxVisible = 1
  MaxCards = 3
  MaxCardEvents = 6
  Output = {m1, m2}
  MaxPanelEvents = 3
SPECIFICATION PartsSpec
INVARIANTS
  PartsTypeOK
  PanelsFollow
  
  CardsHaveWindow
  
PROPERTIES
  EntryGoesWithItsThread
  StopsAndStartsEnd
  EverythingSettles
CHECK_DEADLOCK FALSE
