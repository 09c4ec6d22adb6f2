\* An interval, a one-shot timer and a plugin's descriptor that hangs up, clients
\* that stop only what is theirs.
CONSTANTS
  second = second
  alarm = alarm
  pipe = pipe
  pipe2 = pipe2
  raw = raw
  None = None
  Fd = {3, 4}
  Res = {second, alarm, raw}
  KindOf <- MCKindOf
  Forgetful = {}
  MayHangUp = {raw}
  MaxEvents = 2
  ExtraPolls = 1
  MaxExpiries = 2
  MaxInbox = 1
SPECIFICATION Spec
INVARIANTS
  TypeOK
  NoStrandedCommand
  InterestExact
  ActionIsForFile
  NoPhantomTicks
  ClientsKeepTheirs
