\* A plugin descriptor whose writer writes and hangs up.
CONSTANTS
  second = second
  alarm = alarm
  pipe = pipe
  pipe2 = pipe2
  raw = raw
  None = None
  Fd = {3, 4}
  Res = {raw}
  KindOf <- MCKindOf
  Forgetful = {}
  MayHangUp = {raw}
  MaxEvents = 2
  ExtraPolls = 1
  MaxExpiries = 2
  MaxInbox = 2
SPECIFICATION Spec
INVARIANT
  ReadyFdsArrive
