\* A plugin closes its surface after its one-shot timer has fired.
CONSTANTS
  second = second
  alarm = alarm
  pipe = pipe
  pipe2 = pipe2
  raw = raw
  None = None
  Fd = {3, 4}
  Res = {second, alarm}
  KindOf <- MCKindOf
  Forgetful = {alarm}
  MayHangUp = {}
  MaxEvents = 2
  ExtraPolls = 1
  MaxExpiries = 2
  MaxInbox = 2
SPECIFICATION Spec
INVARIANT
  RepeatingKeepsTicking
