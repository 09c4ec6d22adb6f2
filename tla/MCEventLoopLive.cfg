\* A notification pipe and an interval that is stopped, with running threads.
CONSTANTS
  second = second
  alarm = alarm
  pipe = pipe
  pipe2 = pipe2
  raw = raw
  None = None
  Fd = {3, 4}
  Res = {second, pipe}
  KindOf <- MCKindOf
  Forgetful = {}
  MayHangUp = {}
  MaxEvents = 3
  ExtraPolls = 1
  MaxExpiries = 1
  MaxInbox = 2
SPECIFICATION FairSpec
INVARIANT
  NoLostSignal

  
