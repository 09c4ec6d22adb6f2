\* One part at a time; the Max bounds count what users and the world do to it.
CONSTANTS
  Bus = {1, 2, 3}
  IdentityOf <- MCIdentityOf
  NoBus = NoBus
  MaxAudioEvents = 2
  Icon = {i1, i2}
  NoIcon = NoIcon
  MaxDepth = 2
  MaxTrayEvents = 4
  SwayWin = {w1, w2}
  NoSwayWin = NoSwayWin
  SwayWorkspace = {1, 2}
  SwayOutput = {o1}
  MaxSwayEvents = 4
  NiriWin = {w1, w2}
  NoNiriWin = NoNiriWin
  NiriSpace = {1, 2, 3}
  OutputOf <- MCOutputOf
  MaxNiriEvents = 3
  HyprWin = {w1, w2}
  NoHyprWin = NoHyprWin
  HyprSpace = {1, 2}
  HyprOutput = {o1}
  HomeOf <- MCHomeOf
  MaxHyprEvents = 3
  Toplevel = {w1, w2}
  NoToplevel = NoToplevel
  FbSpace = {1, 2}
  FbOutput = {o1, o2}
  NoFbOutput = NoFbOutput
  MaxFbEvents = 4
  Win = {w1, w2}
  NoWin = NoWin
  Action = {"reboot", "shutdown"}
  MaxPopupEvents = 5
  Configs <- MCConfigs
  NewItems <- MCNewItems
  MaxCompEvents = 4
  App = {1, 2}
  Named = {2}
  Pathed = {1, 2}
  Page <- MCPage
  MaxQuery = 2
  MaxSpotEvents = 3
SPECIFICATION PartsSpec
INVARIANTS
  PartsTypeOK
  

  
  
  
  
CHECK_DEADLOCK FALSE
