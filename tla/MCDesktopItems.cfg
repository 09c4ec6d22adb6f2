\* A panel and a popup with two monitors that come and go.
CONSTANTS
  panel = panel
  widget = widget
  popup = popup
  twin = twin
  m1 = m1
  m2 = m2
  toggle = toggle
  Name = {toggle}
  Area = {}
  NoName = NoName
  Item = {panel, popup}
  Id = {"panel", "popup"}
  Monitor = {m1, m2}
  Unnamed = Unnamed
  Window = {w1, w2, w3}
  Layer = {top}
  NoItem = NoItem
  IdOf <- MCIdOf
  VisibilityOf <- MCVisibilityOf
  StrategyOf <- MCStrategyOf
  ScopeOf <- MCScopeOf
  InitEventsOf <- MCInitEventsOf
  EffectsOf <- MCEffectsOf
  Filter <- MCFilter
  Event <- MCEvent
  EffectFilter <- MCEffectFilter
  MonitorList <- TwoMonitors
  MaxSlots = 2
SYMMETRY WindowSymmetry
SPECIFICATION Spec
INVARIANTS
  TypeOK
  TablesAgree
  DirtyCoversStale
  OneWindowPerOutput

  
