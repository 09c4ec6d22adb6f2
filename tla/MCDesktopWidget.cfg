\* One desktop widget whose only monitor is unplugged and plugged in again.
CONSTANTS
  panel = panel
  widget = widget
  popup = popup
  twin = twin
  m1 = m1
  m2 = m2
  toggle = toggle
  Name = {toggle}
  Area = {}
  NoName = NoName
  Item = {widget}
  Id = {"widget"}
  Monitor = {m1, m2}
  Unnamed = Unnamed
  Window = {w1, w2, w3}
  Layer = {top}
  NoItem = NoItem
  IdOf <- MCIdOf
  VisibilityOf <- MCVisibilityOf
  StrategyOf <- MCStrategyOf
  ScopeOf <- MCScopeOf
  InitEventsOf <- MCInitEventsOf
  EffectsOf <- MCEffectsOf
  Filter <- MCFilter
  Event <- MCEvent
  EffectFilter <- MCEffectFilter
  MonitorList <- OneMonitor
  MaxSlots = 2
SPECIFICATION Spec
INVARIANT
  ShownOnFirstMonitor
