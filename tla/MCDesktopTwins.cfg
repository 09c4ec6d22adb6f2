\* Two panels with the same id, whose layers change while they are shown or hidden.
CONSTANTS
  panel = panel
  widget = widget
  popup = popup
  twin = twin
  m1 = m1
  m2 = m2
  toggle = toggle
  Name = {toggle}
  Area = {}
  NoName = NoName
  Item = {panel, twin}
  Id = {"panel"}
  Monitor = {m1}
  Unnamed = Unnamed
  Window = {w1, w2}
  Layer = {top, overlay}
  NoItem = NoItem
  IdOf <- MCIdOf
  VisibilityOf <- MCVisibilityOf
  StrategyOf <- MCStrategyOf
  ScopeOf <- MCScopeOf
  InitEventsOf <- MCInitEventsOf
  EffectsOf <- MCEffectsOf
  Filter <- MCFilter
  Event <- MCEvent
  EffectFilter <- MCEffectFilter
  MonitorList <- OneMonitor
  MaxSlots = 2
SYMMETRY WindowSymmetry
SPECIFICATION Spec
INVARIANT
  SlotsAreSound
PROPERTY
  DestroyLeavesNothing
