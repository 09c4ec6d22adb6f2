--------------------------- MODULE MCDesktopItems ---------------------------
(***************************************************************************)
(* Small instances of DesktopItems: a panel (Visible, on every monitor), a *)
(* desktop widget (Visible, on the first monitor) and a popup (Transient,  *)
(* OnDemand).                                                              *)
(***************************************************************************)
EXTENDS DesktopItems, TLC

CONSTANTS panel, widget, popup, twin,   \* items
          m1, m2,                       \* monitors
          toggle                        \* an event name

ItemTable ==
  panel  :> [id |-> "panel",  vis |-> "Visible",   when |-> "OnDemand", scope |-> "PerMonitor"] @@
  widget :> [id |-> "widget", vis |-> "Visible",   when |-> "EveryFrame", scope |-> "First"] @@
  popup  :> [id |-> "popup",  vis |-> "Transient", when |-> "OnDemand", scope |-> "First"] @@
  twin   :> [id |-> "panel",  vis |-> "Visible",   when |-> "OnEvent",  scope |-> "Single"]

MCIdOf         == [it \in Item |-> ItemTable[it].id]
MCVisibilityOf == [it \in Item |-> ItemTable[it].vis]
MCStrategyOf   == [it \in Item |-> ItemTable[it].when]
MCScopeOf ==
  [it \in Item |-> [kind |-> ItemTable[it].scope,
                    names |-> IF ItemTable[it].scope = "Single" THEN {m1} ELSE {}]]
MCInitEventsOf == [it \in Item |-> {NamedFilter(toggle)}]

\* What Panel and BackgroundWidget return; a popup shows any renderable, which
\* may be a plugin's, and returns what that asks for.
MCEffectsOf ==
  [it \in Item |->
     IF it \in {panel, widget}
     THEN {"None", "Redraw", "UpdateWindow", "Show", "ReallyHide", "ReallyDestroy", "Subscribe"}
     ELSE EffectKind]

MCFilter == {NamedFilter(toggle), PlainFilter("Frame")}
MCEvent == {AnAction("Named", toggle, {}, FALSE), AnAction("Frame", NoName, {}, FALSE)}
MCEffectFilter == {{}, MCFilter}

OneMonitor == {<<>>, <<m1>>}
TwoMonitors == {<<>>, <<m1>>, <<m2>>, <<m1, m2>>}

WindowSymmetry == Permutations(Window)
=============================================================================
