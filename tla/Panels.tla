------------------------------- MODULE Panels -------------------------------
(***************************************************************************)
(* The life of a panel (crates/panels/src/lib.rs): its windows, its place  *)
(* in PanelPositions, and the animation that hides it.  Its components are *)
(* the subject of PanelComponents.                                         *)
(*                                                                         *)
(* One panel of the file is followed, with what the manager of the desktop *)
(* (DesktopItems) and the deployer keep about it.                          *)
(***************************************************************************)
EXTENDS Integers, FiniteSets

CONSTANTS
  Output,          \* the outputs there may be
  MaxPanelEvents   \* bound: edits, commands, outputs that come and go, moves of the pointer

VARIABLES
  panel_file,      \* the configuration file
  panel_watch,     \* has it changed since the watcher was heard?
  animate,         \* are animations enabled?
  last_configs,    \* the panels that the deployer has seen in the file
  panel,           \* the item, and what the manager has of it: active, entry, frames
  panel_wins,      \* its windows, by output
  outputs,         \* the outputs there are
  reserved,        \* PanelPositions: the edge under the panel's name, and under its event's
  panel_drawn,     \* what the windows' widgets were drawn from
  panel_dirty,
  astray,          \* [places, margins]: what has come between the panel and its windows
  panel_count

panelVars == <<panel_file, panel_watch, animate, last_configs, panel, panel_wins, outputs, reserved,
               panel_drawn, panel_dirty, astray, panel_count>>

Edge == {"top", "bottom"}
Names == {"this", "other"}
NoWindow == [open |-> FALSE, anchor |-> "top", margin |-> "none"]
NoWindows == [m \in Output |-> NoWindow]
Counted == panel_count < MaxPanelEvents /\ panel_count' = panel_count + 1

\* A margin is "none", or it tucks away what is anchored to that edge.
Rest(edge, tucked) == IF tucked THEN edge ELSE "none"
Layer(p) == [open |-> TRUE, anchor |-> p.edge, margin |-> Rest(p.edge, p.autohide)]

NewPanel(edge, autohide) ==
  [alive |-> TRUE, active |-> TRUE, entry |-> FALSE, frames |-> FALSE, hidden |-> FALSE,
   edge |-> edge, autohide |-> autohide, hovered |-> FALSE, anim |-> "none", target |-> autohide, at |-> Rest("tucked", autohide)]
DeadPanel == [NewPanel("top", FALSE) EXCEPT !.alive = FALSE, !.active = FALSE]

----------------------------------------------------------------------------
(* The manager: windows are opened and closed, margins changed.             *)

Launch(p, places) ==
  /\ panel_wins' = [m \in Output |-> IF m \in places THEN Layer(p) ELSE panel_wins[m]]
  /\ panel' = [p EXCEPT !.entry = @ \/ places # {}]
\* Windows open as if nothing had moved the panel yet.
Moved(p) == p.at # Rest("tucked", p.autohide) \/ p.anim # "none"

CloseWindows(p) == panel_wins' = NoWindows /\ panel' = [p EXCEPT !.entry = FALSE, !.active = FALSE]
Margins(p, margin) ==
  /\ panel_wins' = [m \in Output |-> IF panel_wins[m].open THEN [panel_wins[m] EXCEPT !.margin = margin] ELSE NoWindow]
  /\ panel' = p
Subscribed(p) == [p EXCEPT !.frames = p.anim # "none"]
Unmoved == UNCHANGED <<panel_file, panel_watch, animate, last_configs, outputs>>

----------------------------------------------------------------------------
(* A reload: the deployer first, then the panel.                            *)

Edit ==
  /\ Counted /\ panel_watch' = TRUE
  /\ \/ \E k \in {"block", "autohide", "animate"} : panel_file' = [panel_file EXCEPT ![k] = ~@]
     \/ \E n \in Names : panel_file' = [panel_file EXCEPT !.names = IF n \in @ THEN @ \ {n} ELSE @ \cup {n}]
     \/ \E e \in Edge \ {panel_file.edge} : panel_file' = [panel_file EXCEPT !.edge = e]
  /\ UNCHANGED <<animate, last_configs, panel, panel_wins, outputs, reserved, panel_drawn, panel_dirty, astray>>

FileNames == IF panel_file.block THEN panel_file.names ELSE {}

\* Without a block the deployer does nothing; when it knows of no panel it only takes note.
Compares == panel_file.block /\ last_configs # {}
Removed == Compares /\ "this" \in last_configs \ FileNames
Added == Compares /\ "this" \in FileNames \ last_configs
Deployer == last_configs' = IF panel_file.block THEN FileNames ELSE last_configs

DestroyRemoved ==
  /\ Removed /\ CloseWindows(DeadPanel) /\ reserved' = [reserved EXCEPT !.name = "none"]
  /\ astray' = [places |-> FALSE, margins |-> FALSE]
DeployAdded ==
  /\ Added /\ Launch(NewPanel(panel_file.edge, panel_file.autohide), outputs)
  /\ reserved' = [reserved EXCEPT !.name = panel_file.edge]
  /\ astray' = [places |-> FALSE, margins |-> FALSE]

\* A panel that is not active hears of a reload only when it is a command.
Hears(command) == panel.alive /\ (panel.active \/ command)
Reconfigure ==
  /\ panel' = [panel EXCEPT !.edge = panel_file.edge, !.autohide = panel_file.autohide]
  /\ reserved' = IF panel.edge = panel_file.edge THEN reserved ELSE [reserved EXCEPT !.name = panel_file.edge]
  /\ astray' = [astray EXCEPT !.margins = @ \/ panel' # panel \/ (panel.anim # "none" /\ ~panel_file.animate)]
  /\ UNCHANGED panel_wins
HandleReload(command) ==
  /\ ~Removed /\ ~Added
  /\ IF Hears(command) /\ "this" \in FileNames THEN Reconfigure
     ELSE /\ astray' = [astray EXCEPT !.margins = @ \/ (panel.anim # "none" /\ ~panel_file.animate)]
          /\ UNCHANGED <<panel, reserved, panel_wins>>

Reload(command) ==
  /\ animate' = panel_file.animate /\ Deployer /\ panel_dirty' = TRUE
  /\ DestroyRemoved \/ DeployAdded \/ HandleReload(command)
  /\ UNCHANGED <<panel_file, outputs, panel_drawn>>
WatcherReload == panel_watch /\ panel_watch' = FALSE /\ Reload(FALSE) /\ UNCHANGED panel_count
CommandReload == Counted /\ Reload(TRUE) /\ UNCHANGED panel_watch

----------------------------------------------------------------------------
(* Commands: they reach a panel that is not active.                         *)

\* Of a name that the file has, which a command has destroyed before.
Create == \E edge \in Edge :
  /\ Counted /\ ~panel.alive /\ "this" \in last_configs
  /\ Launch(NewPanel(edge, FALSE), outputs) /\ reserved' = [reserved EXCEPT !.name = edge]
  /\ astray' = [places |-> FALSE, margins |-> FALSE]
  /\ panel_dirty' = TRUE /\ Unmoved /\ UNCHANGED panel_drawn

Command == Counted /\ panel.alive /\ panel_dirty' = TRUE /\ Unmoved /\ UNCHANGED panel_drawn

\* Disabled, it is only no longer active.  The entry goes under the name of the event.
Configure == \E edge \in Edge, enabled \in BOOLEAN :
  /\ Command /\ panel' = [panel EXCEPT !.edge = edge, !.active = @ /\ enabled]
  /\ reserved' = [reserved EXCEPT !.event = edge]
  /\ astray' = [astray EXCEPT !.margins = @ \/ edge # panel.edge] /\ UNCHANGED panel_wins
\* It is the entry under the name of the event that it removes.
Destroy ==
  /\ Command /\ CloseWindows(DeadPanel) /\ astray' = [places |-> FALSE, margins |-> FALSE]
  /\ UNCHANGED reserved

HidePanel ==
  /\ CloseWindows([panel EXCEPT !.hidden = TRUE]) /\ reserved' = [reserved EXCEPT !.name = "none"]
  /\ astray' = [astray EXCEPT !.places = FALSE]
\* Mutant: the place at the edge is not reserved again.
WrongShowPanel ==
  LET p == [panel EXCEPT !.hidden = FALSE, !.active = TRUE]
  IN  /\ UNCHANGED reserved
      /\ IF panel.entry THEN panel' = p /\ UNCHANGED <<panel_wins, astray>>
         ELSE /\ Launch(p, outputs)
              /\ astray' = [astray EXCEPT !.margins = @ \/ Moved(panel)]

ShowPanel ==
  LET p == [panel EXCEPT !.hidden = FALSE, !.active = TRUE]
  IN  /\ reserved' = [reserved EXCEPT !.name = panel.edge]
      /\ IF panel.entry THEN panel' = p /\ UNCHANGED <<panel_wins, astray>>
         ELSE /\ Launch(p, outputs)
              /\ astray' = [astray EXCEPT !.margins = @ \/ Moved(panel)]
Hide == Command /\ HidePanel
Show == Command /\ ShowPanel
Toggle == Command /\ IF panel.hidden THEN ShowPanel ELSE HidePanel

----------------------------------------------------------------------------
(* Outputs.                                                                 *)

\* A panel that is hidden gets its window on a new output all the same.
Plug == \E m \in Output \ outputs :
  /\ Counted /\ outputs' = outputs \cup {m} /\ panel_dirty' = TRUE
  /\ IF panel.alive THEN Launch(panel, {m}) ELSE UNCHANGED <<panel, panel_wins>>
  /\ astray' = [places |-> astray.places \/ (panel.alive /\ panel.hidden),
                margins |-> astray.margins \/ (panel.alive /\ Moved(panel))]
  /\ UNCHANGED <<panel_file, panel_watch, animate, last_configs, reserved, panel_drawn>>
\* The entry stays, even with no window in it.
Unplug == \E m \in outputs :
  /\ Counted /\ outputs' = outputs \ {m} /\ panel_dirty' = TRUE
  /\ panel_wins' = [panel_wins EXCEPT ![m] = NoWindow]
  /\ UNCHANGED <<panel_file, panel_watch, animate, last_configs, panel, reserved, panel_drawn, astray>>

----------------------------------------------------------------------------
(* The pointer, over what was drawn, and the animation.                     *)

Draw ==
  /\ panel_dirty /\ panel_dirty' = FALSE
  /\ panel_drawn' = [here |-> panel.active /\ \E m \in Output : panel_wins[m].open,
                     autohide |-> panel.autohide, edge |-> panel.edge]
  /\ Unmoved /\ UNCHANGED <<panel, panel_wins, reserved, astray, panel_count>>

StartAutohide(p, target) ==
  IF (target = p.target /\ p.anim # "none") \/ (p.at = Rest("tucked", target) /\ p.anim = "none") THEN p
  ELSE Subscribed([p EXCEPT !.target = target, !.anim = "running"])

PointerAutohide(tucked) ==
  LET p == [panel EXCEPT !.hovered = ~tucked]
  IN  /\ panel.autohide
      /\ IF animate THEN panel' = StartAutohide(p, tucked) /\ UNCHANGED panel_wins
         ELSE IF panel.anim # "none" THEN panel' = p /\ UNCHANGED panel_wins
         ELSE Margins([p EXCEPT !.target = tucked, !.at = Rest("tucked", tucked)], Rest(panel.edge, tucked))
\* Drawn when it was to hide, and heard when it is not: taken at its word.
PointerLate(tucked) ==
  ~panel.autohide /\ Margins(panel, Rest(panel_drawn.edge, tucked))
PointerPlain(tucked) == panel' = [panel EXCEPT !.hovered = ~tucked] /\ UNCHANGED panel_wins

Pointer == \E tucked \in BOOLEAN :
  /\ Counted /\ panel_drawn.here /\ \E m \in Output : panel_wins[m].open
  /\ IF panel_drawn.autohide THEN PointerAutohide(tucked) \/ PointerLate(tucked) ELSE PointerPlain(tucked)
  /\ astray' = [astray EXCEPT !.margins = @ \/ panel_drawn.autohide # panel.autohide]
  /\ panel_dirty' = TRUE /\ Unmoved /\ UNCHANGED <<reserved, panel_drawn>>

Ticks == panel.alive /\ panel.active /\ panel.frames
Tick ==
  /\ Unmoved /\ UNCHANGED <<reserved, panel_drawn, astray, panel_count>> /\ panel_dirty' = TRUE
Moving ==
  /\ Ticks /\ panel.anim = "running" /\ Tick
  /\ Margins([panel EXCEPT !.at = "between"], "between")
Arrives ==
  /\ Ticks /\ panel.anim = "running" /\ Tick
  /\ Margins([panel EXCEPT !.anim = "settling", !.at = Rest("tucked", panel.target)], Rest(panel.edge, panel.target))
Settles ==
  /\ Ticks /\ panel.anim = "settling" /\ Tick
  /\ panel' = Subscribed([panel EXCEPT !.anim = "none"]) /\ UNCHANGED panel_wins

----------------------------------------------------------------------------
Init == \E autohide \in BOOLEAN :
  /\ panel_file = [block |-> TRUE, names |-> {"this"}, edge |-> "top", autohide |-> autohide, animate |-> TRUE]
  /\ panel_watch = FALSE /\ animate = TRUE /\ last_configs = {"this"} /\ outputs = {CHOOSE m \in Output : TRUE}
  /\ panel = [NewPanel("top", autohide) EXCEPT !.entry = TRUE]
  /\ panel_wins = [m \in Output |-> IF m \in outputs THEN Layer(panel) ELSE NoWindow]
  /\ reserved = [name |-> "top", event |-> "none"] /\ panel_drawn = [here |-> FALSE, autohide |-> autohide, edge |-> "top"]
  /\ panel_dirty = TRUE /\ astray = [places |-> FALSE, margins |-> FALSE] /\ panel_count = 0

Next ==
  \/ Edit \/ WatcherReload \/ CommandReload \/ Create \/ Configure \/ Destroy \/ Hide \/ Show \/ Toggle
  \/ Plug \/ Unplug \/ Draw \/ Pointer \/ Moving \/ Arrives \/ Settles
\* An animation of 130 ms comes to its end, while frames are drawn.
Fairness == WF_panelVars(Arrives) /\ WF_panelVars(Settles)
Spec == Init /\ [][Next]_panelVars /\ Fairness

----------------------------------------------------------------------------
TypeOK ==
  /\ panel.edge \in Edge /\ panel.anim \in {"none", "running", "settling"} /\ panel.at \in {"none", "between", "tucked"}
  /\ last_configs \subseteq Names /\ reserved.name \in Edge \cup {"none"} /\ outputs \subseteq Output
  /\ \A m \in Output : panel_wins[m].open => m \in outputs /\ panel.entry

\* The panel that is shown has its place at the edge where it is, for the popups to keep clear of.
ShownPanelReserves == panel.alive /\ ~panel.hidden => panel.edge \in {reserved.name, reserved.event}

\* Shown, it has a window on every output, unless one came while it was hidden.
ShownEverywhere ==
  panel.alive /\ ~panel.hidden /\ ~astray.places => \A m \in outputs : panel_wins[m].open

\* At rest, a panel that hides is tucked away unless the pointer is on it: unless its windows were opened,
\* its configuration changed or animations switched off while it moved.
RestsAsHovered ==
  panel.alive /\ panel.autohide /\ panel.anim = "none" /\ ~astray.margins =>
    \A m \in Output : panel_wins[m].open => panel_wins[m].margin = Rest(panel.edge, ~panel.hovered)

\* It asks for frames while it moves, and only then.
FramesFollowAnimation == panel.alive => (panel.frames = (panel.anim # "none"))
=============================================================================
