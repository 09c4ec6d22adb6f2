------------------------------- MODULE Popups -------------------------------
(***************************************************************************)
(* The popup item (crates/popups) and the menus it shows that keep state   *)
(* of their own (crates/menus: clock, window, actions, shade, system;      *)
(* crates/plugin-host/src/renderable.rs for a plugin's).                   *)
(*                                                                         *)
(* One menu is current.  Commands come from the panels, from the keyboard  *)
(* of the compositor and from menus; clicks come from what was last drawn, *)
(* and the messages of one batch are all handled before the next drawing.  *)
(***************************************************************************)
EXTENDS Integers, FiniteSets

CONSTANTS
  Win, NoWin,      \* windows of the compositor
  Action,          \* what the actions menu asks to confirm
  MaxPopupEvents   \* bound: commands, clicks and changes of the world

VARIABLES
  desk,            \* the compositor: the windows, the active one
  known,           \* what the shell last read of it
  popup,           \* the item and its menus
  popup_drawn,     \* the widgets on the screen
  popup_dirty,
  executed,        \* the last action of the actions menu that was carried out
  popup_count

popupVars == <<desk, known, popup, popup_drawn, popup_dirty, executed, popup_count>>

Content == {"clock", "window", "actions", "shade", "system", "plugin"}
Request == Content \cup {"unregistered"}
Counted == popup_count < MaxPopupEvents /\ popup_count' = popup_count + 1

----------------------------------------------------------------------------
(* The menus' initialize and close.  `last` is the window seen last.        *)

ActiveWindow(p) == IF known.active # NoWin THEN known.active ELSE p.last

ClockInit(p) == [p EXCEPT !.clock = 1]
WindowInit(p) == [p EXCEPT !.window = 1, !.confirming = FALSE, !.target = ActiveWindow(p)]
ShadeInit(p) == [p EXCEPT !.last = ActiveWindow(p)]
SystemInit(p) == [p EXCEPT !.sampling = TRUE]
PluginInit(p) == [p EXCEPT !.plugin = @ + 1]
Initialized(p, c) ==
  CASE c = "clock" -> ClockInit(p) [] c = "window" -> WindowInit(p) [] c = "shade" -> ShadeInit(p)
    [] c = "system" -> SystemInit(p) [] c = "plugin" -> PluginInit(p) [] OTHER -> p

ClockClose(p) == [p EXCEPT !.clock = 0]
WindowClose(p) == [p EXCEPT !.window = 0, !.confirming = FALSE, !.target = NoWin]
SystemClose(p) == [p EXCEPT !.sampling = FALSE]
PluginClose(p) == [p EXCEPT !.plugin = 0]
Stopped(p) ==
  CASE p.current = "clock" -> ClockClose(p) [] p.current = "window" -> WindowClose(p)
    [] p.current = "system" -> SystemClose(p) [] p.current = "plugin" -> PluginClose(p) [] OTHER -> p

CloseCurrent(p) == [Stopped(p) EXCEPT !.current = "none"]
\* Mutant: the surface stays.
WrongHide(p) == CloseCurrent(p)

Hide(p) == [CloseCurrent(p) EXCEPT !.shown = FALSE]

Open(p, c) ==
  IF c \notin Content THEN p
  ELSE [Initialized(IF p.current \in {"none", c} THEN p ELSE CloseCurrent(p), c)
          EXCEPT !.current = c, !.shown = TRUE]
Toggle(p, c) == IF p.current = c THEN Hide(p) ELSE Open(p, c)

(* What a menu makes of a message: code 40 and a number, whoever drew it.   *)
ClockHandle(p, k) == [p EXCEPT !.offset = IF k = 2 THEN 0 ELSE @ + 2 * k - 1]
WindowHandle(p, k) == [p EXCEPT !.confirming = IF k \in {0, 1} THEN k = 0 ELSE @]
ActionsHandle(p, k) ==
  LET q == [p EXCEPT !.pending = "none"]
  IN  IF k = 1 THEN q ELSE IF k = 0 /\ p.pending = "none" THEN p ELSE Hide(q)
Handle(p, k) ==
  CASE p.current = "clock" -> ClockHandle(p, k) [] p.current = "window" -> WindowHandle(p, k)
    [] p.current = "actions" -> ActionsHandle(p, k) [] OTHER -> p

Executes(k) == popup.current = "actions" /\ k = 0 /\ popup.pending # "none"

----------------------------------------------------------------------------
(* What is drawn, and the clicks that this offers.                          *)

View(p) ==
  [here    |-> p.shown,
   content |-> IF ~p.shown \/ (p.current = "window" /\ p.target \notin known.wins)
               THEN "none" ELSE p.current,
   prompt  |-> CASE p.current = "actions" -> p.pending
                 [] p.current = "window" /\ p.confirming -> "kill"
                 [] OTHER -> "none",
   today   |-> p.offset # 0,
   live    |-> TRUE]  \* the rows still write where the menu reads

Message(k) == <<"message", k>>
Button(do, arg) == <<do, arg>>
ClockButtons(d) == {Message(k) : k \in IF d.today THEN 0..2 ELSE 0..1}
WindowButtons(d) == IF d.prompt = "kill" THEN {Button("hide", "kill"), Message(1)}
                    ELSE {Button("hide", "close"), Message(0)}
\* Mutant: the rows stay when one has been chosen.
WrongActionRows(d) ==
  {Button("row", a) : a \in Action \cup {"lock"}} \cup IF d.prompt = "none" THEN {} ELSE {Message(0), Message(1)}

ActionRows(d) == IF d.prompt = "none" THEN {Button("row", a) : a \in Action \cup {"lock"}}
                 ELSE {Message(0), Message(1)}
ShadeTiles == {Button("go", c) : c \in {"clock", "window"}}
Buttons(d) ==
  CASE d.content = "clock" -> ClockButtons(d) [] d.content = "window" -> WindowButtons(d)
    [] d.content = "actions" -> ActionRows(d) [] d.content = "shade" -> ShadeTiles [] OTHER -> {}
\* Escape, or a press beside the menu.
OnClose(d) == CASE d.content = "none" -> {} [] d.content = "actions" -> {Message(2)} [] OTHER -> {Button("hide", "")}

----------------------------------------------------------------------------
Became(p) ==
  /\ popup' = p /\ popup_dirty' = TRUE
  /\ popup_drawn' = [popup_drawn EXCEPT !.here = @ /\ p.shown]

Command(p) == Counted /\ Became(p) /\ UNCHANGED <<desk, known, executed>>
ToggleMenu == \E c \in Request : Command(Toggle(popup, c))
OpenMenu == \E c \in Request : Command(Open(popup, c))
CloseMenu == Command(Hide(popup))

\* A message of a window that is no longer the item's goes nowhere.
Heard == popup_drawn.here

ClickMessage(k) ==
  /\ Message(k) \in Buttons(popup_drawn) \cup OnClose(popup_drawn)
  /\ IF Heard
     THEN /\ popup' = Handle(popup, k) /\ popup_dirty' = TRUE
          /\ executed' = IF Executes(k) THEN popup.pending ELSE executed
          /\ popup_drawn' = [popup_drawn EXCEPT !.here = popup'.shown,
                                                !.live = @ /\ popup.current # "actions"]
     ELSE UNCHANGED <<popup, popup_dirty, executed, popup_drawn>>
ClickHide ==
  /\ \E a \in {"", "kill", "close"} : Button("hide", a) \in Buttons(popup_drawn) \cup OnClose(popup_drawn)
  /\ Became(IF Heard THEN Hide(popup) ELSE popup) /\ UNCHANGED executed
\* A row keeps where it was told to write when it was drawn.
ClickRow(a) ==
  /\ Button("row", a) \in Buttons(popup_drawn)
  /\ executed' = IF a = "lock" THEN a ELSE executed
  /\ Became(IF a = "lock" THEN (IF Heard THEN Hide(popup) ELSE popup)
            ELSE [popup EXCEPT !.pending = IF popup_drawn.live THEN a ELSE @])
\* The shade hides itself and asks for another menu.
ClickGo(c) ==
  /\ Button("go", c) \in Buttons(popup_drawn)
  /\ popup' = Open(IF Heard THEN Hide(popup) ELSE popup, c) /\ popup_dirty' = TRUE
  /\ popup_drawn' = [popup_drawn EXCEPT !.here = FALSE]
  /\ UNCHANGED executed
Click ==
  /\ Counted
  /\ (\E k \in 0..2 : ClickMessage(k)) \/ ClickHide \/ (\E a \in Action \cup {"lock"} : ClickRow(a))
     \/ \E c \in Content : ClickGo(c)
  /\ UNCHANGED <<desk, known>>

Draw ==
  /\ popup_dirty /\ popup_dirty' = FALSE
  /\ popup_drawn' = View(popup)
  /\ popup' = IF popup.shown /\ popup.current = "shade" THEN ShadeInit(popup) ELSE popup
  /\ UNCHANGED <<desk, known, executed, popup_count>>

\* The window menu follows its window; it hears of changes while it is shown.
UpdateCompositor ==
  /\ known # desk /\ known' = desk
  /\ IF popup.shown /\ popup.current = "window" /\ popup.target \notin desk.wins \cup {NoWin}
     THEN Became(Hide(popup))
     ELSE /\ popup_dirty' = (popup_dirty \/ (popup.shown /\ popup.current \in {"window", "shade"}))
          /\ UNCHANGED <<popup, popup_drawn>>
  /\ UNCHANGED <<desk, executed, popup_count>>

\* The output is unplugged: its surface goes, and the item is not told.
MonitorLost ==
  /\ Counted /\ popup.shown
  /\ popup' = [popup EXCEPT !.shown = FALSE] /\ popup_drawn' = [popup_drawn EXCEPT !.here = FALSE]
  /\ popup_dirty' = TRUE /\ UNCHANGED <<desk, known, executed>>

\* A widget of the desktop that lists processes comes and goes.
WidgetLists ==
  /\ Counted /\ popup' = [popup EXCEPT !.listing = ~@, !.sampling = ~popup.listing]
  /\ UNCHANGED <<desk, known, popup_drawn, popup_dirty, executed>>

DeskChanges ==
  /\ Counted
  /\ \E ws \in SUBSET Win : \E a \in ws \cup {NoWin} : desk' = [wins |-> ws, active |-> a]
  /\ desk' # desk /\ UNCHANGED <<known, popup, popup_drawn, popup_dirty, executed>>

Init ==
  /\ desk = [wins |-> Win, active |-> NoWin] /\ known = desk
  /\ popup = [current |-> "none", shown |-> FALSE, clock |-> 0, window |-> 0, plugin |-> 0, offset |-> 0,
              target |-> NoWin, confirming |-> FALSE, last |-> NoWin, pending |-> "none",
              sampling |-> FALSE, listing |-> FALSE]
  /\ popup_drawn = View(popup) /\ popup_dirty = FALSE
  /\ executed = "none" /\ popup_count = 0

Next == ToggleMenu \/ OpenMenu \/ CloseMenu \/ Click \/ Draw \/ UpdateCompositor \/ MonitorLost
        \/ WidgetLists \/ DeskChanges
Spec == Init /\ [][Next]_popupVars

----------------------------------------------------------------------------
TypeOK ==
  /\ popup.current \in Content \cup {"none"} /\ popup.shown \in BOOLEAN
  /\ popup.clock \in 0..1 /\ popup.window \in 0..1 /\ popup.plugin \in 0..MaxPopupEvents
  /\ popup.offset \in -MaxPopupEvents..MaxPopupEvents
  /\ popup.target \in Win \cup {NoWin} /\ popup.pending \in Action \cup {"none"}
  /\ popup_drawn.content \in Content \cup {"none"} /\ executed \in Action \cup {"lock", "none"}

\* A surface over the whole screen is never left with nothing to show.
SurfaceHasContent == popup.shown => popup.current # "none"

\* Timers and sampling run for the menu that is current, and for no other.
ResourcesFollow ==
  /\ popup.clock = 1 <=> popup.current = "clock"
  /\ popup.window = 1 <=> popup.current = "window"
  /\ popup.plugin > 0 <=> popup.current = "plugin"
  /\ popup.sampling => popup.current = "system" \/ popup.listing

\* The window menu does not outlive the window it is about.
GoneTargetCloses ==
  [][known' # known /\ popup.current = "window" /\ popup.shown /\ popup.target \notin known'.wins \cup {NoWin}
       => ~popup'.shown]_popupVars

\* The actions menu carries out nothing but the action its prompt names, or the
\* lock, which needs none.
ExecutesWhatItNamed ==
  [][executed' # executed /\ popup_drawn.content = "actions" => executed' \in {popup_drawn.prompt, "lock"}]_popupVars
=============================================================================
