-------------------------------- MODULE Sway --------------------------------
(***************************************************************************)
(* Sway (crates/compositor/src/sway.rs).                                   *)
(*                                                                         *)
(* update_state reads every event there is.  Some it applies to the state  *)
(* as they are; of the others it only remembers to ask, and the answers,   *)
(* over another socket, are of a later moment than the events.             *)
(***************************************************************************)
EXTENDS Integers, Sequences, FiniteSets, SequencesExt

CONSTANTS
  SwayWin, NoSwayWin,
  SwayWorkspace,
  SwayOutput,
  MaxSwayEvents   \* bound: what happens in sway, and failing queries

VARIABLES
  sway,           \* sway itself
  sway_events,    \* written by sway, not read
  sway_state,     \* what state() says
  sway_step,      \* update_state: "idle", "workspaces" or "windows" (the next query)
  sway_changed, sway_resync,
  sway_untold,
  sway_lost,      \* areas whose query failed
  sway_ended,     \* is the stream over?
  sway_count

swayVars == <<sway, sway_events, sway_state, sway_step, sway_changed, sway_resync,
              sway_untold, sway_lost, sway_ended, sway_count>>

SwayArea == {"windows", "focus", "workspaces", "monitors"}
Tree == {"windows", "focus"}
Places == {"workspaces", "monitors"}
Counted == sway_count < MaxSwayEvents /\ sway_count' = sway_count + 1
Event(change, id, title) == [change |-> change, id |-> id, title |-> title]

----------------------------------------------------------------------------
(* Sway.                                                                    *)

Happens(s, events) ==
  /\ ~sway_ended /\ Counted /\ sway' = s /\ sway_events' = sway_events \o events
  /\ UNCHANGED <<sway_state, sway_step, sway_changed, sway_resync, sway_untold, sway_lost, sway_ended>>

Focused(w) == IF w = NoSwayWin THEN <<>> ELSE <<Event("focus", w, sway.title[w])>>

WindowMaps == \E w \in SwayWin \ sway.wins :
  Happens([sway EXCEPT !.wins = @ \cup {w}, !.focus = w], <<Event("new", w, 0)>> \o Focused(w))
WindowUnmaps == \E w \in sway.wins :
  LET left == sway.wins \ {w} IN
  \E next \in IF sway.focus # w THEN {sway.focus} ELSE IF left = {} THEN {NoSwayWin} ELSE left :
    Happens([sway EXCEPT !.wins = left, !.focus = next],
            <<Event("close", w, 0)>> \o IF next = sway.focus THEN <<>> ELSE Focused(next))
WindowFocused == \E w \in sway.wins \ {sway.focus} : Happens([sway EXCEPT !.focus = w], Focused(w))
WindowRenamed == \E w \in sway.wins :
  Happens([sway EXCEPT !.title[w] = 1 - @], <<Event("title", w, 1 - sway.title[w])>>)
WorkspaceFocused == \E p \in SwayWorkspace \ {sway.place}, w \in sway.wins \cup {NoSwayWin} :
  Happens([sway EXCEPT !.place = p, !.focus = w], <<Event("workspace", NoSwayWin, 0)>> \o Focused(w))
OutputChanges == \E o \in SUBSET SwayOutput \ {sway.outputs} :
  Happens([sway EXCEPT !.outputs = o], <<Event("output", NoSwayWin, 0)>>)
World == WindowMaps \/ WindowUnmaps \/ WindowFocused \/ WindowRenamed \/ WorkspaceFocused \/ OutputChanges

----------------------------------------------------------------------------
(* The events.                                                              *)

\* `r` is what the events so far made of the state.
Resync(r) == [r EXCEPT !.resync = TRUE]
Applied(r, s, areas) == [r EXCEPT !.state = s, !.changed = @ \cup areas]
Listed(s) == DOMAIN s.windows
Without(f, w) == [v \in DOMAIN f \ {w} |-> f[v]]

ApplyFocus(r, e) ==
  IF e.id \notin Listed(r.state) THEN Resync(r)
  ELSE Applied(r, [r.state EXCEPT !.focus = e.id, !.focus_title = e.title], {"focus"})
ApplyTitle(r, e) ==
  IF e.id \notin Listed(r.state) THEN Resync(r)
  ELSE Applied(r, [r.state EXCEPT !.windows[e.id] = e.title], {"windows"})
ApplyClose(r, e) ==
  LET s == [r.state EXCEPT !.windows = Without(@, e.id)]
  IN  IF s.focus = e.id THEN Applied(r, [s EXCEPT !.focus = NoSwayWin], Tree) ELSE Applied(r, s, {"windows"})
ApplyWindowEvent(r, e) ==
  CASE e.change = "focus" -> ApplyFocus(r, e) [] e.change = "title" -> ApplyTitle(r, e)
    [] e.change = "close" -> ApplyClose(r, e) [] OTHER -> Resync(r)
Apply(r, e) == IF e.change \in {"workspace", "output"} THEN [Resync(r) EXCEPT !.changed = @ \cup Places]
               ELSE ApplyWindowEvent(r, e)

Differ(s, t) == {a \in SwayArea : s[a] # t[a]}

\* update_state is over: `told` is its mask.
Return(told) ==
  /\ sway_step' = "idle" /\ sway_changed' = {} /\ sway_resync' = FALSE
  /\ sway_untold' = (sway_untold \cup Differ(sway_state, sway_state')) \ told
Ask(step) == sway_step' = step /\ sway_untold' = sway_untold \cup Differ(sway_state, sway_state')

ReadEvents ==
  LET r == FoldLeft(Apply, [state |-> sway_state, changed |-> {}, resync |-> FALSE], sway_events)
  IN  /\ sway_step = "idle" /\ ~sway_ended /\ sway_events # <<>> /\ sway_events' = <<>>
      /\ sway_state' = r.state
      /\ IF Places \subseteq r.changed \/ r.resync
         THEN /\ sway_changed' = r.changed /\ sway_resync' = r.resync
              /\ Ask(IF Places \subseteq r.changed THEN "workspaces" ELSE "windows")
         ELSE Return(r.changed)
      /\ UNCHANGED <<sway, sway_lost, sway_ended, sway_count>>

RefreshWorkspaces ==
  /\ sway_step = "workspaces"
  /\ sway_state' = [sway_state EXCEPT !.workspaces = sway.place, !.monitors = sway.outputs]
  /\ sway_lost' = sway_lost \ Places
  /\ IF sway_resync THEN Ask("windows") /\ UNCHANGED <<sway_changed, sway_resync>> ELSE Return(sway_changed)
  /\ UNCHANGED <<sway, sway_events, sway_ended, sway_count>>
RefreshWindows ==
  /\ sway_step = "windows"
  /\ sway_state' = [sway_state EXCEPT !.windows = [w \in sway.wins |-> sway.title[w]], !.focus = sway.focus,
                      !.focus_title = IF sway.focus = NoSwayWin THEN 0 ELSE sway.title[sway.focus]]
  /\ sway_lost' = sway_lost \ Tree
  /\ Return(sway_changed \cup Tree)
  /\ UNCHANGED <<sway, sway_events, sway_ended, sway_count>>
\* A query that fails ends update_state; the caller announces everything.
QueryFails ==
  /\ sway_step # "idle" /\ Counted
  /\ sway_lost' = sway_lost \cup (IF sway_step = "workspaces" THEN Places ELSE {})
                            \cup (IF sway_resync THEN Tree ELSE {})
  /\ UNCHANGED sway_state /\ Return(SwayArea)
  /\ UNCHANGED <<sway, sway_events, sway_ended>>
\* Sway shuts down, or the connection ends: nobody connects again.
StreamEnds ==
  /\ sway_step = "idle" /\ ~sway_ended /\ Counted
  /\ sway_ended' = TRUE /\ sway_events' = <<>>
  /\ UNCHANGED sway_state /\ Return(SwayArea)
  /\ UNCHANGED <<sway, sway_lost>>

Init ==
  /\ sway = [wins |-> {}, title |-> [w \in SwayWin |-> 0], focus |-> NoSwayWin,
             place |-> CHOOSE p \in SwayWorkspace : TRUE, outputs |-> SwayOutput]
  /\ sway_events = <<>> /\ sway_step = "idle" /\ sway_changed = {} /\ sway_resync = FALSE
  /\ sway_state = [windows |-> [w \in {} |-> 0], focus |-> NoSwayWin, focus_title |-> 0,
                   workspaces |-> sway.place, monitors |-> sway.outputs]
  /\ sway_untold = {} /\ sway_lost = {} /\ sway_ended = FALSE /\ sway_count = 0

UpdateState == ReadEvents \/ RefreshWorkspaces \/ RefreshWindows \/ QueryFails \/ StreamEnds
Next == World \/ UpdateState
Spec == Init /\ [][Next]_swayVars

----------------------------------------------------------------------------
TypeOK ==
  /\ sway_step \in {"idle", "workspaces", "windows"}
  /\ Listed(sway_state) \subseteq SwayWin /\ sway_state.focus \in SwayWin \cup {NoSwayWin}
  /\ sway_changed \subseteq SwayArea /\ sway_untold \subseteq SwayArea /\ sway_lost \subseteq SwayArea

About(e) ==
  CASE e.change \in {"workspace", "output"} -> SwayArea [] e.change = "focus" -> {"focus"}
    [] e.change = "title" -> {"windows"} [] OTHER -> Tree
Behind ==
  IF sway_ended THEN SwayArea ELSE
  sway_lost \cup (UNION {About(sway_events[i]) : i \in DOMAIN sway_events})
    \cup sway_changed \cup (IF sway_resync THEN Tree ELSE {})

View == INSTANCE CompositorView WITH
  Area <- SwayArea, behind <- Behind, untold <- sway_untold,
  view <- [a \in SwayArea |-> sway_state[a]],
  world <- [windows |-> [w \in sway.wins |-> sway.title[w]], focus |-> sway.focus,
            workspaces |-> sway.place, monitors |-> sway.outputs]

\* Patches and answers of different moments together give what is so, unless a
\* query failed: the state implements the view the shell relies on.
ImplementsView == View!Spec
=============================================================================
