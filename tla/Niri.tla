-------------------------------- MODULE Niri --------------------------------
(***************************************************************************)
(* Niri (crates/compositor/src/niri.rs).                                   *)
(*                                                                         *)
(* A stream of events, one per line, is replayed into a state kept by the  *)
(* library niri_ipc; what the shell shows is derived from that, area by    *)
(* area, for the areas that the events' masks name.                        *)
(***************************************************************************)
EXTENDS Integers, Sequences, FiniteSets, SequencesExt

CONSTANTS
  NiriWin, NoNiriWin,
  NiriSpace,       \* workspaces
  OutputOf,        \* workspace -> output
  MaxNiriEvents    \* bound: what happens in niri, and torn lines

VARIABLES
  niri,            \* niri itself
  niri_events,     \* written by niri, not read
  replayed,        \* the state replayed from the events
  niri_state,      \* what state() says
  niri_untold, niri_lost,
  niri_ended,      \* is the stream over?
  niri_count

niriVars == <<niri, niri_events, replayed, niri_state, niri_untold, niri_lost, niri_ended, niri_count>>

NiriArea == {"windows", "focus", "workspaces", "monitors", "overview"}
Counted == niri_count < MaxNiriEvents /\ niri_count' = niri_count + 1
Event(kind, arg) == [kind |-> kind, arg |-> arg]

----------------------------------------------------------------------------
(* Niri, and what EventStreamState makes of an event.  An event carries     *)
(* what it is about as it is then; `arg` is the whole of it.                *)

\* A window that opens, gets a name or takes the focus.
WindowOpened(s, e) == [s EXCEPT !.wins = @ \cup {e.arg.id}, !.focus = IF e.arg.focused THEN e.arg.id ELSE @,
                                !.named = IF e.arg.named THEN @ \cup {e.arg.id} ELSE @ \ {e.arg.id}]
WindowClosed(s, e) == [s EXCEPT !.wins = @ \ {e.arg}, !.named = @ \ {e.arg},
                                !.focus = IF @ = e.arg THEN NoNiriWin ELSE @]
Activated(s, e) == [s EXCEPT !.active = {p \in @ : OutputOf[p] # OutputOf[e.arg.id]} \cup {e.arg.id}]
Replay(s, e) ==
  CASE e.kind = "window_opened" -> WindowOpened(s, e)
    [] e.kind = "window_closed" -> WindowClosed(s, e)
    [] e.kind = "window_focused" -> [s EXCEPT !.focus = e.arg]
    [] e.kind = "activated" -> Activated(s, e)
    [] e.kind = "urgency" -> [s EXCEPT !.urgent = IF e.arg.urgent THEN @ \cup {e.arg.id} ELSE @ \ {e.arg.id}]
    [] e.kind = "workspaces" -> [s EXCEPT !.spaces = e.arg.spaces, !.active = e.arg.active, !.urgent = e.arg.urgent]
    [] e.kind = "overview" -> [s EXCEPT !.overview = e.arg.open]

Happens(e) ==
  /\ ~niri_ended /\ Counted /\ niri' = Replay(niri, e) /\ niri' # niri
  /\ niri_events' = Append(niri_events, e)
  /\ UNCHANGED <<replayed, niri_state, niri_untold, niri_lost, niri_ended>>

Opens == \E w \in NiriWin, n, f \in BOOLEAN : Happens(Event("window_opened", [id |-> w, named |-> n, focused |-> f]))
Closes == \E w \in niri.wins : Happens(Event("window_closed", w))
Focuses == \E w \in niri.wins \cup {NoNiriWin} : Happens(Event("window_focused", w))
Activates == \E p \in niri.spaces : Happens(Event("activated", [id |-> p]))
Urges == \E p \in niri.spaces, u \in BOOLEAN : Happens(Event("urgency", [id |-> p, urgent |-> u]))
\* An output has one active workspace, if it has any.
ActiveIn(spaces) == {a \in SUBSET spaces : \A p \in spaces : Cardinality({q \in a : OutputOf[q] = OutputOf[p]}) = 1}
Rearranges == \E spaces \in SUBSET NiriSpace : \E active \in ActiveIn(spaces) :
  Happens(Event("workspaces", [spaces |-> spaces, active |-> active, urgent |-> niri.urgent \cap spaces]))
Overview == Happens(Event("overview", [open |-> ~niri.overview]))
World == Opens \/ Closes \/ Focuses \/ Activates \/ Urges \/ Rearranges \/ Overview

----------------------------------------------------------------------------
(* The masks, and what is derived.                                          *)

EventMask(e) ==
  CASE e.kind = "workspaces" -> {"workspaces", "monitors"}
    [] e.kind \in {"urgency", "activated"} -> {"workspaces"}
    [] e.kind \in {"window_opened", "window_closed", "window_focused"} -> {"windows", "focus"}
    [] e.kind = "overview" -> {"overview"}
\* An event for a workspace that is not known is skipped.
Accepts(s, e) == e.kind = "activated" => e.arg.id \in s.spaces

\* Windows without a title or a class are not listed, but may have the focus.
ApplyWindows(s) == s.named
ApplyFocus(s) == s.focus
ApplyWorkspaces(s) == [active |-> s.active, all |-> s.spaces, urgent |-> s.urgent]
ApplyMonitors(s) == {OutputOf[p] : p \in s.active}
Derived(s) == [windows |-> ApplyWindows(s), focus |-> ApplyFocus(s), workspaces |-> ApplyWorkspaces(s),
               monitors |-> ApplyMonitors(s), overview |-> s.overview]
ApplyEvents(s, changed) ==
  LET anew == changed \cup (IF "workspaces" \in changed THEN {"monitors"} ELSE {})
  IN  [a \in NiriArea |-> IF a \in anew THEN Derived(s)[a] ELSE niri_state[a]]

Differ(s, t) == {a \in NiriArea : s[a] # t[a]}
Accept(r, e) == IF Accepts(r.state, e)
                THEN [state |-> Replay(r.state, e), changed |-> r.changed \cup EventMask(e)] ELSE r

\* All lines that are there are read.  A line that is only partly there is lost:
\* its beginning is dropped with the buffer, and its end is no event.
Read(whole) ==
  LET r == FoldLeft(Accept, [state |-> replayed, changed |-> {}], whole)
  IN  /\ niri_events # <<>> /\ niri_events' = <<>>
      /\ replayed' = r.state /\ niri_state' = ApplyEvents(r.state, r.changed)
      /\ niri_untold' = (niri_untold \cup Differ(niri_state, niri_state')) \ r.changed
ReadLines == Read(niri_events) /\ UNCHANGED <<niri, niri_lost, niri_ended, niri_count>>
ReadTorn ==
  /\ Counted /\ Read(Front(niri_events))
  /\ niri_lost' = niri_lost \cup EventMask(Last(niri_events)) /\ UNCHANGED <<niri, niri_ended>>
\* At the end of the stream the last lines are replayed, but nothing is derived.
StreamEnds ==
  /\ ~niri_ended /\ Counted /\ niri_ended' = TRUE /\ niri_events' = <<>>
  /\ replayed' = FoldLeft(Accept, [state |-> replayed, changed |-> {}], niri_events).state
  /\ niri_untold' = {} /\ UNCHANGED <<niri, niri_state, niri_lost>>

Init ==
  /\ niri = [wins |-> {}, named |-> {}, focus |-> NoNiriWin, spaces |-> {}, active |-> {}, urgent |-> {},
             overview |-> FALSE]
  /\ replayed = niri /\ niri_state = Derived(niri)
  /\ niri_events = <<>> /\ niri_untold = {} /\ niri_lost = {} /\ niri_ended = FALSE /\ niri_count = 0

UpdateState == ReadLines \/ ReadTorn \/ StreamEnds
Next == World \/ UpdateState
Spec == Init /\ [][Next]_niriVars

----------------------------------------------------------------------------
TypeOK ==
  /\ replayed.wins \subseteq NiriWin /\ niri_state.focus \in NiriWin \cup {NoNiriWin}
  /\ niri_state.windows \subseteq NiriWin /\ niri_untold \subseteq NiriArea /\ niri_lost \subseteq NiriArea

View == INSTANCE CompositorView WITH
  Area <- NiriArea, untold <- niri_untold,
  behind <- IF niri_ended THEN NiriArea ELSE niri_lost \cup (UNION {EventMask(niri_events[i]) : i \in DOMAIN niri_events}),
  view <- niri_state, world <- Derived(niri)

\* The masks name every area an event has a part in, and the replay misses
\* nothing, unless a line was torn: the state implements the view.
ImplementsView == View!Spec

\* While there is a stream, what is shown is what the replayed state says, in every area.
ShowsWhatItReplayed == niri_ended \/ niri_state = Derived(replayed)
=============================================================================
