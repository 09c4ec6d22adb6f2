------------------------------ MODULE Hyprland ------------------------------
(***************************************************************************)
(* Hyprland (crates/compositor/src/hyprland.rs).                           *)
(*                                                                         *)
(* A thread of its own, the bridge, takes events from Hyprland's socket    *)
(* into a channel, and wakes the loop by a byte in a socket pair.          *)
(* update_state empties the socket pair, then the channel, and asks for    *)
(* anew what the events were about, by two queries for the windows and two *)
(* for the workspaces, each answered by what is so at that moment.         *)
(***************************************************************************)
EXTENDS Integers, Sequences, FiniteSets, SequencesExt

CONSTANTS
  HyprWin, NoHyprWin,
  HyprSpace,
  HomeOf,         \* window -> the workspace it is on
  HyprOutput,
  MaxHyprEvents   \* bound: what happens in Hyprland, and failures

VARIABLES
  hypr,           \* Hyprland itself
  hypr_socket,    \* events written by Hyprland, not taken by the bridge
  hypr_bridge,    \* "connecting", "reading", "waking" (an event is in the channel) or "ended"
  hypr_channel,
  hypr_wake,      \* is there a byte in the socket pair?
  hypr_state,     \* what state() says
  hypr_urgent,    \* windows that asked for attention
  hypr_known,     \* client_workspaces: windows whose workspace is known
  hypr_step,      \* update_state: what comes next
  hypr_changed, hypr_answer,
  hypr_untold,
  hypr_lost,      \* areas whose news was lost, and not announced since
  hypr_count

hyprVars == <<hypr, hypr_socket, hypr_bridge, hypr_channel, hypr_wake, hypr_state, hypr_urgent, hypr_known,
              hypr_step, hypr_changed, hypr_answer, hypr_untold, hypr_lost, hypr_count>>
mainVars == <<hypr_state, hypr_urgent, hypr_known, hypr_step, hypr_changed, hypr_answer, hypr_untold>>
bridgeVars == <<hypr_bridge, hypr_channel, hypr_wake>>

HyprArea == {"windows", "focus", "workspaces", "monitors"}
Tree == {"windows", "focus"}
Places == {"workspaces", "monitors"}
Counted == hypr_count < MaxHyprEvents /\ hypr_count' = hypr_count + 1
Event(kind, id) == [kind |-> kind, id |-> id]

EventMask(e) ==
  CASE e.kind \in {"workspace", "urgent"} -> {"workspaces"}
    [] e.kind = "monitor" -> Places
    [] e.kind \in {"active", "open", "close", "title"} -> Tree
\* What is asked for anew: update_state refreshes areas in pairs.
Refreshed(areas) == (IF areas \cap Tree # {} THEN Tree ELSE {}) \cup (IF areas \cap Places # {} THEN Places ELSE {})
News(events) == UNION {Refreshed(EventMask(events[i])) : i \in DOMAIN events}

----------------------------------------------------------------------------
(* Hyprland.  What is written before the bridge is connected reaches nobody. *)

\* A workspace is there while it has windows or is shown.
Spaces(h) == {h.place} \cup {HomeOf[w] : w \in h.wins}
Happens(h, about) ==
  LET events == about \o IF Spaces(h) # Spaces(hypr) THEN <<Event("workspace", NoHyprWin)>> ELSE <<>>
  IN  /\ Counted /\ hypr' = h /\ hypr_bridge # "ended"
      /\ IF hypr_bridge = "connecting"
         THEN hypr_lost' = hypr_lost \cup News(events) /\ UNCHANGED hypr_socket
         ELSE hypr_socket' = hypr_socket \o events /\ UNCHANGED hypr_lost
      /\ UNCHANGED <<mainVars, bridgeVars>>

Opens == \E w \in HyprWin \ hypr.wins :
  Happens([hypr EXCEPT !.wins = @ \cup {w}, !.focus = w], <<Event("open", w), Event("active", w)>>)
Closes == \E w \in hypr.wins : \E next \in IF hypr.focus = w THEN (hypr.wins \ {w}) \cup {NoHyprWin} ELSE {hypr.focus} :
  Happens([hypr EXCEPT !.wins = @ \ {w}, !.focus = next],
          <<Event("close", w)>> \o IF next = hypr.focus THEN <<>> ELSE <<Event("active", next)>>)
Focuses == \E w \in hypr.wins \ {hypr.focus} : Happens([hypr EXCEPT !.focus = w], <<Event("active", w)>>)
Renames == \E w \in hypr.wins : Happens([hypr EXCEPT !.title[w] = 1 - @], <<Event("title", w)>>)
Urges == \E w \in hypr.wins \ {hypr.focus} : Happens(hypr, <<Event("urgent", w)>>)
Switches == \E p \in HyprSpace \ {hypr.place} : Happens([hypr EXCEPT !.place = p], <<Event("workspace", NoHyprWin)>>)
Plugs == \E o \in SUBSET HyprOutput \ {hypr.outputs} : Happens([hypr EXCEPT !.outputs = o], <<Event("monitor", NoHyprWin)>>)
World == Opens \/ Closes \/ Focuses \/ Renames \/ Urges \/ Switches \/ Plugs

----------------------------------------------------------------------------
(* The bridge.                                                              *)

BridgeConnects ==
  /\ hypr_bridge = "connecting" /\ hypr_bridge' = "reading"
  /\ UNCHANGED <<hypr, hypr_socket, hypr_channel, hypr_wake, hypr_lost, hypr_count, mainVars>>
BridgeSends ==
  /\ hypr_bridge = "reading" /\ hypr_socket # <<>>
  /\ hypr_channel' = Append(hypr_channel, Head(hypr_socket)) /\ hypr_socket' = Tail(hypr_socket)
  /\ hypr_bridge' = "waking"
  /\ UNCHANGED <<hypr, hypr_wake, hypr_lost, hypr_count, mainVars>>
BridgeWakes ==
  /\ hypr_bridge = "waking" /\ hypr_bridge' = "reading" /\ hypr_wake' = TRUE
  /\ UNCHANGED <<hypr, hypr_socket, hypr_channel, hypr_lost, hypr_count, mainVars>>
\* The stream is over, or an event could not be parsed; the socket pair closes.
BridgeEnds ==
  /\ hypr_bridge \in {"connecting", "reading"} /\ Counted
  /\ hypr_bridge' = "ended" /\ hypr_wake' = TRUE
  /\ UNCHANGED <<hypr, hypr_socket, hypr_channel, hypr_lost, mainVars>>
Bridge == BridgeConnects \/ BridgeSends \/ BridgeWakes \/ BridgeEnds

----------------------------------------------------------------------------
(* update_state.                                                            *)

Differ(s, t) == {a \in HyprArea : s[a] # t[a]}
Untold(told) == hypr_untold' = (hypr_untold \cup Differ(hypr_state, hypr_state')) \ told
Return(told) == hypr_step' = "idle" /\ hypr_changed' = {} /\ Untold(told)
Ask(step) == hypr_step' = step /\ UNCHANGED hypr_changed /\ Untold({})
NoAnswer == UNCHANGED <<hypr_state, hypr_urgent, hypr_known>>

\* At the end of the stream, everything is announced, and the channel dropped.
DrainWake ==
  /\ hypr_step = "idle" /\ hypr_wake /\ hypr_wake' = FALSE
  /\ NoAnswer
  /\ IF hypr_bridge = "ended" THEN hypr_channel' = <<>> /\ Return(HyprArea)
     ELSE Ask("drain") /\ UNCHANGED hypr_channel
  /\ UNCHANGED <<hypr, hypr_socket, hypr_bridge, hypr_answer, hypr_lost, hypr_count>>

ApplyUrgent(urgent, e) ==
  CASE e.kind = "urgent" -> urgent \cup {e.id}
    [] e.kind \in {"active", "close"} -> urgent \ {e.id}
    [] OTHER -> urgent
\* Mutant: one event is taken for each wake-up.
WrongPending == SubSeq(hypr_channel, 1, 1)

Pending == hypr_channel
DrainEvents ==
  LET changed == UNION {EventMask(Pending[i]) : i \in DOMAIN Pending}
  IN  /\ hypr_step = "drain" /\ hypr_channel' = SubSeq(hypr_channel, Len(Pending) + 1, Len(hypr_channel))
      /\ hypr_urgent' = FoldLeft(ApplyUrgent, hypr_urgent, Pending)
      /\ hypr_changed' = changed
      /\ hypr_step' = IF changed \cap Tree # {} THEN "clients" ELSE IF changed # {} THEN "workspaces" ELSE "idle"
      /\ UNCHANGED <<hypr, hypr_socket, hypr_bridge, hypr_wake, hypr_state, hypr_known, hypr_answer, hypr_untold,
                     hypr_lost, hypr_count>>

AskFirst(step, next, answer) ==
  /\ hypr_step = step /\ hypr_answer' = answer /\ NoAnswer /\ Ask(next)
  /\ UNCHANGED <<hypr, hypr_socket, bridgeVars, hypr_lost, hypr_count>>
AskClients == AskFirst("clients", "active", [w \in hypr.wins |-> hypr.title[w]])
RefreshWindows ==
  LET clients == DOMAIN hypr_answer
  IN  /\ hypr_step = "active" /\ hypr_answer' = <<>>
      /\ hypr_state' = [hypr_state EXCEPT !.windows = hypr_answer, !.focus = hypr.focus]
      /\ hypr_urgent' = (hypr_urgent \cap clients) \ {hypr.focus} /\ hypr_known' = clients
      /\ hypr_lost' = hypr_lost \ (Tree \cap hypr_changed)
      /\ IF hypr_changed \cap Places # {} THEN Ask("workspaces") ELSE Return(hypr_changed)
      /\ UNCHANGED <<hypr, hypr_socket, bridgeVars, hypr_count>>
AskWorkspaces == AskFirst("workspaces", "monitors", [all |-> Spaces(hypr)])
\* The list is the first answer's, what is focused the second's.
Shown(spaces, place) == [all |-> spaces, focused |-> spaces \cap {place}]
RefreshWorkspaces ==
  /\ hypr_step = "monitors" /\ hypr_answer' = <<>>
  /\ hypr_state' = [hypr_state EXCEPT !.workspaces = Shown(hypr_answer.all, hypr.place),
                                      !.monitors = hypr.outputs,
                                      !.urgent = {HomeOf[w] : w \in hypr_urgent \cap hypr_known}]
  /\ hypr_lost' = hypr_lost \ (Places \cap hypr_changed) /\ Return(hypr_changed)
  /\ UNCHANGED <<hypr, hypr_socket, bridgeVars, hypr_urgent, hypr_known, hypr_count>>
\* A query that fails ends update_state; the caller announces everything.
QueryFails ==
  /\ hypr_step \in {"clients", "active", "workspaces", "monitors"} /\ Counted /\ NoAnswer /\ hypr_answer' = <<>>
  /\ hypr_lost' = hypr_lost \cup (Refreshed(hypr_changed) \ IF hypr_step \in {"workspaces", "monitors"} THEN Tree ELSE {})
  /\ Return(HyprArea)
  /\ UNCHANGED <<hypr, hypr_socket, bridgeVars>>

UpdateState == DrainWake \/ DrainEvents \/ AskClients \/ RefreshWindows \/ AskWorkspaces \/ RefreshWorkspaces \/ QueryFails

Init ==
  /\ hypr = [wins |-> {}, title |-> [w \in HyprWin |-> 0], focus |-> NoHyprWin,
             place |-> CHOOSE p \in HyprSpace : TRUE, outputs |-> HyprOutput]
  /\ hypr_socket = <<>> /\ hypr_bridge = "connecting" /\ hypr_channel = <<>> /\ hypr_wake = FALSE
  /\ hypr_state = [windows |-> <<>>, focus |-> NoHyprWin, urgent |-> {},
                   workspaces |-> Shown(Spaces(hypr), hypr.place), monitors |-> hypr.outputs]
  /\ hypr_urgent = {} /\ hypr_known = {} /\ hypr_step = "idle" /\ hypr_changed = {} /\ hypr_answer = <<>>
  /\ hypr_untold = {} /\ hypr_lost = {} /\ hypr_count = 0

Next == World \/ Bridge \/ UpdateState
Spec == Init /\ [][Next]_hyprVars

----------------------------------------------------------------------------
TypeOK ==
  /\ hypr_bridge \in {"connecting", "reading", "waking", "ended"} /\ hypr_wake \in BOOLEAN
  /\ hypr_step \in {"idle", "drain", "clients", "active", "workspaces", "monitors"}
  /\ hypr_urgent \cup hypr_known \subseteq HyprWin /\ hypr_state.urgent \subseteq HyprSpace
  /\ hypr_state.focus \in HyprWin \cup {NoHyprWin}
  /\ hypr_changed \cup hypr_untold \cup hypr_lost \subseteq HyprArea

Behind ==
  IF hypr_bridge = "ended" THEN HyprArea
  ELSE News(hypr_socket) \cup News(hypr_channel) \cup Refreshed(hypr_changed) \cup hypr_lost

View == INSTANCE CompositorView WITH
  Area <- HyprArea, behind <- Behind, untold <- hypr_untold,
  view <- [a \in HyprArea |-> hypr_state[a]],
  world <- [windows |-> [w \in hypr.wins |-> hypr.title[w]], focus |-> hypr.focus,
            workspaces |-> Shown(Spaces(hypr), hypr.place), monitors |-> hypr.outputs]

\* Answers of four moments, asked for because of events of earlier ones, together
\* give what is so, unless a query failed, the stream ended, or it happened before
\* the bridge was connected: the state implements the view the shell relies on.
ImplementsView == View!Spec

\* No event stays in the channel with nothing left to wake the loop.
NothingStranded ==
  hypr_channel # <<>> => hypr_wake \/ hypr_bridge = "waking" \/ hypr_step = "drain"
=============================================================================
