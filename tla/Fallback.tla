------------------------------ MODULE Fallback ------------------------------
(***************************************************************************)
(* Any other Wayland compositor (crates/compositor/src/fallback.rs), by    *)
(* the protocols wl_output, ext-workspace and wlr-foreign-toplevel.        *)
(*                                                                         *)
(* Events build up tables of objects, and what they touch is marked dirty. *)
(* update_state applies all there are and derives all of the state anew.   *)
(* An output's own events, its name and which group of workspaces it is in,*)
(* are sent when it is bound, which the client does on hearing of it.      *)
(***************************************************************************)
EXTENDS Integers, Sequences, FiniteSets, SequencesExt

CONSTANTS
  Toplevel, NoToplevel,
  FbSpace,        \* workspaces
  FbOutput, NoFbOutput,
  MaxFbEvents     \* bound: what happens in the compositor, and failures

VARIABLES
  fb,             \* the compositor itself
  fb_events,      \* written by the compositor, not read
  fb_bound,       \* outputs the compositor has answered the binding of
  fb_inner,       \* the tables of objects
  fb_state,       \* what state() says
  fb_untold,
  fb_broken,      \* has the connection failed?
  fb_count

fbVars == <<fb, fb_events, fb_bound, fb_inner, fb_state, fb_untold, fb_broken, fb_count>>

FbArea == {"windows", "focus", "workspaces", "monitors"}
Tree == {"windows", "focus"}
Places == {"workspaces", "monitors"}
Counted == fb_count < MaxFbEvents /\ fb_count' = fb_count + 1
Event(kind, id, arg) == [kind |-> kind, id |-> id, arg |-> arg]
Bare(kind, id) == Event(kind, id, NoFbOutput)

----------------------------------------------------------------------------
(* The compositor.  Every output has a group, and every workspace is in one. *)

Happens(s, events) ==
  /\ Counted /\ fb' = s /\ fb_events' = fb_events \o events
  /\ UNCHANGED <<fb_bound, fb_inner, fb_state, fb_untold, fb_broken>>
\* The states of a window, of which 1 is that it is activated.
Activation(w, state) == IF w = NoToplevel THEN <<>> ELSE <<Event("state", w, state)>>

ToplevelOpens == \E w \in Toplevel \ fb.tops :
  Happens([fb EXCEPT !.tops = @ \cup {w}, !.focus = w],
          <<Bare("toplevel", w), Event("title", w, fb.title[w])>> \o Activation(fb.focus, 0) \o Activation(w, 1))
ToplevelCloses == \E w \in fb.tops :
  Happens([fb EXCEPT !.tops = @ \ {w}, !.focus = IF @ = w THEN NoToplevel ELSE @], <<Bare("closed", w)>>)
ToplevelRenamed == \E w \in fb.tops :
  Happens([fb EXCEPT !.title[w] = 1 - @], <<Event("title", w, 1 - fb.title[w])>>)
FocusMoves == \E w \in fb.tops \cup {NoToplevel} :
  w # fb.focus /\ Happens([fb EXCEPT !.focus = w], Activation(fb.focus, 0) \o Activation(w, 1))
SpaceActivated == \E p \in FbSpace \ {fb.active} :
  Happens([fb EXCEPT !.active = p], <<Event("inactive", fb.active, NoFbOutput), Bare("active", p)>>)
SpaceMoves == \E p \in FbSpace, o \in fb.outputs : fb.at[p] # o
  /\ Happens([fb EXCEPT !.at[p] = o], <<Event("ws_leave", fb.at[p], p), Event("ws_enter", o, p)>>)
OutputPlugged == \E o \in FbOutput \ fb.outputs :
  Happens([fb EXCEPT !.outputs = @ \cup {o}], <<Bare("global", o), Bare("group", o)>>)
\* The workspaces of an output that goes move to another one, in some order.
OutputUnplugged == \E o, next \in fb.outputs : LET moved == {p \in FbSpace : fb.at[p] = o} IN
  \E order \in Bijection(1 .. Cardinality(moved), moved) :
    /\ o # next /\ o \in fb_bound
    /\ Counted /\ fb' = [fb EXCEPT !.outputs = @ \ {o}, !.at = [p \in FbSpace |-> IF @[p] = o THEN next ELSE @[p]]]
    /\ fb_bound' = fb_bound \ {o}
    /\ fb_events' = fb_events \o [i \in DOMAIN order |-> Event("ws_leave", o, order[i])]
                              \o [i \in DOMAIN order |-> Event("ws_enter", next, order[i])]
                              \o <<Bare("output_leave", o), Bare("group_removed", o), Bare("global_remove", o)>>
    /\ UNCHANGED <<fb_inner, fb_state, fb_untold, fb_broken>>
OutputAnswered == \E o \in (fb_inner.unnamed \cap fb.outputs) \ fb_bound :
  /\ fb_bound' = fb_bound \cup {o} /\ fb_events' = fb_events \o <<Bare("name", o), Bare("output_enter", o)>>
  /\ UNCHANGED <<fb, fb_inner, fb_state, fb_untold, fb_broken, fb_count>>
World == ToplevelOpens \/ ToplevelCloses \/ ToplevelRenamed \/ FocusMoves \/ SpaceActivated \/ SpaceMoves
         \/ OutputPlugged \/ OutputUnplugged

----------------------------------------------------------------------------
(* The events: each changes the tables t, and marks areas as dirty.         *)

Touch(t, areas) == [t EXCEPT !.dirty = @ \cup areas]

\* An output that goes is not taken out of the table.
RegistryEvent(t, e) ==
  IF e.kind = "global" THEN Touch([t EXCEPT !.unnamed = @ \cup {e.id}], {"monitors"}) ELSE t
\* Until it has a name, an output is shown by the number of its object.
OutputEvent(t, e) == Touch([t EXCEPT !.unnamed = @ \ {e.id}, !.named = @ \cup {e.id}], {"monitors"})
ManagerEvent(t, e) == Touch([t EXCEPT !.groups = @ \cup {e.id}], Places)
GroupEvent(t, e) ==
  Touch(CASE e.kind = "output_enter" -> [t EXCEPT !.entered = @ \cup ({e.id} \cap t.groups)]
          [] e.kind = "output_leave" -> [t EXCEPT !.entered = @ \ {e.id}]
          [] e.kind = "ws_enter" -> [t EXCEPT !.group[e.arg] = e.id]
          [] e.kind = "ws_leave" -> [t EXCEPT !.group[e.arg] = NoFbOutput]
          [] e.kind = "group_removed" -> [t EXCEPT !.groups = @ \ {e.id}, !.entered = @ \ {e.id}], Places)
WorkspaceEvent(t, e) ==
  Touch([t EXCEPT !.active = IF e.kind = "active" THEN @ \cup {e.id} ELSE @ \ {e.id}], Places)
ToplevelManagerEvent(t, e) ==
  Touch([t EXCEPT !.tops = Append(@, [id |-> e.id, title |-> 0, activated |-> FALSE])], Tree)
Patched(t, id, field, value) == [t EXCEPT !.tops = [i \in DOMAIN @ |-> IF @[i].id = id THEN [@[i] EXCEPT ![field] = value] ELSE @[i]]]
Without(tops, id) ==
  LET KeepOther(kept, w) == IF w.id = id THEN kept ELSE Append(kept, w) IN FoldLeft(KeepOther, <<>>, tops)
ToplevelEvent(t, e) ==
  CASE e.kind = "title" -> Touch(Patched(t, e.id, "title", e.arg), {"windows"})
    [] e.kind = "state" -> Touch(Patched(t, e.id, "activated", e.arg = 1), Tree)
    [] e.kind = "closed" -> Touch([t EXCEPT !.tops = Without(@, e.id)], Tree)
Dispatch(t, e) ==
  CASE e.kind \in {"global", "global_remove"} -> RegistryEvent(t, e) [] e.kind = "name" -> OutputEvent(t, e)
    [] e.kind = "group" -> ManagerEvent(t, e) [] e.kind = "toplevel" -> ToplevelManagerEvent(t, e)
    [] e.kind \in {"active", "inactive"} -> WorkspaceEvent(t, e)
    [] e.kind \in {"title", "state", "closed"} -> ToplevelEvent(t, e)
    [] OTHER -> GroupEvent(t, e)

----------------------------------------------------------------------------
(* The state.                                                               *)

Monitors(t) == [named |-> t.named, unnamed |-> t.unnamed]
WorkspaceOutput(t, p) == IF t.group[p] \in t.entered THEN t.group[p] ELSE NoFbOutput
Workspaces(t) == [p \in FbSpace |-> [output |-> WorkspaceOutput(t, p), active |-> p \in t.active]]
Windows(t) == {[id |-> t.tops[i].id, title |-> t.tops[i].title] : i \in DOMAIN t.tops}
Focus(t) == LET i == SelectInSeq(t.tops, LAMBDA w : w.activated) IN IF i = 0 THEN NoToplevel ELSE t.tops[i].id
SyncState(t) == [monitors |-> Monitors(t), workspaces |-> Workspaces(t), windows |-> Windows(t), focus |-> Focus(t)]

Differ(s, t) == {a \in FbArea : s[a] # t[a]}
Told(areas) == fb_untold' = (fb_untold \cup Differ(fb_state, fb_state')) \ areas

ReadAll ==
  LET t == FoldLeft(Dispatch, fb_inner, fb_events)
  IN  /\ ~fb_broken /\ fb_events # <<>> /\ fb_events' = <<>>
      /\ fb_inner' = [t EXCEPT !.dirty = {}]
      /\ fb_state' = IF t.dirty = {} THEN fb_state ELSE SyncState(t)
      /\ Told(t.dirty)
      /\ UNCHANGED <<fb, fb_bound, fb_broken, fb_count>>
\* What was read before the connection failed is in the tables, and not in the state.
ReadFails ==
  /\ ~fb_broken /\ Counted
  /\ \E n \in 0 .. Len(fb_events) : fb_inner' = FoldLeft(Dispatch, fb_inner, SubSeq(fb_events, 1, n))
  /\ fb_broken' = TRUE /\ fb_events' = <<>>
  /\ UNCHANGED fb_state /\ Told(FbArea)
  /\ UNCHANGED <<fb, fb_bound>>
UpdateState == ReadAll \/ ReadFails

Init ==
  /\ fb = [tops |-> {}, title |-> [w \in Toplevel |-> 0], focus |-> NoToplevel, outputs |-> FbOutput,
           active |-> CHOOSE p \in FbSpace : TRUE, at |-> [p \in FbSpace |-> CHOOSE o \in FbOutput : TRUE]]
  /\ fb_bound = FbOutput /\ fb_events = <<>> /\ fb_broken = FALSE /\ fb_untold = {} /\ fb_count = 0
  /\ fb_inner = [unnamed |-> {}, named |-> FbOutput, groups |-> FbOutput, entered |-> FbOutput,
                 group |-> fb.at, active |-> {fb.active}, tops |-> <<>>, dirty |-> {}]
  /\ fb_state = SyncState(fb_inner)

Next == World \/ OutputAnswered \/ UpdateState
Spec == Init /\ [][Next]_fbVars

----------------------------------------------------------------------------
TypeOK ==
  /\ fb_inner.dirty \cup fb_untold \subseteq FbArea
  /\ fb_inner.named \cup fb_inner.unnamed \cup fb_inner.groups \subseteq FbOutput
  /\ fb_inner.entered \subseteq fb_inner.groups /\ fb_state.focus \in Toplevel \cup {NoToplevel}

About(e) ==
  CASE e.kind \in {"global", "name"} -> {"monitors"} [] e.kind = "global_remove" -> {}
    [] e.kind = "title" -> {"windows"} [] e.kind \in {"toplevel", "closed", "state"} -> Tree [] OTHER -> Places
\* Outputs that went, and nobody was told.
Gone == (fb_inner.named \cup fb_inner.unnamed) \ fb.outputs
Behind ==
  IF fb_broken THEN FbArea
  ELSE (UNION {About(fb_events[i]) : i \in DOMAIN fb_events})
       \cup (IF Gone # {} THEN {"monitors"} ELSE {}) \cup (IF fb.outputs \subseteq fb_bound THEN {} ELSE Places)

View == INSTANCE CompositorView WITH
  Area <- FbArea, behind <- Behind, untold <- fb_untold,
  view <- [a \in FbArea |-> fb_state[a]],
  world <- [monitors |-> [named |-> fb.outputs, unnamed |-> {}],
            workspaces |-> [p \in FbSpace |-> [output |-> fb.at[p], active |-> p = fb.active]],
            windows |-> {[id |-> w, title |-> fb.title[w]] : w \in fb.tops}, focus |-> fb.focus]

\* However outputs, groups, workspaces and windows come and go, the tables give
\* what is so, unless an output was unplugged: the state implements the view.
ImplementsView == View!Spec
=============================================================================
