--------------------------- MODULE SessionProofs ----------------------------
(***************************************************************************)
(* What the client for Hyprland promises, and then the session: each of its *)
(* nine parts behaves as its own specification says, whichever runs, and so *)
(* what MCSession checks on small instances holds for every value of the   *)
(* constants.                                                              *)
(***************************************************************************)
EXTENDS MCSession, ShellProofs, CompositorsProofs

-----------------------------------------------------------------------------
(* Hyprland (Hyprland.tla).                                                 *)

(***************************************************************************)
(* The client for Hyprland implements CompositorView, and its bridge       *)
(* leaves no event behind, for all windows, workspaces and outputs, and    *)
(* however much happens.                                                   *)
(***************************************************************************)

\* What the events are about, area by area: not in pairs, as News has it.
HyprAbout(events) == UNION {Hy!EventMask(events[i]) : i \in DOMAIN events}
UnderWay == HyprAbout(hypr_socket) \cup HyprAbout(hypr_channel)
Kind == {"workspace", "urgent", "monitor", "active", "open", "close", "title"}
HyprEvents == {e \in [kind : Kind, id : HyprWin \cup {NoHyprWin}] : e.kind = "urgent" => e.id \in HyprWin}
HyprSteps == {"idle", "drain", "clients", "active", "workspaces", "monitors"}
HyprTitles(h) == [w \in h.wins |-> h.title[w]]

TheWorld == [windows |-> HyprTitles(hypr), focus |-> hypr.focus,
             workspaces |-> Hy!Shown(Hy!Spaces(hypr), hypr.place), monitors |-> hypr.outputs]

HyprAllTyped ==
  /\ DOMAIN hypr = {"wins", "title", "focus", "place", "outputs"}
  /\ hypr.wins \subseteq HyprWin /\ hypr.focus \in HyprWin \cup {NoHyprWin}
  /\ DOMAIN hypr_state = {"windows", "focus", "urgent", "workspaces", "monitors"}
  /\ hypr_socket \in Seq(HyprEvents) /\ hypr_channel \in Seq(HyprEvents)
  /\ hypr_bridge \in {"connecting", "reading", "waking", "ended"} /\ hypr_wake \in BOOLEAN
  /\ hypr_step \in HyprSteps
  /\ hypr_changed \subseteq Hy!HyprArea /\ hypr_lost \subseteq Hy!HyprArea /\ hypr_untold \subseteq Hy!HyprArea

\* What update_state remembers to ask is what its step says.
Remembered ==
  /\ hypr_step \in {"idle", "drain"} => hypr_changed = {}
  /\ hypr_step \in {"clients", "active"} => Hy!Tree \subseteq hypr_changed
  /\ hypr_changed \cap Hy!Tree # {} => Hy!Tree \subseteq hypr_changed
  /\ hypr_changed \cap Hy!Places # {} => "workspaces" \in hypr_changed
  /\ hypr_step \in {"workspaces", "monitors"} => "workspaces" \in hypr_changed

\* Nothing is received before the bridge is connected.
Unconnected ==
  hypr_bridge = "connecting" =>
    hypr_step = "idle" /\ ~hypr_wake /\ hypr_channel = <<>> /\ hypr_socket = <<>>

\* An area that no event under way is about, that has not been lost and that will
\* not be asked for anew, is as it is and was announced.
Exact ==
  \A a \in Hy!HyprArea \ (UnderWay \cup hypr_lost \cup hypr_changed) :
    hypr_state[a] = TheWorld[a] /\ a \notin hypr_untold

\* A first answer is what is so, unless word of a change is under way.
Answers ==
  /\ hypr_step = "active" /\ "windows" \notin UnderWay => hypr_answer = HyprTitles(hypr)
  /\ hypr_step = "monitors" /\ "workspaces" \notin UnderWay => hypr_answer.all = Hy!Spaces(hypr)

\* When the places are asked for, the tree has been.
TreeDone ==
  hypr_step \in {"workspaces", "monitors"} =>
    \A a \in Hy!Tree \ (UnderWay \cup hypr_lost) : hypr_state[a] = TheWorld[a]

\* The inductive invariant.
HyprFollows ==
  /\ HyprAllTyped /\ Remembered /\ Unconnected /\ Hy!NothingStranded
  /\ hypr_bridge # "ended" => Exact /\ Answers /\ TreeDone

----------------------------------------------------------------------------

(* Areas, and what a sequence of events is about.                           *)

\* Every event is about areas.
LEMMA MaskInArea == ASSUME NEW e \in HyprEvents PROVE Hy!EventMask(e) \subseteq Hy!HyprArea
BY DEF HyprEvents, Kind, Hy!EventMask, Hy!Places, Hy!Tree, Hy!HyprArea

\* Areas are refreshed in pairs, so never fewer than were asked for.
LEMMA RefreshedCovers ==
  ASSUME NEW A \in SUBSET Hy!HyprArea PROVE A \subseteq Hy!Refreshed(A) /\ Hy!Refreshed(A) \subseteq Hy!HyprArea
BY DEF Hy!Refreshed, Hy!HyprArea, Hy!Tree, Hy!Places

\* What is refreshed for two sets of changes is what is refreshed for each.
LEMMA RefreshedUnion ==
  ASSUME NEW A, NEW B PROVE Hy!Refreshed(A \cup B) = Hy!Refreshed(A) \cup Hy!Refreshed(B)
BY DEF Hy!Refreshed, Hy!Tree, Hy!Places

\* An empty batch is about nothing.
LEMMA AboutNone == HyprAbout(<<>>) = {}
BY DEF HyprAbout

\* A batch is about areas of the view.
LEMMA AboutInArea == ASSUME NEW s \in Seq(HyprEvents) PROVE HyprAbout(s) \subseteq Hy!HyprArea
<1>1. \A i \in DOMAIN s : s[i] \in HyprEvents
  BY ElementOfSeq
<1> QED BY <1>1, MaskInArea DEF HyprAbout

\* Two batches are about what each is about.
LEMMA AboutConcat ==
  ASSUME NEW s \in Seq(HyprEvents), NEW t \in Seq(HyprEvents)
  PROVE  s \o t \in Seq(HyprEvents) /\ HyprAbout(s \o t) = HyprAbout(s) \cup HyprAbout(t)
<1>1. /\ Len(s \o t) = Len(s) + Len(t)
      /\ \A i \in 1..Len(s) : (s \o t)[i] = s[i]
      /\ \A i \in 1..Len(t) : (s \o t)[Len(s) + i] = t[i]
  OBVIOUS
<1>2. /\ DOMAIN s = 1..Len(s) /\ DOMAIN t = 1..Len(t) /\ DOMAIN (s \o t) = 1..(Len(s) + Len(t))
      /\ Len(s) \in Nat /\ Len(t) \in Nat
  BY <1>1
<1>3. ASSUME NEW a \in HyprAbout(s \o t) PROVE a \in HyprAbout(s) \cup HyprAbout(t)
  <2>1. PICK i \in 1..(Len(s) + Len(t)) : a \in Hy!EventMask((s \o t)[i])
    BY <1>2, <1>3 DEF HyprAbout
  <2>2. CASE i <= Len(s)
    BY <1>1, <1>2, <2>1, <2>2 DEF HyprAbout
  <2>3. CASE i > Len(s)
    <3>1. i - Len(s) \in 1..Len(t) /\ i = Len(s) + (i - Len(s))
      BY <1>2, <2>3
    <3> QED BY <1>1, <1>2, <2>1, <3>1 DEF HyprAbout
  <2> QED BY <1>2, <2>2, <2>3
<1>4. ASSUME NEW a \in HyprAbout(s) PROVE a \in HyprAbout(s \o t)
  <2>1. PICK i \in 1..Len(s) : a \in Hy!EventMask(s[i])
    BY <1>2, <1>4 DEF HyprAbout
  <2> QED BY <1>1, <1>2, <2>1 DEF HyprAbout
<1>5. ASSUME NEW a \in HyprAbout(t) PROVE a \in HyprAbout(s \o t)
  <2>1. PICK i \in 1..Len(t) : a \in Hy!EventMask(t[i])
    BY <1>2, <1>5 DEF HyprAbout
  <2>2. Len(s) + i \in 1..(Len(s) + Len(t))
    BY <1>2
  <2> QED BY <1>1, <1>2, <2>1, <2>2 DEF HyprAbout
<1>6. s \o t \in Seq(HyprEvents)
  OBVIOUS
<1> QED BY <1>3, <1>4, <1>5, <1>6

\* A batch of one event is about what the event is about.
LEMMA AboutOne == ASSUME NEW e PROVE HyprAbout(<<e>>) = Hy!EventMask(e)
<1>1. DOMAIN <<e>> = {1} /\ <<e>>[1] = e
  OBVIOUS
<1> QED BY <1>1 DEF HyprAbout

\* A batch is about what its head and its tail are about.
LEMMA AboutHeadTail ==
  ASSUME NEW s \in Seq(HyprEvents), s # <<>>
  PROVE  /\ Head(s) \in HyprEvents /\ Tail(s) \in Seq(HyprEvents)
         /\ HyprAbout(s) = Hy!EventMask(Head(s)) \cup HyprAbout(Tail(s))
<1>1. Head(s) \in HyprEvents /\ Tail(s) \in Seq(HyprEvents)
  OBVIOUS
<1>2. s = <<Head(s)>> \o Tail(s)
  OBVIOUS
<1>3. <<Head(s)>> \in Seq(HyprEvents)
  BY <1>1
<1>4. HyprAbout(<<Head(s)>> \o Tail(s)) = HyprAbout(<<Head(s)>>) \cup HyprAbout(Tail(s))
  BY <1>1, <1>3, AboutConcat
<1> QED BY <1>1, <1>2, <1>4, AboutOne

\* One more event adds what it is about.
LEMMA AboutAppend ==
  ASSUME NEW s \in Seq(HyprEvents), NEW e \in HyprEvents
  PROVE  Append(s, e) \in Seq(HyprEvents) /\ HyprAbout(Append(s, e)) = HyprAbout(s) \cup Hy!EventMask(e)
<1>1. Append(s, e) = s \o <<e>> /\ <<e>> \in Seq(HyprEvents)
  OBVIOUS
<1>2. HyprAbout(s \o <<e>>) = HyprAbout(s) \cup HyprAbout(<<e>>)
  BY <1>1, AboutConcat
<1> QED BY <1>1, <1>2, AboutOne

\* To refresh event by event is to refresh what they are about.
LEMMA NewsIsRefreshed == ASSUME NEW s \in Seq(HyprEvents) PROVE Hy!News(s) = Hy!Refreshed(HyprAbout(s))
BY DEF Hy!News, HyprAbout, Hy!Refreshed

\* What is behind while the bridge lives, whatever the events, what is being asked
\* for and what was lost.
LEMMA BehindOf ==
  ASSUME NEW s \in Seq(HyprEvents), NEW c \in Seq(HyprEvents),
         NEW changed \in SUBSET Hy!HyprArea, NEW lost \in SUBSET Hy!HyprArea
  PROVE  LET under == HyprAbout(s) \cup HyprAbout(c)
             behind == Hy!News(s) \cup Hy!News(c) \cup Hy!Refreshed(changed) \cup lost
         IN  /\ behind = Hy!Refreshed(under) \cup Hy!Refreshed(changed) \cup lost
             /\ under \subseteq Hy!HyprArea /\ behind \subseteq Hy!HyprArea
             /\ under \cup changed \cup lost \subseteq behind
<1>1. Hy!News(s) = Hy!Refreshed(HyprAbout(s)) /\ Hy!News(c) = Hy!Refreshed(HyprAbout(c))
  BY NewsIsRefreshed
<1>2. Hy!Refreshed(HyprAbout(s) \cup HyprAbout(c)) = Hy!Refreshed(HyprAbout(s)) \cup Hy!Refreshed(HyprAbout(c))
  BY RefreshedUnion
<1>3. HyprAbout(s) \subseteq Hy!HyprArea /\ HyprAbout(c) \subseteq Hy!HyprArea
  BY AboutInArea
<1>4. /\ HyprAbout(s) \subseteq Hy!Refreshed(HyprAbout(s)) /\ Hy!Refreshed(HyprAbout(s)) \subseteq Hy!HyprArea
      /\ HyprAbout(c) \subseteq Hy!Refreshed(HyprAbout(c)) /\ Hy!Refreshed(HyprAbout(c)) \subseteq Hy!HyprArea
      /\ changed \subseteq Hy!Refreshed(changed) /\ Hy!Refreshed(changed) \subseteq Hy!HyprArea
  BY <1>3, RefreshedCovers
<1> QED BY <1>1, <1>2, <1>3, <1>4

\* What the bridge is behind in while it runs.
LEMMA HyprBehindNow ==
  ASSUME HyprAllTyped, hypr_bridge # "ended"
  PROVE  /\ Hy!Behind = Hy!Refreshed(UnderWay) \cup Hy!Refreshed(hypr_changed) \cup hypr_lost
         /\ Hy!Behind \subseteq Hy!HyprArea /\ UnderWay \cup hypr_changed \cup hypr_lost \subseteq Hy!Behind
<1>1. /\ hypr_socket \in Seq(HyprEvents) /\ hypr_channel \in Seq(HyprEvents)
      /\ hypr_changed \subseteq Hy!HyprArea /\ hypr_lost \subseteq Hy!HyprArea
  BY DEF HyprAllTyped
<1>2. Hy!Behind = Hy!News(hypr_socket) \cup Hy!News(hypr_channel) \cup Hy!Refreshed(hypr_changed) \cup hypr_lost
  BY DEF Hy!Behind
<1> QED BY <1>1, <1>2, BehindOf DEF UnderWay

\* The same of the next state.
LEMMA HyprBehindNext ==
  ASSUME HyprAllTyped', hypr_bridge' # "ended"
  PROVE  /\ Hy!Behind' = Hy!Refreshed(UnderWay') \cup Hy!Refreshed(hypr_changed') \cup hypr_lost'
         /\ Hy!Behind' \subseteq Hy!HyprArea /\ UnderWay' \cup hypr_changed' \cup hypr_lost' \subseteq Hy!Behind'
<1>1. /\ hypr_socket' \in Seq(HyprEvents) /\ hypr_channel' \in Seq(HyprEvents)
      /\ hypr_changed' \subseteq Hy!HyprArea /\ hypr_lost' \subseteq Hy!HyprArea
  BY DEF HyprAllTyped
<1>2. Hy!Behind' = Hy!News(hypr_socket') \cup Hy!News(hypr_channel') \cup Hy!Refreshed(hypr_changed') \cup hypr_lost'
  BY DEF Hy!Behind
<1> QED BY <1>1, <1>2, BehindOf DEF UnderWay

----------------------------------------------------------------------------

(* What happens in Hyprland is written, whatever it touches.                *)

\* The events of `about` and what is added about workspaces cover every area of
\* the change to h.
LEMMA HappensIsTold ==
  ASSUME HyprAllTyped, NEW h, NEW about \in Seq(HyprEvents), Hy!Happens(h, about),
         DOMAIN h = {"wins", "title", "focus", "place", "outputs"},
         h.wins \subseteq HyprWin, h.focus \in HyprWin \cup {NoHyprWin},
         HyprTitles(h) # HyprTitles(hypr) => "windows" \in HyprAbout(about),
         h.focus # hypr.focus => "focus" \in HyprAbout(about),
         h.place # hypr.place => "workspaces" \in HyprAbout(about),
         h.outputs # hypr.outputs => "monitors" \in HyprAbout(about)
  PROVE  /\ hypr_bridge # "ended" /\ UNCHANGED <<Hy!mainVars, Hy!bridgeVars>>
         /\ HyprAllTyped'
         /\ \E events \in Seq(HyprEvents) :
              /\ \A a \in Hy!HyprArea : TheWorld'[a] # TheWorld[a] => a \in HyprAbout(events)
              /\ HyprTitles(hypr') # HyprTitles(hypr) => "windows" \in HyprAbout(events)
              /\ Hy!Spaces(hypr') # Hy!Spaces(hypr) => "workspaces" \in HyprAbout(events)
              /\ IF hypr_bridge = "connecting" THEN hypr_lost' = hypr_lost \cup Hy!News(events) /\ UNCHANGED hypr_socket
                 ELSE hypr_socket' = hypr_socket \o events /\ UNCHANGED hypr_lost
<1> DEFINE more == IF Hy!Spaces(h) # Hy!Spaces(hypr) THEN <<Hy!Event("workspace", NoHyprWin)>> ELSE <<>>
           events == about \o more
<1>1. /\ hypr' = h /\ hypr_bridge # "ended" /\ UNCHANGED <<Hy!mainVars, Hy!bridgeVars>>
      /\ IF hypr_bridge = "connecting" THEN hypr_lost' = hypr_lost \cup Hy!News(events) /\ UNCHANGED hypr_socket
         ELSE hypr_socket' = hypr_socket \o events /\ UNCHANGED hypr_lost
  BY DEF Hy!Happens
<1>2. Hy!Event("workspace", NoHyprWin) \in HyprEvents /\ Hy!EventMask(Hy!Event("workspace", NoHyprWin)) = {"workspaces"}
  BY DEF Hy!Event, HyprEvents, Kind, Hy!EventMask
<1>3. more \in Seq(HyprEvents) /\ (Hy!Spaces(h) # Hy!Spaces(hypr) => HyprAbout(more) = {"workspaces"})
  BY <1>2, AboutOne
<1> HIDE DEF more
<1>4. events \in Seq(HyprEvents) /\ HyprAbout(events) = HyprAbout(about) \cup HyprAbout(more)
  BY <1>3, AboutConcat
<1> HIDE DEF events
<1>5. Hy!Spaces(h) # Hy!Spaces(hypr) => "workspaces" \in HyprAbout(events)
  BY <1>3, <1>4
<1>6. ASSUME NEW a \in Hy!HyprArea, TheWorld'[a] # TheWorld[a] PROVE a \in HyprAbout(events)
  <2>1. CASE a = "windows"
    BY <1>1, <1>4, <1>6, <2>1 DEF TheWorld
  <2>2. CASE a = "focus"
    BY <1>1, <1>4, <1>6, <2>2 DEF TheWorld
  <2>3. CASE a = "workspaces"
    BY <1>1, <1>4, <1>5, <1>6, <2>3 DEF TheWorld
  <2>4. CASE a = "monitors"
    BY <1>1, <1>4, <1>6, <2>4 DEF TheWorld
  <2> QED BY <2>1, <2>2, <2>3, <2>4 DEF Hy!HyprArea
<1>7. HyprAllTyped'
  <2>1. hypr_socket' \in Seq(HyprEvents)
    <3>1. hypr_socket \in Seq(HyprEvents)
      BY DEF HyprAllTyped
    <3>2. hypr_socket \o events \in Seq(HyprEvents)
      BY <1>4, <3>1, AboutConcat
    <3> QED BY <1>1, <3>1, <3>2
  <2>2. hypr_lost' \subseteq Hy!HyprArea
    BY <1>1, <1>4, NewsIsRefreshed, RefreshedCovers, AboutInArea DEF HyprAllTyped
  <2> QED BY <1>1, <2>1, <2>2 DEF HyprAllTyped, Hy!mainVars, Hy!bridgeVars
<1> QED BY <1>1, <1>4, <1>5, <1>6, <1>7

\* A change of the world is told by the events it sends.
LEMMA WorldIsTold ==
  ASSUME HyprAllTyped, Hy!World
  PROVE  /\ hypr_bridge # "ended" /\ UNCHANGED <<Hy!mainVars, Hy!bridgeVars>>
         /\ HyprAllTyped'
         /\ \E events \in Seq(HyprEvents) :
              /\ \A a \in Hy!HyprArea : TheWorld'[a] # TheWorld[a] => a \in HyprAbout(events)
              /\ HyprTitles(hypr') # HyprTitles(hypr) => "windows" \in HyprAbout(events)
              /\ Hy!Spaces(hypr') # Hy!Spaces(hypr) => "workspaces" \in HyprAbout(events)
              /\ IF hypr_bridge = "connecting" THEN hypr_lost' = hypr_lost \cup Hy!News(events) /\ UNCHANGED hypr_socket
                 ELSE hypr_socket' = hypr_socket \o events /\ UNCHANGED hypr_lost
<1> DEFINE Shaped(h) ==
             /\ DOMAIN h = {"wins", "title", "focus", "place", "outputs"}
             /\ h.wins \subseteq HyprWin /\ h.focus \in HyprWin \cup {NoHyprWin}
           Covered(h, about) ==
             /\ HyprTitles(h) # HyprTitles(hypr) => "windows" \in HyprAbout(about)
             /\ h.focus # hypr.focus => "focus" \in HyprAbout(about)
             /\ h.place # hypr.place => "workspaces" \in HyprAbout(about)
             /\ h.outputs # hypr.outputs => "monitors" \in HyprAbout(about)
<1>1. SUFFICES \E h : \E about \in Seq(HyprEvents) : Hy!Happens(h, about) /\ Shaped(h) /\ Covered(h, about)
  BY HappensIsTold
<1>2. Shaped(hypr)
  BY DEF HyprAllTyped
<1>3. \A kind \in Kind, id \in HyprWin \cup {NoHyprWin} :
        /\ kind # "urgent" \/ id \in HyprWin => Hy!Event(kind, id) \in HyprEvents
        /\ kind \in {"active", "open", "close", "title"} => Hy!EventMask(Hy!Event(kind, id)) = Hy!Tree
        /\ kind \in {"workspace", "urgent"} => Hy!EventMask(Hy!Event(kind, id)) = {"workspaces"}
        /\ kind = "monitor" => Hy!EventMask(Hy!Event(kind, id)) = Hy!Places
  BY DEF Hy!Event, HyprEvents, Kind, Hy!EventMask
<1> USE <1>2
<1>4. CASE Hy!Opens
  <2>1. PICK w \in HyprWin \ hypr.wins :
          Hy!Happens([hypr EXCEPT !.wins = @ \cup {w}, !.focus = w], <<Hy!Event("open", w), Hy!Event("active", w)>>)
    BY <1>4 DEF Hy!Opens
  <2> DEFINE h == [hypr EXCEPT !.wins = @ \cup {w}, !.focus = w]
             about == <<Hy!Event("open", w), Hy!Event("active", w)>>
  <2>2. about \in Seq(HyprEvents) /\ Hy!Tree \subseteq HyprAbout(about)
    BY <1>3 DEF Kind, HyprAbout
  <2>3. DOMAIN h = DOMAIN hypr /\ h.wins = hypr.wins \cup {w} /\ h.focus = w /\ h.place = hypr.place /\ h.outputs = hypr.outputs
    OBVIOUS
  <2> HIDE DEF h
  <2>4. Shaped(h) /\ h.place = hypr.place /\ h.outputs = hypr.outputs
    BY <2>3
  <2> QED BY <2>1, <2>2, <2>4 DEF Hy!Tree, h
<1>5. CASE Hy!Closes
  <2>1a. PICK w \in hypr.wins : \E next \in IF hypr.focus = w THEN (hypr.wins \ {w}) \cup {NoHyprWin} ELSE {hypr.focus} :
          Hy!Happens([hypr EXCEPT !.wins = @ \ {w}, !.focus = next],
                  <<Hy!Event("close", w)>> \o IF next = hypr.focus THEN <<>> ELSE <<Hy!Event("active", next)>>)
    BY <1>5 DEF Hy!Closes
  <2>1. PICK next \in IF hypr.focus = w THEN (hypr.wins \ {w}) \cup {NoHyprWin} ELSE {hypr.focus} :
          Hy!Happens([hypr EXCEPT !.wins = @ \ {w}, !.focus = next],
                  <<Hy!Event("close", w)>> \o IF next = hypr.focus THEN <<>> ELSE <<Hy!Event("active", next)>>)
    BY <2>1a
  <2> DEFINE h == [hypr EXCEPT !.wins = @ \ {w}, !.focus = next]
             refocus == IF next = hypr.focus THEN <<>> ELSE <<Hy!Event("active", next)>>
             about == <<Hy!Event("close", w)>> \o refocus
  <2>2. /\ DOMAIN h = DOMAIN hypr /\ h.wins = hypr.wins \ {w} /\ h.focus = next /\ h.place = hypr.place
        /\ h.outputs = hypr.outputs
        /\ next \in HyprWin \cup {NoHyprWin}
    OBVIOUS
  <2>3. <<Hy!Event("close", w)>> \in Seq(HyprEvents) /\ HyprAbout(<<Hy!Event("close", w)>>) = Hy!Tree
    BY <1>3, AboutOne DEF Kind
  <2>4. refocus \in Seq(HyprEvents)
    BY <1>3, <2>2 DEF Kind
  <2> HIDE DEF refocus
  <2>5. about \in Seq(HyprEvents) /\ Hy!Tree \subseteq HyprAbout(about)
    BY <2>3, <2>4, AboutConcat
  <2>6. Hy!Happens(h, about)
    BY <2>1 DEF refocus
  <2> HIDE DEF h, about
  <2>7. Shaped(h) /\ h.place = hypr.place /\ h.outputs = hypr.outputs
    BY <2>2
  <2> QED BY <2>5, <2>6, <2>7 DEF Hy!Tree
<1>6. CASE Hy!Focuses
  <2>1. PICK w \in hypr.wins \ {hypr.focus} : Hy!Happens([hypr EXCEPT !.focus = w], <<Hy!Event("active", w)>>)
    BY <1>6 DEF Hy!Focuses
  <2> DEFINE h == [hypr EXCEPT !.focus = w]
             about == <<Hy!Event("active", w)>>
  <2>2. about \in Seq(HyprEvents) /\ HyprAbout(about) = Hy!Tree
    BY <1>3, AboutOne DEF Kind
  <2>3. Shaped(h) /\ h.place = hypr.place /\ h.outputs = hypr.outputs
    OBVIOUS
  <2> QED BY <2>1, <2>2, <2>3 DEF Hy!Tree
<1>7. CASE Hy!Renames
  <2>1. PICK w \in hypr.wins : Hy!Happens([hypr EXCEPT !.title[w] = 1 - @], <<Hy!Event("title", w)>>)
    BY <1>7 DEF Hy!Renames
  <2> DEFINE h == [hypr EXCEPT !.title[w] = 1 - @]
             about == <<Hy!Event("title", w)>>
  <2>2. about \in Seq(HyprEvents) /\ HyprAbout(about) = Hy!Tree
    BY <1>3, AboutOne DEF Kind
  <2>3. Shaped(h) /\ h.place = hypr.place /\ h.outputs = hypr.outputs
    OBVIOUS
  <2> QED BY <2>1, <2>2, <2>3 DEF Hy!Tree
<1>8. CASE Hy!Urges
  <2>1. PICK w \in hypr.wins \ {hypr.focus} : Hy!Happens(hypr, <<Hy!Event("urgent", w)>>)
    BY <1>8 DEF Hy!Urges
  <2>2. <<Hy!Event("urgent", w)>> \in Seq(HyprEvents)
    BY <1>3 DEF Kind
  <2> QED BY <2>1, <2>2
<1>9. CASE Hy!Switches
  <2>1. PICK p \in HyprSpace \ {hypr.place} :
          Hy!Happens([hypr EXCEPT !.place = p], <<Hy!Event("workspace", NoHyprWin)>>)
    BY <1>9 DEF Hy!Switches
  <2> DEFINE h == [hypr EXCEPT !.place = p]
             about == <<Hy!Event("workspace", NoHyprWin)>>
  <2>2. about \in Seq(HyprEvents) /\ HyprAbout(about) = {"workspaces"}
    BY <1>3, AboutOne DEF Kind
  <2>3. Shaped(h) /\ HyprTitles(h) = HyprTitles(hypr) /\ h.focus = hypr.focus /\ h.outputs = hypr.outputs
    BY DEF HyprTitles
  <2> QED BY <2>1, <2>2, <2>3
<1>10. CASE Hy!Plugs
  <2>1. PICK o \in SUBSET HyprOutput \ {hypr.outputs} :
          Hy!Happens([hypr EXCEPT !.outputs = o], <<Hy!Event("monitor", NoHyprWin)>>)
    BY <1>10 DEF Hy!Plugs
  <2> DEFINE h == [hypr EXCEPT !.outputs = o]
             about == <<Hy!Event("monitor", NoHyprWin)>>
  <2>2. about \in Seq(HyprEvents) /\ HyprAbout(about) = Hy!Places
    BY <1>3, AboutOne DEF Kind
  <2>3. Shaped(h) /\ HyprTitles(h) = HyprTitles(hypr) /\ h.focus = hypr.focus /\ h.place = hypr.place
    BY DEF HyprTitles
  <2> QED BY <2>1, <2>2, <2>3 DEF Hy!Places
<1> QED BY <1>4, <1>5, <1>6, <1>7, <1>8, <1>9, <1>10 DEF Hy!World

----------------------------------------------------------------------------

(* The steps: each keeps Follows, and is one of the view's or none.         *)

\* What happens is a move of the view's world.
LEMMA HyprWorldStep == ASSUME HyprFollows, Hy!World PROVE HyprFollows' /\ Hy!View!WorldMoves
<1>1. /\ HyprAllTyped /\ Remembered /\ Unconnected /\ Hy!NothingStranded
      /\ hypr_bridge # "ended" /\ Exact /\ Answers /\ TreeDone
  BY WorldIsTold DEF HyprFollows
<1>2. HyprAllTyped' /\ UNCHANGED <<Hy!mainVars, Hy!bridgeVars>>
  BY <1>1, WorldIsTold
<1>3. PICK events \in Seq(HyprEvents) :
        /\ \A a \in Hy!HyprArea : TheWorld'[a] # TheWorld[a] => a \in HyprAbout(events)
        /\ HyprTitles(hypr') # HyprTitles(hypr) => "windows" \in HyprAbout(events)
        /\ Hy!Spaces(hypr') # Hy!Spaces(hypr) => "workspaces" \in HyprAbout(events)
        /\ IF hypr_bridge = "connecting" THEN hypr_lost' = hypr_lost \cup Hy!News(events) /\ UNCHANGED hypr_socket
           ELSE hypr_socket' = hypr_socket \o events /\ UNCHANGED hypr_lost
  BY <1>1, WorldIsTold
<1>4. /\ UNCHANGED <<hypr_state, hypr_step, hypr_changed, hypr_answer, hypr_untold, hypr_bridge, hypr_channel, hypr_wake>>
  BY <1>2 DEF Hy!mainVars, Hy!bridgeVars
<1>5. /\ UnderWay \subseteq UnderWay' /\ hypr_lost \subseteq hypr_lost'
      /\ hypr_bridge = "connecting" => HyprAbout(events) \subseteq hypr_lost'
      /\ hypr_bridge # "connecting" => HyprAbout(events) \subseteq UnderWay'
  <2>1. hypr_socket \in Seq(HyprEvents)
    BY <1>1 DEF HyprAllTyped
  <2>2. CASE hypr_bridge = "connecting"
    <3>1. Hy!News(events) = Hy!Refreshed(HyprAbout(events)) /\ HyprAbout(events) \subseteq Hy!Refreshed(HyprAbout(events))
      BY NewsIsRefreshed, RefreshedCovers, AboutInArea
    <3> QED BY <1>3, <1>4, <2>2, <3>1 DEF UnderWay
  <2>3. CASE hypr_bridge # "connecting"
    <3>1. HyprAbout(hypr_socket \o events) = HyprAbout(hypr_socket) \cup HyprAbout(events)
      BY <2>1, AboutConcat
    <3> QED BY <1>3, <1>4, <2>3, <3>1 DEF UnderWay
  <2> QED BY <2>2, <2>3
<1>6. Remembered' /\ Hy!NothingStranded'
  BY <1>1, <1>4 DEF Remembered, Hy!NothingStranded
<1>7. Unconnected'
  BY <1>1, <1>3, <1>4 DEF Unconnected
<1>8. Exact'
  <2>1. SUFFICES ASSUME NEW a \in Hy!HyprArea, a \notin UnderWay', a \notin hypr_lost', a \notin hypr_changed'
                 PROVE  hypr_state'[a] = TheWorld'[a] /\ a \notin hypr_untold'
    BY DEF Exact
  <2>2. a \notin HyprAbout(events) /\ a \notin UnderWay /\ a \notin hypr_lost /\ a \notin hypr_changed
    BY <1>4, <1>5, <2>1
  <2>3. hypr_state[a] = TheWorld[a] /\ a \notin hypr_untold
    BY <1>1, <2>2 DEF Exact
  <2> QED BY <1>3, <1>4, <2>2, <2>3
<1>9. Answers'
  <2>1. hypr_step \in {"active", "monitors"} => HyprAbout(events) \subseteq UnderWay'
    BY <1>1, <1>5 DEF Unconnected
  <2> QED BY <1>1, <1>3, <1>4, <1>5, <2>1 DEF Answers
<1>10. TreeDone'
  <2>1. SUFFICES ASSUME hypr_step' \in {"workspaces", "monitors"}, NEW a \in Hy!Tree, a \notin UnderWay', a \notin hypr_lost'
                 PROVE  hypr_state'[a] = TheWorld'[a]
    BY DEF TreeDone
  <2>2. a \notin HyprAbout(events) /\ a \notin UnderWay /\ a \notin hypr_lost
    BY <1>5, <2>1
  <2>3. hypr_state[a] = TheWorld[a] /\ a \in Hy!HyprArea
    BY <1>1, <1>4, <2>1, <2>2 DEF TreeDone, Hy!Tree, Hy!HyprArea
  <2> QED BY <1>3, <1>4, <2>2, <2>3
<1>11. Hy!View!WorldMoves
  <2>1. Hy!Behind \subseteq Hy!Behind' /\ UnderWay' \cup hypr_lost' \subseteq Hy!Behind'
    <3>1. /\ Hy!Behind = Hy!Refreshed(UnderWay) \cup Hy!Refreshed(hypr_changed) \cup hypr_lost
          /\ Hy!Behind' = Hy!Refreshed(UnderWay') \cup Hy!Refreshed(hypr_changed') \cup hypr_lost'
          /\ UnderWay' \cup hypr_lost' \subseteq Hy!Behind'
      BY <1>1, <1>2, <1>4, HyprBehindNow, HyprBehindNext
    <3>2. Hy!Refreshed(UnderWay) \subseteq Hy!Refreshed(UnderWay')
      BY <1>5 DEF Hy!Refreshed
    <3> QED BY <1>4, <1>5, <3>1, <3>2
  <2>2. \A a \in Hy!HyprArea : TheWorld'[a] # TheWorld[a] => a \in Hy!Behind'
    BY <1>3, <1>5, <2>1
  <2>3. UNCHANGED <<[a \in Hy!HyprArea |-> hypr_state[a]], hypr_untold>>
    BY <1>4
  <2> QED BY <2>1, <2>2, <2>3 DEF Hy!View!WorldMoves, Hy!View!Differ, TheWorld, HyprTitles
<1> QED BY <1>1, <1>2, <1>4, <1>6, <1>7, <1>8, <1>9, <1>10, <1>11 DEF HyprFollows

\* What leaves Hyprland, the state and what is behind alone leaves the view alone.
LEMMA StillView ==
  ASSUME UNCHANGED <<hypr, hypr_state, hypr_untold>>, Hy!Behind' = Hy!Behind
  PROVE  UNCHANGED Hy!View!viewVars
BY DEF Hy!View!viewVars

\* The bridge takes an event from the socket to the channel: nothing is behind that
\* was not.  When it ends, everything is.
LEMMA BridgeStep == ASSUME HyprFollows, Hy!Bridge PROVE HyprFollows' /\ (Hy!View!WorldMoves \/ UNCHANGED Hy!View!viewVars)
<1>1. HyprAllTyped /\ Remembered /\ Unconnected /\ Hy!NothingStranded /\ (hypr_bridge # "ended" => Exact /\ Answers /\ TreeDone)
  BY DEF HyprFollows
<1>2. CASE Hy!BridgeConnects
  <2>1. /\ hypr_bridge = "connecting" /\ hypr_bridge' = "reading"
        /\ UNCHANGED <<hypr, hypr_socket, hypr_channel, hypr_wake, hypr_lost, hypr_state, hypr_step, hypr_changed,
                       hypr_answer, hypr_untold>>
    BY <1>2 DEF Hy!BridgeConnects, Hy!mainVars
  <2>2. UnderWay' = UnderWay /\ TheWorld' = TheWorld /\ HyprTitles(hypr') = HyprTitles(hypr) /\ Hy!Spaces(hypr') = Hy!Spaces(hypr)
    BY <2>1 DEF UnderWay, TheWorld
  <2>3. HyprAllTyped'
    BY <1>1, <2>1 DEF HyprAllTyped
  <2>4. Remembered' /\ Unconnected' /\ Hy!NothingStranded'
    BY <1>1, <2>1 DEF Remembered, Unconnected, Hy!NothingStranded
  <2>5. Exact' /\ Answers' /\ TreeDone'
    BY <1>1, <2>1, <2>2 DEF Exact, Answers, TreeDone
  <2>6. Hy!Behind' = Hy!Behind
    BY <1>1, <2>1, <2>2, <2>3, HyprBehindNow, HyprBehindNext
  <2> QED BY <2>1, <2>3, <2>4, <2>5, <2>6, StillView DEF HyprFollows
<1>3. CASE Hy!BridgeSends
  <2>1. /\ hypr_bridge = "reading" /\ hypr_bridge' = "waking" /\ hypr_socket # <<>>
        /\ hypr_channel' = Append(hypr_channel, Head(hypr_socket)) /\ hypr_socket' = Tail(hypr_socket)
        /\ UNCHANGED <<hypr, hypr_wake, hypr_lost, hypr_state, hypr_step, hypr_changed, hypr_answer, hypr_untold>>
    BY <1>3 DEF Hy!BridgeSends, Hy!mainVars
  <2>2. hypr_socket \in Seq(HyprEvents) /\ hypr_channel \in Seq(HyprEvents)
    BY <1>1 DEF HyprAllTyped
  <2>3. /\ hypr_socket' \in Seq(HyprEvents) /\ hypr_channel' \in Seq(HyprEvents)
        /\ HyprAbout(hypr_socket) = Hy!EventMask(Head(hypr_socket)) \cup HyprAbout(hypr_socket')
        /\ HyprAbout(hypr_channel') = HyprAbout(hypr_channel) \cup Hy!EventMask(Head(hypr_socket))
    BY <2>1, <2>2, AboutHeadTail, AboutAppend
  <2>4. UnderWay' = UnderWay /\ TheWorld' = TheWorld /\ HyprTitles(hypr') = HyprTitles(hypr) /\ Hy!Spaces(hypr') = Hy!Spaces(hypr)
    BY <2>1, <2>3 DEF UnderWay, TheWorld
  <2>5. HyprAllTyped'
    BY <1>1, <2>1, <2>3 DEF HyprAllTyped
  <2>6. Remembered' /\ Unconnected' /\ Hy!NothingStranded'
    BY <1>1, <2>1 DEF Remembered, Unconnected, Hy!NothingStranded
  <2>7. Exact' /\ Answers' /\ TreeDone'
    BY <1>1, <2>1, <2>4 DEF Exact, Answers, TreeDone
  <2>8. Hy!Behind' = Hy!Behind
    BY <1>1, <2>1, <2>4, <2>5, HyprBehindNow, HyprBehindNext
  <2> QED BY <2>1, <2>5, <2>6, <2>7, <2>8, StillView DEF HyprFollows
<1>4. CASE Hy!BridgeWakes
  <2>1. /\ hypr_bridge = "waking" /\ hypr_bridge' = "reading" /\ hypr_wake' = TRUE
        /\ UNCHANGED <<hypr, hypr_socket, hypr_channel, hypr_lost, hypr_state, hypr_step, hypr_changed, hypr_answer,
                       hypr_untold>>
    BY <1>4 DEF Hy!BridgeWakes, Hy!mainVars
  <2>2. UnderWay' = UnderWay /\ TheWorld' = TheWorld /\ HyprTitles(hypr') = HyprTitles(hypr) /\ Hy!Spaces(hypr') = Hy!Spaces(hypr)
    BY <2>1 DEF UnderWay, TheWorld
  <2>3. HyprAllTyped'
    BY <1>1, <2>1 DEF HyprAllTyped
  <2>4. Remembered' /\ Unconnected' /\ Hy!NothingStranded'
    BY <1>1, <2>1 DEF Remembered, Unconnected, Hy!NothingStranded
  <2>5. Exact' /\ Answers' /\ TreeDone'
    BY <1>1, <2>1, <2>2 DEF Exact, Answers, TreeDone
  <2>6. Hy!Behind' = Hy!Behind
    BY <1>1, <2>1, <2>2, <2>3, HyprBehindNow, HyprBehindNext
  <2> QED BY <2>1, <2>3, <2>4, <2>5, <2>6, StillView DEF HyprFollows
<1>5. CASE Hy!BridgeEnds
  <2>1. /\ hypr_bridge # "ended" /\ hypr_bridge' = "ended" /\ hypr_wake' = TRUE
        /\ UNCHANGED <<hypr, hypr_socket, hypr_channel, hypr_lost, hypr_state, hypr_step, hypr_changed, hypr_answer,
                       hypr_untold>>
    BY <1>5 DEF Hy!BridgeEnds, Hy!mainVars
  <2>2. HyprAllTyped'
    BY <1>1, <2>1 DEF HyprAllTyped
  <2>3. Remembered' /\ Unconnected' /\ Hy!NothingStranded'
    BY <1>1, <2>1 DEF Remembered, Unconnected, Hy!NothingStranded
  <2>4. Hy!Behind' = Hy!HyprArea /\ Hy!Behind \subseteq Hy!HyprArea
    BY <1>1, <2>1, HyprBehindNow DEF Hy!Behind
  <2>5. Hy!View!WorldMoves
    BY <2>1, <2>4 DEF Hy!View!WorldMoves, Hy!View!Differ
  <2> QED BY <2>1, <2>2, <2>3, <2>5 DEF HyprFollows
<1> QED BY <1>2, <1>3, <1>4, <1>5 DEF Hy!Bridge

\* What narrows what is behind, announces nothing that is not so, and keeps Follows,
\* is an update of the view.
LEMMA HyprUpdatesView ==
  ASSUME HyprFollows', hypr' = hypr, Hy!Behind' \subseteq Hy!Behind,
         hypr_untold' \subseteq hypr_untold \cup Hy!Differ(hypr_state, hypr_state')
  PROVE  Hy!View!Update
<1>1. \A a \in Hy!HyprArea \ Hy!Behind' : hypr_state'[a] = TheWorld'[a] /\ a \notin hypr_untold'
  <2>1. CASE hypr_bridge' = "ended"
    BY <2>1 DEF Hy!Behind
  <2>2. CASE hypr_bridge' # "ended"
    <3>1. Exact' /\ UnderWay' \cup hypr_changed' \cup hypr_lost' \subseteq Hy!Behind'
      BY <2>2, HyprBehindNext DEF HyprFollows
    <3> QED BY <3>1 DEF Exact
  <2> QED BY <2>1, <2>2
<1>2. Hy!View!Settled'
  BY <1>1 DEF Hy!View!Settled, TheWorld, HyprTitles
<1>3. hypr_untold' \subseteq hypr_untold \cup {a \in Hy!HyprArea : [b \in Hy!HyprArea |-> hypr_state[b]][a]
                                                                # [b \in Hy!HyprArea |-> hypr_state'[b]][a]}
  BY DEF Hy!Differ
<1> QED BY <1>2, <1>3 DEF Hy!View!Update, Hy!View!Differ

\* Events are about windows and focus together, and never about monitors alone.
LEMMA AboutPairs ==
  ASSUME NEW s \in Seq(HyprEvents)
  PROVE  /\ HyprAbout(s) \cap Hy!Tree # {} => Hy!Tree \subseteq HyprAbout(s)
         /\ HyprAbout(s) \cap Hy!Places # {} => "workspaces" \in HyprAbout(s)
<1>1. ASSUME NEW e \in HyprEvents
      PROVE  Hy!EventMask(e) \in {{"workspaces"}, Hy!Tree, Hy!Places}
  BY DEF HyprEvents, Kind, Hy!EventMask
<1>2. \A i \in DOMAIN s : s[i] \in HyprEvents
  BY ElementOfSeq
<1>3. \A i \in DOMAIN s, a \in Hy!HyprArea :
        a \in Hy!EventMask(s[i]) => IF a \in Hy!Tree THEN Hy!Tree \subseteq Hy!EventMask(s[i]) ELSE "workspaces" \in Hy!EventMask(s[i])
  <2>1. \A M \in {{"workspaces"}, Hy!Tree, Hy!Places}, a \in Hy!HyprArea :
          a \in M => IF a \in Hy!Tree THEN Hy!Tree \subseteq M ELSE "workspaces" \in M
    BY DEF Hy!Tree, Hy!Places, Hy!HyprArea
  <2> QED BY <1>1, <1>2, <2>1
<1>4. ASSUME HyprAbout(s) \cap Hy!Tree # {} PROVE Hy!Tree \subseteq HyprAbout(s)
  <2>1. PICK a \in Hy!Tree : a \in HyprAbout(s)
    BY <1>4
  <2>2. PICK i \in DOMAIN s : a \in Hy!EventMask(s[i])
    BY <2>1 DEF HyprAbout
  <2>3. Hy!Tree \subseteq Hy!EventMask(s[i])
    BY <1>3, <2>1, <2>2 DEF Hy!Tree, Hy!Places, Hy!HyprArea
  <2> QED BY <2>3 DEF HyprAbout
<1>5. ASSUME HyprAbout(s) \cap Hy!Places # {} PROVE "workspaces" \in HyprAbout(s)
  <2>1. PICK a \in Hy!Places : a \in HyprAbout(s)
    BY <1>5
  <2>2. PICK i \in DOMAIN s : a \in Hy!EventMask(s[i])
    BY <2>1 DEF HyprAbout
  <2>3. "workspaces" \in Hy!EventMask(s[i])
    BY <1>3, <2>1, <2>2 DEF Hy!Tree, Hy!Places, Hy!HyprArea
  <2> QED BY <2>3 DEF HyprAbout
<1> QED BY <1>4, <1>5

\* Draining the wakeups keeps Hyprland's invariant and is an update of the view, or shows
\* nothing new.
LEMMA DrainWakeStep == ASSUME HyprFollows, Hy!DrainWake PROVE HyprFollows' /\ (Hy!View!Update \/ UNCHANGED Hy!View!viewVars)
<1>1. /\ HyprAllTyped /\ Remembered /\ Unconnected /\ Hy!NothingStranded
      /\ hypr_bridge # "ended" => Exact /\ Answers /\ TreeDone
  BY DEF HyprFollows
<1>2. /\ hypr_step = "idle" /\ hypr_wake /\ hypr_wake' = FALSE /\ hypr_changed = {}
      /\ UNCHANGED <<hypr, hypr_socket, hypr_bridge, hypr_answer, hypr_lost, hypr_state>>
  BY <1>1 DEF Hy!DrainWake, Hy!NoAnswer, Remembered
<1>3. hypr_bridge # "connecting"
  BY <1>1, <1>2 DEF Unconnected
<1>4. CASE hypr_bridge = "ended"
  <2>1. /\ hypr_channel' = <<>> /\ hypr_step' = "idle" /\ hypr_changed' = {}
        /\ hypr_untold' = (hypr_untold \cup Hy!Differ(hypr_state, hypr_state')) \ Hy!HyprArea
    BY <1>4 DEF Hy!DrainWake, Hy!Return, Hy!Untold
  <2>2. HyprAllTyped'
    <3>1. hypr_channel' \in Seq(HyprEvents) /\ hypr_untold' \subseteq Hy!HyprArea
      <4>1. hypr_untold \subseteq Hy!HyprArea
        BY <1>1 DEF HyprAllTyped
      <4> QED BY <2>1, <4>1 DEF Hy!Differ
    <3> QED BY <1>1, <1>2, <2>1, <3>1 DEF HyprAllTyped, HyprSteps
  <2>3. HyprFollows'
    BY <1>2, <1>4, <2>1, <2>2 DEF HyprFollows, Remembered, Unconnected, Hy!NothingStranded
  <2>4. Hy!Behind' \subseteq Hy!Behind
    BY <1>2, <1>4 DEF Hy!Behind
  <2> QED BY <1>2, <2>1, <2>3, <2>4, HyprUpdatesView
<1>5. CASE hypr_bridge # "ended"
  <2>1. /\ hypr_step' = "drain" /\ UNCHANGED <<hypr_changed, hypr_channel>>
        /\ hypr_untold' = hypr_untold \cup Hy!Differ(hypr_state, hypr_state')
    BY <1>5 DEF Hy!DrainWake, Hy!Ask, Hy!Untold
  <2>2. hypr_untold' = hypr_untold
    BY <1>2, <2>1 DEF Hy!Differ
  <2>3. UnderWay' = UnderWay /\ TheWorld' = TheWorld
    BY <1>2, <2>1 DEF UnderWay, TheWorld
  <2>4. HyprAllTyped'
    BY <1>1, <1>2, <2>1, <2>2 DEF HyprAllTyped, HyprSteps
  <2>5. Remembered' /\ Unconnected' /\ Hy!NothingStranded'
    BY <1>2, <1>3, <2>1 DEF Remembered, Unconnected, Hy!NothingStranded
  <2>6. Exact' /\ Answers' /\ TreeDone'
    BY <1>1, <1>2, <1>5, <2>1, <2>2, <2>3 DEF Exact, Answers, TreeDone
  <2>7. Hy!Behind' = Hy!Behind
    BY <1>2, <2>1 DEF Hy!Behind
  <2> QED BY <1>2, <2>2, <2>4, <2>5, <2>6, <2>7, StillView DEF HyprFollows
<1> QED BY <1>4, <1>5

\* The channel is emptied into what will be asked for.
LEMMA DrainEventsStep == ASSUME HyprFollows, Hy!DrainEvents PROVE HyprFollows' /\ UNCHANGED Hy!View!viewVars
<1> DEFINE changed == HyprAbout(hypr_channel)
<1>1. /\ HyprAllTyped /\ Remembered /\ Unconnected /\ Hy!NothingStranded
      /\ hypr_bridge # "ended" => Exact /\ Answers /\ TreeDone
  BY DEF HyprFollows
<1>2. /\ hypr_socket \in Seq(HyprEvents) /\ hypr_channel \in Seq(HyprEvents)
      /\ hypr_changed = {} /\ hypr_step = "drain"
  BY <1>1 DEF Hy!DrainEvents, Remembered, HyprAllTyped
<1>3. /\ hypr_changed' = changed
      /\ hypr_step' = IF changed \cap Hy!Tree # {} THEN "clients" ELSE IF changed # {} THEN "workspaces" ELSE "idle"
      /\ UNCHANGED <<hypr, hypr_socket, hypr_bridge, hypr_wake, hypr_state, hypr_answer, hypr_untold, hypr_lost>>
  BY DEF Hy!DrainEvents, Hy!Pending, HyprAbout
<1>4. hypr_channel' = <<>>
  <2>1. hypr_channel' = SubSeq(hypr_channel, Len(hypr_channel) + 1, Len(hypr_channel))
    BY DEF Hy!DrainEvents, Hy!Pending
  <2> QED BY <1>2, <2>1
<1>5. /\ changed \subseteq Hy!HyprArea
      /\ changed \cap Hy!Tree # {} => Hy!Tree \subseteq changed
      /\ changed \cap Hy!Places # {} => "workspaces" \in changed
  BY <1>2, AboutInArea, AboutPairs
<1> HIDE DEF changed
<1>6. UnderWay = UnderWay' \cup changed /\ TheWorld' = TheWorld
  BY <1>3, <1>4, AboutNone DEF UnderWay, TheWorld, changed
<1>7. changed # {} /\ changed \cap Hy!Tree = {} => "workspaces" \in changed
  BY <1>5 DEF Hy!HyprArea, Hy!Tree, Hy!Places
<1>8. HyprAllTyped'
  BY <1>1, <1>3, <1>4, <1>5 DEF HyprAllTyped, HyprSteps
<1>9. Remembered'
  BY <1>3, <1>5, <1>7, Zenon DEF Remembered
<1>10. Unconnected' /\ Hy!NothingStranded'
  BY <1>1, <1>2, <1>3, <1>4 DEF Unconnected, Hy!NothingStranded
<1>11. ASSUME hypr_bridge # "ended" PROVE Exact' /\ Answers' /\ TreeDone'
  <2>1. Exact
    BY <1>1, <1>11
  <2>2. Exact'
    BY <1>2, <1>3, <1>6, <2>1 DEF Exact
  <2>3. Answers'
    BY <1>3 DEF Answers
  <2>4. TreeDone'
    <3>1. SUFFICES ASSUME hypr_step' \in {"workspaces", "monitors"}, NEW a \in Hy!Tree, a \notin UnderWay', a \notin hypr_lost'
                   PROVE  hypr_state'[a] = TheWorld'[a]
      BY DEF TreeDone
    <3>2. a \notin changed /\ a \in Hy!HyprArea
      BY <1>3, <3>1 DEF Hy!Tree, Hy!HyprArea
    <3> QED BY <1>2, <1>3, <1>6, <2>1, <3>1, <3>2 DEF Exact
  <2> QED BY <2>2, <2>3, <2>4
<1>12. Hy!Behind' = Hy!Behind
  <2>1. CASE hypr_bridge = "ended"
    BY <1>3, <2>1 DEF Hy!Behind
  <2>2. CASE hypr_bridge # "ended"
    <3>1. Hy!Refreshed(UnderWay) = Hy!Refreshed(UnderWay') \cup Hy!Refreshed(changed)
      BY <1>6, RefreshedUnion
    <3>2. Hy!Refreshed({}) = {}
      BY DEF Hy!Refreshed
    <3>3. /\ Hy!Behind = Hy!Refreshed(UnderWay) \cup Hy!Refreshed({}) \cup hypr_lost
          /\ Hy!Behind' = Hy!Refreshed(UnderWay') \cup Hy!Refreshed(changed) \cup hypr_lost
      BY <1>1, <1>2, <1>3, <1>8, <2>2, HyprBehindNow, HyprBehindNext
    <3> QED BY <3>1, <3>2, <3>3
  <2> QED BY <2>1, <2>2
<1> QED BY <1>3, <1>8, <1>9, <1>10, <1>11, <1>12, StillView DEF HyprFollows

\* The first of two queries.
LEMMA AskStep == ASSUME HyprFollows, Hy!AskClients \/ Hy!AskWorkspaces PROVE HyprFollows' /\ UNCHANGED Hy!View!viewVars
<1>1. /\ HyprAllTyped /\ Remembered /\ Unconnected /\ Hy!NothingStranded
      /\ hypr_bridge # "ended" => Exact /\ Answers /\ TreeDone
  BY DEF HyprFollows
<1>2. /\ UNCHANGED <<hypr, hypr_socket, hypr_bridge, hypr_channel, hypr_wake, hypr_lost, hypr_state, hypr_changed>>
      /\ hypr_untold' = hypr_untold \cup Hy!Differ(hypr_state, hypr_state')
  BY DEF Hy!AskClients, Hy!AskWorkspaces, Hy!AskFirst, Hy!Ask, Hy!Untold, Hy!NoAnswer, Hy!bridgeVars
<1>3. hypr_untold' = hypr_untold
  BY <1>1, <1>2 DEF Hy!Differ, HyprAllTyped
<1>4. \/ hypr_step = "clients" /\ hypr_step' = "active" /\ hypr_answer' = HyprTitles(hypr)
      \/ hypr_step = "workspaces" /\ hypr_step' = "monitors" /\ hypr_answer' = [all |-> Hy!Spaces(hypr)]
  BY DEF Hy!AskClients, Hy!AskWorkspaces, Hy!AskFirst, Hy!Ask, HyprTitles
<1>5. UnderWay' = UnderWay /\ TheWorld' = TheWorld /\ HyprTitles(hypr') = HyprTitles(hypr) /\ Hy!Spaces(hypr') = Hy!Spaces(hypr)
  BY <1>2 DEF UnderWay, TheWorld
<1>6. HyprAllTyped'
  BY <1>1, <1>2, <1>3, <1>4 DEF HyprAllTyped, HyprSteps
<1>7. Remembered' /\ Unconnected' /\ Hy!NothingStranded'
  BY <1>1, <1>2, <1>4 DEF Remembered, Unconnected, Hy!NothingStranded
<1>8. ASSUME hypr_bridge # "ended" PROVE Exact' /\ Answers' /\ TreeDone'
  <2>1. Exact'
    BY <1>1, <1>2, <1>3, <1>5, <1>8 DEF Exact
  <2>2. Answers'
    BY <1>4, <1>5 DEF Answers
  <2>3. TreeDone'
    BY <1>1, <1>2, <1>4, <1>5, <1>8 DEF TreeDone
  <2> QED BY <2>1, <2>2, <2>3
<1>9. Hy!Behind' = Hy!Behind
  BY <1>2 DEF Hy!Behind
<1> QED BY <1>2, <1>3, <1>6, <1>7, <1>8, <1>9, StillView DEF HyprFollows

\* The second query for the windows: both answers are taken.
LEMMA HyprRefreshWindowsStep == ASSUME HyprFollows, Hy!RefreshWindows PROVE HyprFollows' /\ Hy!View!Update
<1> DEFINE places == hypr_changed \cap Hy!Places # {}
<1>1. /\ HyprAllTyped /\ Remembered /\ Unconnected /\ Hy!NothingStranded
      /\ hypr_bridge # "ended" => Exact /\ Answers /\ TreeDone
  BY DEF HyprFollows
<1>2. /\ hypr_step = "active"
      /\ hypr_state' = [hypr_state EXCEPT !.windows = hypr_answer, !.focus = hypr.focus]
      /\ hypr_lost' = hypr_lost \ (Hy!Tree \cap hypr_changed)
      /\ UNCHANGED <<hypr, hypr_socket, hypr_bridge, hypr_channel, hypr_wake>>
  BY DEF Hy!RefreshWindows, Hy!bridgeVars
<1>3. /\ places => hypr_step' = "workspaces" /\ hypr_changed' = hypr_changed
                    /\ hypr_untold' = (hypr_untold \cup Hy!Differ(hypr_state, hypr_state')) \ {}
      /\ ~places => hypr_step' = "idle" /\ hypr_changed' = {}
                     /\ hypr_untold' = (hypr_untold \cup Hy!Differ(hypr_state, hypr_state')) \ hypr_changed
  BY DEF Hy!RefreshWindows, Hy!Ask, Hy!Return, Hy!Untold
<1>4. /\ DOMAIN hypr_state' = DOMAIN hypr_state
      /\ hypr_state'["windows"] = hypr_answer /\ hypr_state'["focus"] = hypr.focus
      /\ hypr_state'["workspaces"] = hypr_state["workspaces"] /\ hypr_state'["monitors"] = hypr_state["monitors"]
  BY <1>1, <1>2 DEF HyprAllTyped
<1>5. Hy!Tree \subseteq hypr_changed /\ (places => "workspaces" \in hypr_changed) /\ hypr_bridge # "connecting"
  BY <1>1, <1>2 DEF Remembered, Unconnected
<1>6. /\ UnderWay' = UnderWay /\ HyprTitles(hypr') = HyprTitles(hypr) /\ Hy!Spaces(hypr') = Hy!Spaces(hypr)
      /\ TheWorld' = TheWorld
  BY <1>2 DEF UnderWay, TheWorld
<1>7. HyprAllTyped'
  <2>1. hypr_untold' \subseteq Hy!HyprArea
    BY <1>1, <1>3 DEF HyprAllTyped, Hy!Differ
  <2>2. hypr_changed' \subseteq Hy!HyprArea /\ hypr_lost' \subseteq Hy!HyprArea /\ hypr_step' \in HyprSteps
    BY <1>1, <1>2, <1>3 DEF HyprAllTyped, HyprSteps
  <2> QED BY <1>1, <1>2, <1>4, <2>1, <2>2 DEF HyprAllTyped
<1>8. Remembered' /\ Unconnected' /\ Hy!NothingStranded'
  BY <1>1, <1>2, <1>3, <1>5 DEF Remembered, Unconnected, Hy!NothingStranded
<1>9. ASSUME hypr_bridge # "ended" PROVE Exact' /\ Answers' /\ TreeDone'
  <2>1. ASSUME NEW a \in Hy!Tree, a \notin UnderWay PROVE hypr_state'[a] = TheWorld[a]
    <3>1. CASE a = "windows"
      <4>1. hypr_answer = HyprTitles(hypr)
        BY <1>1, <1>2, <1>9, <2>1, <3>1 DEF Answers
      <4> QED BY <1>4, <3>1, <4>1 DEF TheWorld
    <3>2. CASE a = "focus"
      BY <1>4, <3>2 DEF TheWorld
    <3> QED BY <3>1, <3>2 DEF Hy!Tree
  <2>2. ASSUME NEW a \in Hy!Places, a \notin UnderWay, a \notin hypr_lost', a \notin hypr_changed'
        PROVE  hypr_state'[a] = TheWorld[a] /\ a \notin hypr_untold'
    <3>1. a \in Hy!HyprArea /\ a \notin hypr_lost /\ a \notin hypr_changed /\ hypr_state'[a] = hypr_state[a]
      BY <1>2, <1>3, <1>4, <2>2 DEF Hy!Tree, Hy!Places, Hy!HyprArea
    <3>2. hypr_state[a] = TheWorld[a] /\ a \notin hypr_untold
      BY <1>1, <1>9, <2>2, <3>1 DEF Exact
    <3> QED BY <1>3, <3>1, <3>2 DEF Hy!Differ
  <2>3. Exact'
    <3>1. SUFFICES ASSUME NEW a \in Hy!HyprArea, a \notin UnderWay, a \notin hypr_lost', a \notin hypr_changed'
                   PROVE  hypr_state'[a] = TheWorld[a] /\ a \notin hypr_untold'
      BY <1>6 DEF Exact
    <3>2. CASE a \in Hy!Tree
      BY <1>3, <1>5, <2>1, <3>1, <3>2
    <3>3. CASE a \in Hy!Places
      BY <2>2, <3>1, <3>3
    <3> QED BY <3>2, <3>3 DEF Hy!HyprArea, Hy!Tree, Hy!Places
  <2>4. Answers'
    BY <1>3 DEF Answers
  <2>5. TreeDone'
    BY <1>6, <2>1 DEF TreeDone
  <2> QED BY <2>3, <2>4, <2>5
<1>10. HyprFollows'
  BY <1>2, <1>7, <1>8, <1>9 DEF HyprFollows
<1>11. Hy!Behind' \subseteq Hy!Behind
  <2>1. CASE hypr_bridge = "ended"
    BY <1>2, <2>1 DEF Hy!Behind
  <2>2. CASE hypr_bridge # "ended"
    <3>1. Hy!Refreshed(hypr_changed') \subseteq Hy!Refreshed(hypr_changed)
      BY <1>3 DEF Hy!Refreshed
    <3> QED BY <1>1, <1>2, <1>6, <1>7, <2>2, <3>1, HyprBehindNow, HyprBehindNext
  <2> QED BY <2>1, <2>2
<1> QED BY <1>2, <1>3, <1>10, <1>11, HyprUpdatesView

\* The second query for the workspaces: everything asked for is announced.
LEMMA HyprRefreshWorkspacesStep == ASSUME HyprFollows, Hy!RefreshWorkspaces PROVE HyprFollows' /\ Hy!View!Update
<1>1. /\ HyprAllTyped /\ Remembered /\ Unconnected /\ Hy!NothingStranded
      /\ hypr_bridge # "ended" => Exact /\ Answers /\ TreeDone
  BY DEF HyprFollows
<1>2. /\ hypr_step = "monitors" /\ hypr_step' = "idle" /\ hypr_changed' = {}
      /\ hypr_state' = [hypr_state EXCEPT !.workspaces = Hy!Shown(hypr_answer.all, hypr.place),
                                          !.monitors = hypr.outputs,
                                          !.urgent = {HomeOf[w] : w \in hypr_urgent \cap hypr_known}]
      /\ hypr_lost' = hypr_lost \ (Hy!Places \cap hypr_changed)
      /\ hypr_untold' = (hypr_untold \cup Hy!Differ(hypr_state, hypr_state')) \ hypr_changed
      /\ UNCHANGED <<hypr, hypr_socket, hypr_bridge, hypr_channel, hypr_wake>>
  BY DEF Hy!RefreshWorkspaces, Hy!Return, Hy!Untold, Hy!bridgeVars
<1>3. /\ DOMAIN hypr_state' = DOMAIN hypr_state
      /\ hypr_state'["windows"] = hypr_state["windows"] /\ hypr_state'["focus"] = hypr_state["focus"]
      /\ hypr_state'["workspaces"] = Hy!Shown(hypr_answer.all, hypr.place) /\ hypr_state'["monitors"] = hypr.outputs
  BY <1>1, <1>2 DEF HyprAllTyped
<1>4. "workspaces" \in hypr_changed /\ hypr_bridge # "connecting"
  BY <1>1, <1>2 DEF Remembered, Unconnected
<1>5. UnderWay' = UnderWay /\ TheWorld' = TheWorld
  BY <1>2 DEF UnderWay, TheWorld
<1>6. HyprAllTyped'
  <2>1. hypr_untold' \subseteq Hy!HyprArea
    BY <1>1, <1>2 DEF HyprAllTyped, Hy!Differ
  <2>2. hypr_changed' \subseteq Hy!HyprArea /\ hypr_lost' \subseteq Hy!HyprArea /\ hypr_step' \in HyprSteps
    BY <1>1, <1>2 DEF HyprAllTyped, HyprSteps
  <2> QED BY <1>1, <1>2, <1>3, <2>1, <2>2 DEF HyprAllTyped
<1>7. Remembered' /\ Unconnected' /\ Hy!NothingStranded'
  BY <1>1, <1>2, <1>4 DEF Remembered, Unconnected, Hy!NothingStranded
<1>8. ASSUME hypr_bridge # "ended" PROVE Exact' /\ Answers' /\ TreeDone'
  <2>1. Exact /\ Answers /\ TreeDone
    BY <1>1, <1>8
  <2>2. SUFFICES ASSUME NEW a \in Hy!HyprArea, a \notin UnderWay, a \notin hypr_lost'
                 PROVE  hypr_state'[a] = TheWorld[a] /\ a \notin hypr_untold'
    BY <1>2, <1>5 DEF Exact, Answers, TreeDone
  <2>3. CASE a \in Hy!Tree
    <3>1. a \notin hypr_lost /\ hypr_state'[a] = hypr_state[a]
      BY <1>2, <1>3, <2>2, <2>3 DEF Hy!Tree, Hy!Places
    <3>2. hypr_state[a] = TheWorld[a]
      BY <1>2, <2>1, <2>2, <2>3, <3>1 DEF TreeDone
    <3>3. a \in hypr_changed \/ a \notin hypr_untold
      BY <2>1, <2>2, <3>1 DEF Exact
    <3> QED BY <1>2, <3>1, <3>2, <3>3 DEF Hy!Differ
  <2>4. CASE a = "workspaces"
    BY <1>2, <1>3, <1>4, <2>1, <2>2, <2>4 DEF Answers, TheWorld
  <2>5. CASE a = "monitors"
    <3>1. hypr_state'[a] = TheWorld[a]
      BY <1>3, <2>5 DEF TheWorld
    <3>2. ASSUME a \notin hypr_changed PROVE a \notin hypr_untold /\ hypr_state[a] = TheWorld[a]
      BY <1>2, <2>1, <2>2, <3>2 DEF Exact
    <3> QED BY <1>2, <3>1, <3>2 DEF Hy!Differ
  <2> QED BY <2>3, <2>4, <2>5 DEF Hy!HyprArea, Hy!Tree
<1>9. HyprFollows'
  BY <1>2, <1>6, <1>7, <1>8 DEF HyprFollows
<1>10. Hy!Behind' \subseteq Hy!Behind
  <2>1. CASE hypr_bridge = "ended"
    BY <1>2, <2>1 DEF Hy!Behind
  <2>2. CASE hypr_bridge # "ended"
    <3>1. Hy!Refreshed(hypr_changed') \subseteq Hy!Refreshed(hypr_changed)
      BY <1>2 DEF Hy!Refreshed
    <3> QED BY <1>1, <1>2, <1>5, <1>6, <2>2, <3>1, HyprBehindNow, HyprBehindNext
  <2> QED BY <2>1, <2>2
<1> QED BY <1>2, <1>9, <1>10, HyprUpdatesView

\* What was asked for and not answered is lost, and everything is announced.
LEMMA HyprQueryFailsStep == ASSUME HyprFollows, Hy!QueryFails PROVE HyprFollows' /\ Hy!View!Update
<1> DEFINE asked == hypr_step \in {"workspaces", "monitors"}
<1>1. /\ HyprAllTyped /\ Remembered /\ Unconnected /\ Hy!NothingStranded
      /\ hypr_bridge # "ended" => Exact /\ Answers /\ TreeDone
  BY DEF HyprFollows
<1>2. /\ hypr_step \in {"clients", "active", "workspaces", "monitors"}
      /\ hypr_step' = "idle" /\ hypr_changed' = {}
      /\ hypr_lost' = hypr_lost \cup (Hy!Refreshed(hypr_changed) \ IF asked THEN Hy!Tree ELSE {})
      /\ hypr_untold' = (hypr_untold \cup Hy!Differ(hypr_state, hypr_state')) \ Hy!HyprArea
      /\ UNCHANGED <<hypr, hypr_socket, hypr_bridge, hypr_channel, hypr_wake, hypr_state>>
  BY DEF Hy!QueryFails, Hy!Return, Hy!Untold, Hy!NoAnswer, Hy!bridgeVars
<1>3. /\ hypr_changed \subseteq Hy!Refreshed(hypr_changed) /\ Hy!Refreshed(hypr_changed) \subseteq Hy!HyprArea
      /\ hypr_untold' = {} /\ hypr_bridge # "connecting"
  <2>1. hypr_changed \subseteq Hy!HyprArea /\ hypr_untold \subseteq Hy!HyprArea
    BY <1>1 DEF HyprAllTyped
  <2>2. hypr_bridge # "connecting"
    BY <1>1, <1>2 DEF Unconnected
  <2> QED BY <1>2, <2>1, <2>2, RefreshedCovers DEF Hy!Differ
<1>4. UnderWay' = UnderWay /\ TheWorld' = TheWorld
  BY <1>2 DEF UnderWay, TheWorld
<1>5. HyprAllTyped'
  <2>1. hypr_lost' \subseteq Hy!HyprArea
    BY <1>1, <1>2, <1>3 DEF HyprAllTyped
  <2> QED BY <1>1, <1>2, <1>3, <2>1 DEF HyprAllTyped, HyprSteps
<1>6. Remembered' /\ Unconnected' /\ Hy!NothingStranded'
  BY <1>1, <1>2, <1>3 DEF Remembered, Unconnected, Hy!NothingStranded
<1>7. ASSUME hypr_bridge # "ended" PROVE Exact' /\ Answers' /\ TreeDone'
  <2>1. Exact /\ TreeDone
    BY <1>1, <1>7
  <2>2. SUFFICES ASSUME NEW a \in Hy!HyprArea, a \notin UnderWay, a \notin hypr_lost' PROVE hypr_state[a] = TheWorld[a]
    BY <1>2, <1>3, <1>4 DEF Exact, Answers, TreeDone
  <2>3. a \notin hypr_lost
    BY <1>2, <2>2
  <2>4. CASE a \in hypr_changed
    <3>1. asked /\ a \in Hy!Tree
      BY <1>2, <1>3, <2>2, <2>4
    <3> QED BY <2>1, <2>2, <2>3, <3>1 DEF TreeDone
  <2>5. CASE a \notin hypr_changed
    BY <2>1, <2>2, <2>3, <2>5 DEF Exact
  <2> QED BY <2>4, <2>5
<1>8. HyprFollows'
  BY <1>2, <1>5, <1>6, <1>7 DEF HyprFollows
<1>9. Hy!Behind' \subseteq Hy!Behind
  <2>1. CASE hypr_bridge = "ended"
    BY <1>2, <2>1 DEF Hy!Behind
  <2>2. CASE hypr_bridge # "ended"
    <3>1. Hy!Refreshed(hypr_changed') = {}
      BY <1>2 DEF Hy!Refreshed
    <3> QED BY <1>1, <1>2, <1>4, <1>5, <2>2, <3>1, HyprBehindNow, HyprBehindNext
  <2> QED BY <2>1, <2>2
<1> QED BY <1>2, <1>3, <1>8, <1>9, HyprUpdatesView

----------------------------------------------------------------------------

(* The theorems.                                                            *)

LEMMA InitFollows == ASSUME Hy!Init PROVE HyprFollows /\ Hy!View!Init
<1>1. /\ DOMAIN hypr = {"wins", "title", "focus", "place", "outputs"}
      /\ hypr.wins = {} /\ hypr.focus = NoHyprWin
      /\ DOMAIN hypr_state = {"windows", "focus", "urgent", "workspaces", "monitors"}
      /\ hypr_state["windows"] = <<>> /\ hypr_state["focus"] = NoHyprWin
      /\ hypr_state["workspaces"] = Hy!Shown(Hy!Spaces(hypr), hypr.place) /\ hypr_state["monitors"] = hypr.outputs
      /\ hypr_socket = <<>> /\ hypr_bridge = "connecting" /\ hypr_channel = <<>> /\ hypr_wake = FALSE
      /\ hypr_step = "idle" /\ hypr_changed = {} /\ hypr_untold = {} /\ hypr_lost = {}
  BY DEF Hy!Init
<1>2. HyprAllTyped
  <2>1. hypr_socket \in Seq(HyprEvents) /\ hypr_channel \in Seq(HyprEvents)
    BY <1>1
  <2>2. hypr.wins \subseteq HyprWin /\ hypr.focus \in HyprWin \cup {NoHyprWin}
    BY <1>1
  <2> QED BY <1>1, <2>1, <2>2 DEF HyprAllTyped, HyprSteps
<1>3. Remembered /\ Unconnected /\ Hy!NothingStranded
  BY <1>1 DEF Remembered, Unconnected, Hy!NothingStranded
<1>4. HyprTitles(hypr) = <<>>
  BY <1>1 DEF HyprTitles
<1>5. \A a \in Hy!HyprArea : hypr_state[a] = TheWorld[a]
  BY <1>1, <1>4 DEF Hy!HyprArea, TheWorld
<1>6. Exact /\ Answers /\ TreeDone
  BY <1>1, <1>5 DEF Exact, Answers, TreeDone
<1>7. Hy!Behind = {}
  BY <1>1 DEF Hy!Behind, Hy!News, Hy!Refreshed
<1>8. Hy!View!Init
  BY <1>1, <1>4, <1>7 DEF Hy!View!Init, Hy!HyprArea
<1> QED BY <1>2, <1>3, <1>6, <1>8 DEF HyprFollows

\* Every step keeps Hyprland's invariant and is a step of the view.
LEMMA HyprStepFollows == ASSUME HyprFollows, [Hy!Next]_(Hy!hyprVars) PROVE HyprFollows' /\ [Hy!View!Next]_(Hy!View!viewVars)
<1>1. CASE Hy!World
  BY <1>1, HyprWorldStep DEF Hy!View!Next
<1>2. CASE Hy!Bridge
  BY <1>2, BridgeStep DEF Hy!View!Next
<1>3. CASE Hy!DrainWake
  BY <1>3, DrainWakeStep DEF Hy!View!Next
<1>4. CASE Hy!DrainEvents
  BY <1>4, DrainEventsStep
<1>5. CASE Hy!AskClients \/ Hy!AskWorkspaces
  BY <1>5, AskStep
<1>6. CASE Hy!RefreshWindows
  BY <1>6, HyprRefreshWindowsStep DEF Hy!View!Next
<1>7. CASE Hy!RefreshWorkspaces
  BY <1>7, HyprRefreshWorkspacesStep DEF Hy!View!Next
<1>8. CASE Hy!QueryFails
  BY <1>8, HyprQueryFailsStep DEF Hy!View!Next
<1>9. CASE UNCHANGED Hy!hyprVars
  <2>1. UNCHANGED <<hypr, hypr_socket, hypr_bridge, hypr_channel, hypr_wake, hypr_state, hypr_step, hypr_changed,
                    hypr_answer, hypr_untold, hypr_lost>>
    BY <1>9 DEF Hy!hyprVars
  <2>2. Hy!Behind' = Hy!Behind
    BY <2>1 DEF Hy!Behind
  <2>3. UnderWay' = UnderWay /\ TheWorld' = TheWorld
    BY <2>1 DEF UnderWay, TheWorld
  <2>4. HyprAllTyped' /\ Remembered' /\ Unconnected' /\ Hy!NothingStranded'
    BY <2>1 DEF HyprFollows, HyprAllTyped, Remembered, Unconnected, Hy!NothingStranded
  <2>5. hypr_bridge' # "ended" => Exact' /\ Answers' /\ TreeDone'
    BY <2>1, <2>3 DEF HyprFollows, Exact, Answers, TreeDone
  <2> QED BY <2>1, <2>2, <2>4, <2>5, StillView DEF HyprFollows
<1> QED BY <1>1, <1>2, <1>3, <1>4, <1>5, <1>6, <1>7, <1>8, <1>9 DEF Hy!Next, Hy!UpdateState

\* What the client's state, its channel, its answers and what it is about to ask
\* have to do with Hyprland, whatever happens, in whichever order.
THEOREM HyprFollowsAlways == Hy!Spec => []HyprFollows
<1>1. Hy!Init => HyprFollows
  BY InitFollows
<1>2. HyprFollows /\ [Hy!Next]_(Hy!hyprVars) => HyprFollows'
  BY HyprStepFollows
<1> QED BY <1>1, <1>2, PTL DEF Hy!Spec

\* No event stays in the channel with nothing left to wake the loop: the byte is
\* read before the channel is emptied, and written after the event is sent.
THEOREM NothingStrandedAlways == Hy!Spec => []Hy!NothingStranded
<1>1. HyprFollows => Hy!NothingStranded
  BY DEF HyprFollows
<1> QED BY <1>1, HyprFollowsAlways, PTL

\* The client implements the view the shell relies on: what is not behind is as it
\* is in Hyprland and has been announced, for all windows, workspaces and outputs,
\* with queries that fail and a stream that ends.
THEOREM ImplementsViewAlways == Hy!Spec => Hy!ImplementsView
<1>1. Hy!Init => Hy!View!Init
  BY InitFollows
<1>2. HyprFollows /\ [Hy!Next]_(Hy!hyprVars) => [Hy!View!Next]_(Hy!View!viewVars)
  BY HyprStepFollows
<1> QED BY <1>1, <1>2, HyprFollowsAlways, PTL DEF Hy!Spec, Hy!ImplementsView, Hy!View!Spec

HyprRan(b, s) == Hy!FoldLeft(Hy!ApplyUrgent, b, s)
HyprSteady(R, N, s) == \A r \in R, i \in 1..N : Hy!ApplyUrgent(r, s[i]) \in R
HyprRuns(run, R, b, N, s) == run \in [0..N -> R] /\ run[0] = b /\ HyprRan(b, s) = run[N] /\ \A i \in 1..N : run[i] = Hy!ApplyUrgent(run[i - 1], s[i])

\* A fold of events is a run over them.
LEMMA HyprRunsThereAre == \A R, b, N, s : b \in R /\ N \in Nat /\ DOMAIN s = 1..N /\ HyprSteady(R, N, s) => \E run : HyprRuns(run, R, b, N, s)
<1> SUFFICES ASSUME NEW R, NEW b \in R, NEW N \in Nat, NEW s, DOMAIN s = 1..N, HyprSteady(R, N, s)
             PROVE  \E run : HyprRuns(run, R, b, N, s)
  OBVIOUS
<1>0. \A r \in R, i \in 1..N : Hy!ApplyUrgent(r, s[i]) \in R
  BY DEF HyprSteady
<1> DEFINE Fits(it) == it = [x \in SUBSET (DOMAIN s) |-> IF x = {} THEN b ELSE Hy!ApplyUrgent(it[x \ {Max(x)}], s[Max(x)])]
           step == [p \in R \X (1..N) |-> Hy!ApplyUrgent(p[1], s[p[2]])]
           iter == CHOOSE it : Fits(it)
           run == [k \in 0..N |-> iter[1..k]]
<1>1. step \in [R \X (1..N) -> R] /\ \A r \in R, i \in 1..N : step[<<r, i>>] = Hy!ApplyUrgent(r, s[i])
  BY <1>0
<1> HIDE DEF step
<1>2. \A x \in SUBSET (1..N) : x # {} => Max(x) \in 1..N
  <2> SUFFICES ASSUME NEW x \in SUBSET (1..N), x # {} PROVE Max(x) \in 1..N
    OBVIOUS
  <2>1. Max(x) \in x
    BY GreatestOf
  <2> QED BY <2>1
<1>3. PICK it \in [SUBSET (1..N) -> R] : IsFold(it, b, N, step)
  BY <1>1, FoldsThereAre
<1>4. Fits(it)
  <2>1. \A x \in SUBSET (1..N) : it[x] = IF x = {} THEN b ELSE Hy!ApplyUrgent(it[x \ {Max(x)}], s[Max(x)])
    <3> SUFFICES ASSUME NEW x \in SUBSET (1..N), x # {} PROVE it[x] = Hy!ApplyUrgent(it[x \ {Max(x)}], s[Max(x)])
      BY <1>3 DEF IsFold
    <3>1. x \ {Max(x)} \in SUBSET (1..N) /\ Max(x) \in 1..N
      BY <1>2
    <3> QED BY <1>1, <1>3, <3>1 DEF IsFold
  <2> QED BY <2>1
<1>5. Fits(iter)
  <2> HIDE DEF Fits
  <2> QED BY <1>4
<1>6. iter[{}] = b
  BY <1>5
<1>7. \A k \in 1..N : iter[1..k] = Hy!ApplyUrgent(iter[1..k - 1], s[k])
  <2> SUFFICES ASSUME NEW k \in 1..N PROVE iter[1..k] = Hy!ApplyUrgent(iter[1..k - 1], s[k])
    OBVIOUS
  <2>1. k \in Nat \ {0} /\ (1..k) \in SUBSET (1..N) /\ k \in 1..k /\ 1..k # {} /\ (1..k) \ {k} = 1..k - 1
    <3>1. k \in Nat \ {0} /\ k <= N
      OBVIOUS
    <3>2. (1..k) \in SUBSET (1..N) /\ k \in 1..k
      BY <3>1
    <3>3. (1..k) \ {k} = 1..k - 1
      BY <3>1
    <3> QED BY <3>1, <3>2, <3>3
  <2>2. Max(1..k) = k
    BY <2>1, MaxIs
  <2> QED BY <1>5, <2>1, <2>2
<1>8. HyprRan(b, s) = iter[1..N]
  BY DEF HyprRan, Hy!FoldLeft, Hy!MapThenFoldSet, Hy!Max, Max
<1> HIDE DEF iter
<1>9. run \in [0..N -> R]
  <2>1. \A k \in 1..N : iter[1..k - 1] \in R => iter[1..k] \in R
    BY <1>0, <1>7
  <2> QED BY <1>6, <2>1, PrefixesRun
<1>10. run[0] = b /\ run[N] = iter[1..N]
  <2>1. 1..0 = {}
    OBVIOUS
  <2> QED BY <1>6, <2>1
<1>11. \A i \in 1..N : run[i] = Hy!ApplyUrgent(run[i - 1], s[i])
  BY <1>7
<1> HIDE DEF run
<1>12. HyprRuns(run, R, b, N, s)
  BY <1>8, <1>9, <1>10, <1>11 DEF HyprRuns
<1> QED BY <1>12

\* What the client keeps of windows is of windows there are.
Attends ==
  /\ hypr_urgent \subseteq HyprWin /\ hypr_known \subseteq HyprWin
  /\ hypr_state.urgent \subseteq HyprSpace /\ hypr_state.focus \in HyprWin \cup {NoHyprWin}
  /\ hypr_step = "active" => DOMAIN hypr_answer \subseteq HyprWin

\* The fold over a batch gives a set of urgent windows.
LEMMA UrgentFolds == \A u \in SUBSET HyprWin, E \in Seq(HyprEvents) : HyprRan(u, E) \in SUBSET HyprWin
<1> SUFFICES ASSUME NEW u \in SUBSET HyprWin, NEW E \in Seq(HyprEvents) PROVE HyprRan(u, E) \in SUBSET HyprWin
  OBVIOUS
<1> DEFINE N == Len(E)
           R == SUBSET HyprWin
<1>1. N \in Nat /\ DOMAIN E = 1..N /\ \A i \in 1..N : E[i] \in HyprEvents
  OBVIOUS
<1>2. \A r \in R, e \in HyprEvents : Hy!ApplyUrgent(r, e) \in R
  BY DEF Hy!ApplyUrgent, HyprEvents
<1>4. u \in R
  OBVIOUS
<1> HIDE DEF N, R
<1>3. HyprSteady(R, N, E)
  BY <1>1, <1>2 DEF HyprSteady
<1>5. PICK run : HyprRuns(run, R, u, N, E)
  BY <1>1, <1>3, <1>4, HyprRunsThereAre
<1>6. run[N] \in R
  BY <1>1, <1>5 DEF HyprRuns
<1> QED BY <1>5, <1>6 DEF HyprRuns, R

\* The urgent windows are windows at the start.
LEMMA AttendsStarts == ASSUME Hy!Init PROVE Attends
BY DEF Hy!Init, Attends

\* Every step keeps them windows.
LEMMA AttendsGoesOn == ASSUME HyprFollows, Attends, [Hy!Next]_(Hy!hyprVars) PROVE Attends'
<1>0. HyprAllTyped
  BY DEF HyprFollows
<1>1. CASE Hy!World
  <2>1. UNCHANGED Hy!mainVars
    BY <1>0, <1>1, WorldIsTold
  <2> QED BY <2>1 DEF Hy!mainVars, Attends
<1>2. CASE Hy!Bridge
  BY <1>2 DEF Hy!Bridge, Hy!BridgeConnects, Hy!BridgeSends, Hy!BridgeWakes, Hy!BridgeEnds, Hy!mainVars, Attends
<1>3. CASE Hy!DrainWake
  BY <1>3 DEF Hy!DrainWake, Hy!NoAnswer, Hy!Return, Hy!Ask, Attends
<1>4. CASE Hy!DrainEvents
  <2>1. hypr_urgent' = HyprRan(hypr_urgent, hypr_channel) /\ UNCHANGED <<hypr_state, hypr_known>> /\ hypr_step' # "active"
    BY <1>4 DEF Hy!DrainEvents, Hy!Pending, HyprRan
  <2>2. hypr_urgent' \in SUBSET HyprWin
    BY <1>0, <2>1, UrgentFolds DEF HyprAllTyped, Attends
  <2> QED BY <2>1, <2>2 DEF Attends
<1>5. CASE Hy!AskClients
  <2>1. hypr_answer' = HyprTitles(hypr) /\ UNCHANGED <<hypr_state, hypr_urgent, hypr_known>>
    BY <1>5 DEF Hy!AskClients, Hy!AskFirst, Hy!NoAnswer, HyprTitles
  <2>2. DOMAIN HyprTitles(hypr) = hypr.wins
    BY DEF HyprTitles
  <2> QED BY <1>0, <2>1, <2>2 DEF HyprAllTyped, Attends
<1>6. CASE Hy!AskWorkspaces
  BY <1>6 DEF Hy!AskWorkspaces, Hy!AskFirst, Hy!NoAnswer, Hy!Ask, Attends
<1>7. CASE Hy!RefreshWindows
  <2> DEFINE clients == DOMAIN hypr_answer
  <2>1. /\ hypr_step = "active" /\ hypr_state' = [hypr_state EXCEPT !.windows = hypr_answer, !.focus = hypr.focus]
        /\ hypr_urgent' = (hypr_urgent \cap clients) \ {hypr.focus} /\ hypr_known' = clients
        /\ hypr_step' \in {"workspaces", "idle"}
    BY <1>7 DEF Hy!RefreshWindows, Hy!Ask, Hy!Return
  <2>2. clients \subseteq HyprWin
    BY <2>1 DEF Attends
  <2> HIDE DEF clients
  <2>3. hypr_state'.urgent = hypr_state.urgent /\ hypr_state'.focus = hypr.focus
    BY <1>0, <2>1 DEF HyprAllTyped
  <2> QED BY <1>0, <2>1, <2>2, <2>3 DEF HyprAllTyped, Attends
<1>8. CASE Hy!RefreshWorkspaces
  <2> DEFINE homes == {HomeOf[w] : w \in hypr_urgent \cap hypr_known}
  <2>1. /\ hypr_state' = [hypr_state EXCEPT !.workspaces = Hy!Shown(hypr_answer.all, hypr.place), !.monitors = hypr.outputs,
                                            !.urgent = homes]
        /\ UNCHANGED <<hypr_urgent, hypr_known>> /\ hypr_step' = "idle"
    BY <1>8 DEF Hy!RefreshWorkspaces, Hy!Return
  <2>2. homes \subseteq HyprSpace
    BY HyprlandAssumption DEF Attends
  <2> HIDE DEF homes
  <2>3. hypr_state'.urgent = homes /\ hypr_state'.focus = hypr_state.focus
    BY <1>0, <2>1 DEF HyprAllTyped
  <2> QED BY <2>1, <2>2, <2>3 DEF Attends
<1>9. CASE Hy!QueryFails
  BY <1>9 DEF Hy!QueryFails, Hy!NoAnswer, Hy!Return, Attends
<1>10. CASE UNCHANGED Hy!hyprVars
  BY <1>10 DEF Hy!hyprVars, Attends
<1> QED BY <1>1, <1>2, <1>3, <1>4, <1>5, <1>6, <1>7, <1>8, <1>9, <1>10 DEF Hy!Next, Hy!UpdateState

\* Hyprland's invariant and the urgent windows give its types.
LEMMA AttendsPromises == ASSUME HyprFollows, Attends PROVE Hy!TypeOK
BY DEF HyprFollows, HyprAllTyped, HyprSteps, Attends, Hy!TypeOK

\* On Hyprland every variable of the bridge keeps its type, the set of urgent windows
\* included, which a fold over the events computes.
THEOREM HyprTyped == Hy!Spec => []Hy!TypeOK
<1>1. Hy!Init => Attends
  BY AttendsStarts
<1>2. HyprFollows /\ Attends /\ [Hy!Next]_(Hy!hyprVars) => Attends'
  BY AttendsGoesOn
<1>3. HyprFollows /\ Attends => Hy!TypeOK
  BY AttendsPromises
<1> QED BY <1>1, <1>2, <1>3, HyprFollowsAlways, PTL DEF Hy!Spec

-----------------------------------------------------------------------------
(* The session (MCSession.tla).                                             *)

\* The steps of the parts, and of the others around them, are steps of each part or
\* leave it alone.
LEMMA PartsRun ==
  ASSUME [PartsNext]_partsVars
  PROVE  /\ [Sound!Next]_(Sound!audioVars) /\ [Icons!Next]_(Icons!trayVars) /\ [Pop!Next]_(Pop!popupVars)
         /\ [Comp!Next]_(Comp!compVars) /\ [Spot!Next]_(Spot!spotVars)
         /\ [Sw!Next]_(Sw!swayVars) /\ [Ni!Next]_(Ni!niriVars) /\ [Hy!Next]_(Hy!hyprVars) /\ [Fb!Next]_(Fb!fbVars)
<1>1. \/ AudioRuns \/ TrayRuns \/ SwayRuns \/ NiriRuns \/ HyprlandRuns
      \/ FallbackRuns \/ PopupsRun \/ ComponentsRun \/ SpotlightRuns \/ UNCHANGED partsVars
  BY DEF PartsNext
<1>2. \/ Sound!Next \/ UNCHANGED audioVars
  BY <1>1 DEF AudioRuns, TrayRuns, SwayRuns, NiriRuns, HyprlandRuns, FallbackRuns, PopupsRun, ComponentsRun,
              SpotlightRuns, partsVars
<1>3. \/ Icons!Next \/ UNCHANGED trayVars
  BY <1>1 DEF AudioRuns, TrayRuns, SwayRuns, NiriRuns, HyprlandRuns, FallbackRuns, PopupsRun, ComponentsRun,
              SpotlightRuns, partsVars
<1>4. \/ Pop!Next \/ UNCHANGED popupVars
  BY <1>1 DEF AudioRuns, TrayRuns, SwayRuns, NiriRuns, HyprlandRuns, FallbackRuns, PopupsRun, ComponentsRun,
              SpotlightRuns, partsVars
<1>5. \/ Comp!Next \/ UNCHANGED compVars
  BY <1>1 DEF AudioRuns, TrayRuns, SwayRuns, NiriRuns, HyprlandRuns, FallbackRuns, PopupsRun, ComponentsRun,
              SpotlightRuns, partsVars
<1>6. \/ Spot!Next \/ UNCHANGED spotVars
  BY <1>1 DEF AudioRuns, TrayRuns, SwayRuns, NiriRuns, HyprlandRuns, FallbackRuns, PopupsRun, ComponentsRun,
              SpotlightRuns, partsVars
<1>7. \/ Sw!Next \/ UNCHANGED swayVars
  BY <1>1 DEF AudioRuns, TrayRuns, SwayRuns, NiriRuns, HyprlandRuns, FallbackRuns, PopupsRun, ComponentsRun,
              SpotlightRuns, partsVars
<1>8. \/ Ni!Next \/ UNCHANGED niriVars
  BY <1>1 DEF AudioRuns, TrayRuns, SwayRuns, NiriRuns, HyprlandRuns, FallbackRuns, PopupsRun, ComponentsRun,
              SpotlightRuns, partsVars
<1>9. \/ Hy!Next \/ UNCHANGED hyprVars
  BY <1>1 DEF AudioRuns, TrayRuns, SwayRuns, NiriRuns, HyprlandRuns, FallbackRuns, PopupsRun, ComponentsRun,
              SpotlightRuns, partsVars
<1>10. \/ Fb!Next \/ UNCHANGED fbVars
  BY <1>1 DEF AudioRuns, TrayRuns, SwayRuns, NiriRuns, HyprlandRuns, FallbackRuns, PopupsRun, ComponentsRun,
              SpotlightRuns, partsVars
<1>11. /\ UNCHANGED audioVars => UNCHANGED Sound!audioVars
       /\ UNCHANGED trayVars => UNCHANGED Icons!trayVars
       /\ UNCHANGED popupVars => UNCHANGED Pop!popupVars
       /\ UNCHANGED compVars => UNCHANGED Comp!compVars
       /\ UNCHANGED spotVars => UNCHANGED Spot!spotVars
       /\ UNCHANGED swayVars => UNCHANGED Sw!swayVars
       /\ UNCHANGED niriVars => UNCHANGED Ni!niriVars
       /\ UNCHANGED hyprVars => UNCHANGED Hy!hyprVars
       /\ UNCHANGED fbVars => UNCHANGED Fb!fbVars
  BY DEF audioVars, Sound!audioVars, trayVars, Icons!trayVars, popupVars, Pop!popupVars,
         compVars, Comp!compVars, spotVars, Spot!spotVars, swayVars, Sw!swayVars,
         niriVars, Ni!niriVars, hyprVars, Hy!hyprVars, fbVars, Fb!fbVars
<1> QED BY <1>2, <1>3, <1>4, <1>5, <1>6, <1>7, <1>8, <1>9, <1>10, <1>11

\* Whichever part runs, each of the nine behaves as its own specification says.
THEOREM PartsBehave ==
  PartsSpec => /\ Sound!Spec /\ Icons!Spec /\ Pop!Spec /\ Comp!Spec /\ Spot!Spec
               /\ Sw!Spec /\ Ni!Spec /\ Hy!Spec /\ Fb!Spec
<1>1. PartsInit => /\ Sound!Init /\ Icons!Init /\ Pop!Init /\ Comp!Init /\ Spot!Init
                   /\ Sw!Init /\ Ni!Init /\ Hy!Init /\ Fb!Init
  BY DEF PartsInit
<1>2. [PartsNext]_partsVars => /\ [Sound!Next]_(Sound!audioVars) /\ [Icons!Next]_(Icons!trayVars)
                               /\ [Pop!Next]_(Pop!popupVars) /\ [Comp!Next]_(Comp!compVars) /\ [Spot!Next]_(Spot!spotVars)
                               /\ [Sw!Next]_(Sw!swayVars) /\ [Ni!Next]_(Ni!niriVars)
                               /\ [Hy!Next]_(Hy!hyprVars) /\ [Fb!Next]_(Fb!fbVars)
  BY PartsRun
<1> QED
  BY <1>1, <1>2, PTL DEF PartsSpec, Sound!Spec, Icons!Spec, Pop!Spec, Comp!Spec, Spot!Spec, Sw!Spec, Ni!Spec, Hy!Spec, Fb!Spec

\* Every variable of the parts has its type, whatever the constants are.
THEOREM PartsTyped == PartsSpec => []PartsTypeOK
<1>1. PartsInit => part \in Parts
  BY DEF PartsInit
<1>2. part \in Parts /\ [PartsNext]_partsVars => (part \in Parts)'
  BY DEF PartsNext, AudioRuns, TrayRuns, SwayRuns, NiriRuns, HyprlandRuns, FallbackRuns, PopupsRun, ComponentsRun,
         SpotlightRuns, partsVars
<1>3. PartsSpec => [](part \in Parts)
  BY <1>1, <1>2, PTL DEF PartsSpec
<1>4. /\ part \in Parts
      /\ Sound!TypeOK /\ Sound!PanelFresh /\ Sound!PrimaryFollowsSelection /\ Sound!SelectionSurvives
      /\ Icons!TypeOK /\ Icons!PanelFresh /\ Icons!MirrorFollows /\ Icons!AsksForItsOwn
      /\ Pop!TypeOK
      /\ Comp!TypeOK /\ Comp!TimersAreTheClocks /\ Comp!HearsForItsComponents
      /\ Spot!TypeOK /\ Spot!ActsOnWhatIsShown /\ Spot!CacheIsCurrent
      /\ Sw!TypeOK /\ Ni!TypeOK /\ Hy!TypeOK /\ Fb!TypeOK
      => PartsTypeOK
  BY DEF PartsTypeOK
<1> QED BY <1>3, <1>4, PartsBehave, AudioAlways, TrayAlways, PopTypedAlways, ComponentsAlways, SpotlightAlways,
           SwayFollows, NiriFollows, HyprTyped, FbFollows, PTL

\* What audio and the tray copy and show follows what is there, unless word of it is
\* under way, for any number of players, icons, messages and restarts.
THEOREM MirrorsFollowAlways == PartsSpec => []MirrorsFollow
<1>1. /\ Sound!TypeOK /\ Sound!PanelFresh /\ Sound!PrimaryFollowsSelection /\ Sound!SelectionSurvives
      /\ Icons!TypeOK /\ Icons!PanelFresh /\ Icons!MirrorFollows /\ Icons!AsksForItsOwn
      => MirrorsFollow
  BY DEF MirrorsFollow
<1> QED BY <1>1, PartsBehave, AudioAlways, TrayAlways, PTL

\* The clients of the four kinds of compositor implement CompositorView step by step,
\* for any windows, workspaces and outputs and any order of events and answers.
THEOREM ImplementViewAlways == PartsSpec => ImplementView
<1> QED BY PartsBehave, SwayFollows, NiriFollows, NothingStrandedAlways, ImplementsViewAlways, FbFollows, PTL
           DEF ImplementView

\* The surface over the whole screen has something to show, the window menu goes with
\* its window, and timers and sampling are those of the menu that is current.
THEOREM MenusFitAlways == PartsSpec => MenusFit
<1> QED BY PartsBehave, SurfaceHasContentAlways, ResourcesFollowAlways, GoneTargetClosesAlways, PTL DEF MenusFit

\* What the actions menu carries out is what its prompt names, and what the spotlight
\* acts on is what it shows.
THEOREM ActsOnWhatIsShownAlways == PartsSpec => ActsOnWhatIsShown
<1> QED BY PartsBehave, ExecutesWhatItNamedAlways, SpotlightAlways, RunsAsItClosesAlways, ArrowsRevealAlways, PTL
           DEF ActsOnWhatIsShown

\* The components of a panel are those of its file after each reload, and their timers
\* and subscriptions follow them whatever is done to the panel.
THEOREM ComponentsFollowFileAlways == PartsSpec => ComponentsFollowFile
<1> QED BY PartsBehave, ComponentsAlways, ReloadFollowsFileAlways, PTL DEF ComponentsFollowFile
=============================================================================
