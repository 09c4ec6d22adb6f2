------------------------- MODULE NotificationPopups -------------------------
(***************************************************************************)
(* The pop-ups of the notifications (crates/notifications/src/lib.rs).     *)
(*                                                                         *)
(* The daemon (Notifications) keeps the cards that pop up; this item shows *)
(* them in a window of its own, which opens with the first and closes with *)
(* the last.  The last ones slide out: the animation, in the window, says  *)
(* when it is over, and that message hides the window.                     *)
(***************************************************************************)
EXTENDS Integers, Sequences, FiniteSets, SequencesExt, FiniteSetsExt

CONSTANTS
  Block,           \* the configuration's notifications { }: "absent", "enabled" or "disabled"
  MaxVisible,      \* cards that are shown at once
  MaxCards,        \* bound: cards that arrive
  MaxCardEvents    \* bound: cards that arrive and leave, replies, monitors lost

VARIABLES
  cards,           \* the daemon's popups, the oldest first
  cards_next,
  cards_wake,      \* has the pipe been written?
  cards_queue,     \* messages to the application: "changed", "closed"
  last_count, closing, last_items,
  cards_item,      \* the desktop item: [window |-> is one open?, entry |-> does reverse_windows have it?]
  cards_drawn,     \* what the window shows: [closing, items], and whether the animation announced its end
  announced,
  cards_dirty,
  replies,         \* cards for which a reply has been typed
  crossed,         \* was the window hidden, or lost, with cards to show?
  cards_count

cardVars == <<cards, cards_next, cards_wake, cards_queue, last_count, closing, last_items, cards_item,
              cards_drawn, announced, cards_dirty, replies, crossed, cards_count>>
daemonVars == <<cards, cards_next, cards_wake>>
itemVars == <<last_count, closing, last_items, cards_item, crossed>>
drawnVars == <<cards_drawn, announced, cards_dirty>>

Counted == cards_count < MaxCardEvents /\ cards_count' = cards_count + 1
Take(s) == SubSeq(s, 1, Min({Len(s), MaxVisible}))
Nothing == [closing |-> FALSE, items |-> <<>>]

\* Without the block the daemon runs, and this item does not.
DaemonRuns == Block # "disabled"
Registered == Block = "enabled"

----------------------------------------------------------------------------
(* The daemon.                                                              *)

Changed(now) ==
  /\ Counted /\ cards' = now /\ cards_wake' = TRUE
  /\ UNCHANGED <<cards_queue, itemVars, drawnVars, replies>>
Arrive ==
  /\ DaemonRuns /\ cards_next <= MaxCards /\ cards_next' = cards_next + 1
  /\ Changed(Append(cards, cards_next))
\* It expires, or is closed by its application.
Leave == \E i \in DOMAIN cards : Changed(RemoveAt(cards, i)) /\ UNCHANGED cards_next

\* Mutant: word is dropped while the item has not taken the one before.
WrongReport ==
  /\ cards_wake /\ cards_wake' = FALSE
  /\ cards_queue' = IF cards_queue = <<>> THEN <<"changed">> ELSE cards_queue
  /\ UNCHANGED <<cards, cards_next, itemVars, drawnVars, replies, cards_count>>

\* Some component drains the pipe.
Report ==
  /\ cards_wake /\ cards_wake' = FALSE /\ cards_queue' = Append(cards_queue, "changed")
  /\ UNCHANGED <<cards, cards_next, itemVars, drawnVars, replies, cards_count>>

----------------------------------------------------------------------------
(* The item.                                                                *)

\* An item that still has its entry is taken for one that has windows.
Show == cards_item' = IF cards_item.entry THEN cards_item ELSE [window |-> TRUE, entry |-> TRUE]
Hide == cards_item' = [window |-> FALSE, entry |-> FALSE]

OnChanged ==
  LET n == Len(Take(cards))
  IN  /\ last_count' = n
      /\ last_items' = IF n > 0 THEN Take(cards) ELSE last_items
      /\ closing' = (n = 0 /\ (closing \/ last_count > 0))
      /\ IF n > 0 /\ last_count = 0 THEN Show ELSE UNCHANGED cards_item
      /\ crossed' = (n > 0 /\ (crossed \/ (last_count = 0 /\ cards_item.entry /\ ~cards_item.window)))
Closed ==
  /\ closing' = FALSE /\ last_items' = <<>> /\ Hide
  /\ crossed' = (crossed \/ last_count > 0) /\ UNCHANGED last_count

\* A window that has gone draws nothing; one that opens draws everything anew.
Redrawn ==
  /\ cards_dirty' = TRUE
  /\ IF cards_item.window /\ cards_item'.window THEN UNCHANGED <<cards_drawn, announced>>
     ELSE cards_drawn' = Nothing /\ announced' = FALSE
Update ==
  /\ cards_queue # <<>> /\ cards_queue' = Tail(cards_queue)
  /\ IF Registered
     THEN /\ IF Head(cards_queue) = "changed" THEN OnChanged ELSE Closed
          /\ Redrawn
     ELSE UNCHANGED <<itemVars, drawnVars>>
  /\ UNCHANGED <<daemonVars, replies, cards_count>>
MonitorLost ==
  /\ cards_item.window /\ Counted /\ cards_item' = [cards_item EXCEPT !.window = FALSE]
  /\ crossed' = (last_count > 0 \/ crossed) /\ Redrawn
  /\ UNCHANGED <<daemonVars, cards_queue, last_count, closing, last_items, replies>>

View == [closing |-> closing, items |-> IF closing THEN last_items ELSE Take(cards)]
Draw ==
  /\ cards_item.window /\ cards_dirty /\ cards_dirty' = FALSE
  /\ cards_drawn' = View /\ announced' = (announced /\ closing)
  /\ UNCHANGED <<daemonVars, cards_queue, itemVars, replies, cards_count>>
\* The animation is over, in the window as it was drawn last.
SlideEnds ==
  /\ cards_item.window /\ cards_drawn.closing /\ ~announced
  /\ announced' = TRUE /\ cards_queue' = Append(cards_queue, "closed")
  /\ UNCHANGED <<daemonVars, itemVars, cards_drawn, cards_dirty, replies, cards_count>>

----------------------------------------------------------------------------
(* Clicks, on cards as they were drawn.                                     *)

SetReply == \E n \in ToSet(cards_drawn.items) :
  /\ Counted /\ replies' = replies \cup {n} /\ cards_dirty' = TRUE
  /\ UNCHANGED <<daemonVars, cards_queue, itemVars, cards_drawn, announced>>

\* The foreground service forgets what was typed, ...
ForgetReply(n) == replies' = replies \ {n}
\* ... and the item, which hears the same action, has the card dropped.
Answer(n) ==
  /\ cards_wake' = TRUE
  /\ \/ n \notin ToSet(cards) /\ cards' = cards
     \/ \E i \in DOMAIN cards : cards[i] = n /\ cards' = RemoveAt(cards, i)

\* Dismissed, acted upon or replied to.
Click(n) ==
  /\ Counted /\ ForgetReply(n) /\ Answer(n) /\ cards_dirty' = TRUE
  /\ UNCHANGED <<cards_next, cards_queue, itemVars, cards_drawn, announced>>
ClickCard == \E n \in ToSet(cards_drawn.items) : Click(n)
\* In the menu, which lists those that have gone too.
ClickListed == \E n \in 1..(cards_next - 1) : Click(n)

Init ==
  /\ cards = <<>> /\ cards_next = 1 /\ cards_wake = FALSE /\ cards_queue = <<>>
  /\ last_count = 0 /\ closing = FALSE /\ last_items = <<>> /\ cards_item = [window |-> FALSE, entry |-> FALSE]
  /\ cards_drawn = Nothing /\ announced = FALSE /\ cards_dirty = FALSE /\ replies = {} /\ crossed = FALSE /\ cards_count = 0

Shell == Report \/ Update \/ Draw
Next == Arrive \/ Leave \/ Shell \/ MonitorLost \/ SlideEnds \/ SetReply \/ ClickCard \/ ClickListed
Fairness == WF_cardVars(Shell) /\ WF_cardVars(SlideEnds)
Spec == Init /\ [][Next]_cardVars /\ Fairness

----------------------------------------------------------------------------
TypeOK ==
  /\ ToSet(cards) \cup ToSet(last_items) \cup ToSet(cards_drawn.items) \cup replies \subseteq 1..MaxCards
  /\ ToSet(cards_queue) \subseteq {"changed", "closed"} /\ last_count \in 0..MaxVisible
  /\ cards_item.window => cards_item.entry

Heard == ~cards_wake /\ cards_queue = <<>>

\* Once every word of them has been heard, cards that are there have a window,
\* unless the end of an animation, or a monitor that went, took it from them.
CardsHaveWindow == Heard /\ Registered /\ cards # <<>> => (cards_item.window \/ crossed)
=============================================================================
