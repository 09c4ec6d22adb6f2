--------------------------- MODULE Notifications ---------------------------
(***************************************************************************)
(* The notification daemon (crates/services/src/notifications.rs), the     *)
(* state it shares with the shell (crates/commons/src/notifications.rs)    *)
(* and the shell's commands about it (NotificationsForegroundService in    *)
(* crates/services/src/foreground.rs).                                     *)
(*                                                                         *)
(* The daemon's runtime has one thread: its tasks (the command loop, the   *)
(* D-Bus handlers and one timer per notification) interleave at awaits,    *)
(* that is, while a signal is emitted.  The application's thread pushes    *)
(* notifications of its own at any time.                                   *)
(*                                                                         *)
(* A notification is its id and a serial number that tells the contents of *)
(* two notifications with the same id apart.  The texts of replies being   *)
(* typed (NotificationUi) are left out.  The model starts where the first  *)
(* ensure() has started the service.                                       *)
(***************************************************************************)
EXTENDS Integers, Sequences, FiniteSets, SequencesExt

CONSTANTS
  OldIds,     \* ids that clients remember from an earlier run of the shell
  LocalBase,  \* ids of the shell's own notifications start above this
  Foreground, \* the foreground service "notifications" is active
  MaxPushes,  \* bound: notifications
  MaxAsked,   \* bound: requests of the user and of clients to close or invoke
  MaxFailures \* bound: failed attempts to connect

ASSUME NotificationAssumption ==
  /\ LocalBase \in Nat /\ OldIds \subseteq 1..LocalBase
  /\ Foreground \in BOOLEAN
  /\ MaxPushes \in Nat /\ MaxPushes <= LocalBase
  /\ MaxAsked \in Nat /\ MaxFailures \in Nat

VARIABLES
  dnd, history, popups, unread_count,
  cmds,         \* the command channel
  timers,       \* the tasks that sleep until a popup expires
  service,      \* "connecting" or "up"
  loop,         \* the command loop: what it is about to drop, and to emit
  next_id, next_local,
  pushing,      \* the dnd flag the application's thread has read in push()
  signalled,    \* the notify pipe was written since the shell last looked
  failures, asked,
  \* history
  serial,       \* the number of notifications so far
  looked,       \* the serial number when the list was last looked at
  awaiting      \* ids pushed with a timeout, and not closed since

shared == <<dnd, history, popups, unread_count>>
daemon == <<timers, service, failures, loop>>
ids    == <<next_id, next_local, pushing>>
log    == <<serial, looked, awaiting>>
vars   == <<shared, daemon, ids, log, cmds, signalled, asked>>

Id == 1..(LocalBase + MaxPushes)
IdsIn(s) == {n.id : n \in ToSet(s)}

\* A command; `at` is the notification whose time it is about, if any.
Cmd(op, id, at) == [op |-> op, id |-> id, at |-> at]

\* How many of the first i notifications are not `id`.
Staying(s, id, i) == Cardinality({j \in 1..i : s[j].id # id})

\* retain(|n| n.id != id): the k-th one that stays comes to place k.
Without(s, id) ==
  [k \in 1..Staying(s, id, Len(s)) |->
     s[CHOOSE i \in DOMAIN s : s[i].id # id /\ Staying(s, id, i) = k]]

\* The command loop waits for a command.
AtRecv == [busy |-> FALSE, emit |-> <<>>, drop |-> {}]

Init ==
  /\ dnd = FALSE /\ history = <<>> /\ popups = <<>> /\ unread_count = 0
  /\ cmds = <<>> /\ timers = {}
  /\ service = "connecting" /\ loop = AtRecv
  /\ next_id = 1 /\ next_local = LocalBase + 1
  /\ pushing = "no"
  /\ signalled = FALSE
  /\ failures = 0 /\ asked = 0
  /\ serial = 0 /\ looked = 0 /\ awaiting = {}

----------------------------------------------------------------------------
(***************************************************************************)
(* NotificationState::push()                                               *)
(***************************************************************************)
Counted(quiet) == unread_count + 1

\* Mutant: the card it replaces stays.
WrongReplaced(s, id) == s

\* The sequence without the notification that is being replaced.
Replaced(s, id) == Without(s, id)

\* The locked section, the bump, and the timer's request.
Push(id, quiet, timed) ==
  LET n == [id |-> id, serial |-> serial + 1] IN
  /\ history' = <<n>> \o Replaced(history, id)
  /\ unread_count' = Counted(quiet)
  /\ popups' = IF quiet THEN popups ELSE Append(Replaced(popups, id), n)
  /\ signalled' = TRUE
  /\ cmds' = IF timed THEN Append(cmds, Cmd("ExpireAfter", id, serial + 1)) ELSE cmds
  /\ serial' = serial + 1
  /\ awaiting' = IF timed THEN awaiting \cup {id} ELSE awaiting

FreshId == next_id' = next_id + 1

\* notify() of NotificationServer.  A client replaces what it was given.
Notify(replaces) ==
  /\ service = "up"
  /\ serial < MaxPushes
  /\ IF replaces # 0 THEN UNCHANGED next_id ELSE FreshId
  /\ Push(IF replaces # 0 THEN replaces ELSE next_id, dnd, TRUE)
  /\ UNCHANGED <<dnd, daemon, next_local, pushing, looked, asked>>

Replaceable == OldIds \cup 1..(next_id - 1)

\* notify_local(), and notify() of the plugin host: the first half of push().
ReadDnd ==
  /\ pushing = "no"
  /\ serial < MaxPushes
  /\ pushing' = IF dnd THEN "quiet" ELSE "loud"
  /\ UNCHANGED <<shared, daemon, next_id, next_local, log, cmds, signalled, asked>>

\* Mutant: an id is given out twice.
WrongPushLocal(timed) ==
  /\ pushing # "no"
  /\ serial < MaxPushes
  /\ Push(next_local, pushing = "quiet", timed)
  /\ pushing' = "no"
  /\ UNCHANGED <<dnd, daemon, next_id, next_local, looked, asked>>

\* The second half.  A plugin may ask for no timeout.
PushLocal(timed) ==
  /\ pushing # "no"
  /\ serial < MaxPushes
  /\ Push(next_local, pushing = "quiet", timed)
  /\ next_local' = next_local + 1
  /\ pushing' = "no"
  /\ UNCHANGED <<dnd, daemon, next_id, looked, asked>>

Ask ==
  /\ asked < MaxAsked
  /\ asked' = asked + 1

\* close_notification() of NotificationServer
CloseNotification(id) ==
  /\ service = "up"
  /\ Ask
  /\ cmds' = Append(cmds, Cmd("CloseNotification", id, 0))
  /\ UNCHANGED <<shared, daemon, ids, log, signalled>>

----------------------------------------------------------------------------
(***************************************************************************)
(* The user's commands.  A click on a popup or in the list is an action    *)
(* that goes to the foreground service first and then to the items, where  *)
(* NotificationManager handles it once more.                               *)
(***************************************************************************)
Click(byService, byItem) ==
  /\ Ask
  /\ cmds' = cmds \o (IF Foreground THEN <<byService>> ELSE <<>>) \o <<byItem>>

Dismiss(id) ==
  /\ Click(Cmd("DismissHistory", id, 0), Cmd("DismissPopup", id, 0))
  /\ UNCHANGED <<shared, daemon, ids, log, signalled>>

\* notifications.invoke and notifications.reply
Invoke(id) ==
  /\ Click(Cmd("InvokeAction", id, 0), Cmd("InvokeAction", id, 0))
  /\ UNCHANGED <<shared, daemon, ids, log, signalled>>

\* notifications.clear_all and notifications.toggle_dnd, which only the
\* foreground service handles.
Command(op) ==
  /\ Foreground
  /\ Ask
  /\ cmds' = Append(cmds, Cmd(op, 0, 0))
  /\ UNCHANGED <<shared, daemon, ids, log, signalled>>

\* view() of the list in the menu
Look ==
  /\ unread_count' = 0
  /\ looked' = serial
  /\ UNCHANGED <<dnd, history, popups, daemon, ids, serial, awaiting, cmds,
                 signalled, asked>>

----------------------------------------------------------------------------
(***************************************************************************)
(* The daemon                                                              *)
(***************************************************************************)
\* run(): connect to the bus, and wait two seconds when that fails.
Connect ==
  /\ service = "connecting"
  /\ \/ service' = "up" /\ UNCHANGED failures
     \/ failures < MaxFailures /\ failures' = failures + 1 /\ UNCHANGED service
  /\ UNCHANGED <<shared, timers, loop, ids, log, cmds, signalled, asked>>

\* The loop has a command in hand: signals to emit, and popups to drop then.
Busy(signals, dropped) == [busy |-> TRUE, emit |-> signals, drop |-> dropped]

Closed(id) == [signal |-> "NotificationClosed", id |-> id]
Invoked(id) == [signal |-> "ActionInvoked", id |-> id]

AllClosed == [i \in DOMAIN popups |-> Closed(popups[i].id)]
ClosedIfShown(id) == IF id \in IdsIn(popups) THEN <<Closed(id)>> ELSE <<>>

\* Mutant: the popup goes without a word.
WrongDismissPopup(id) ==
  /\ popups' = Without(popups, id)
  /\ loop' = Busy(<<>>, {})
  /\ UNCHANGED <<dnd, history, unread_count, timers>>

\* drop_popup(), and the signal if it dropped anything.
DismissPopup(id) ==
  /\ popups' = Without(popups, id)
  /\ loop' = Busy(ClosedIfShown(id), {})
  /\ UNCHANGED <<dnd, history, unread_count, timers>>

\* Mutant: a dismissed notification no longer counts as unread.
WrongUncounted(id) ==
  /\ history' = Without(history, id)
  /\ popups' = Without(popups, id)
  /\ unread_count' = unread_count - 1
  /\ loop' = Busy(ClosedIfShown(id), {})
  /\ UNCHANGED <<dnd, timers>>

DismissHistory(id) ==
  /\ history' = Without(history, id)
  /\ popups' = Without(popups, id)
  /\ loop' = Busy(ClosedIfShown(id), {})
  /\ UNCHANGED <<dnd, unread_count, timers>>

ClearAll ==
  /\ history' = <<>> /\ popups' = <<>> /\ unread_count' = 0
  /\ loop' = Busy(AllClosed, {})
  /\ UNCHANGED <<dnd, timers>>

ToggleDnd ==
  /\ dnd' = ~dnd
  /\ popups' = IF dnd THEN popups ELSE <<>>
  /\ loop' = Busy(IF dnd THEN <<>> ELSE AllClosed, {})
  /\ UNCHANGED <<history, unread_count, timers>>

\* ActionInvoked is emitted before the popup is dropped.
InvokeAction(id) ==
  /\ loop' = Busy(<<Invoked(id)>>, {id})
  /\ UNCHANGED <<shared, timers>>

\* Mutant: no task for a popup that is not there.
WrongExpireAfter(id, at) ==
  /\ timers' = IF id \in IdsIn(popups) THEN timers \cup {[id |-> id, at |-> at]} ELSE timers
  /\ loop' = Busy(<<>>, {})
  /\ UNCHANGED shared

\* Each request gets a task that sleeps.
ExpireAfter(id, at) ==
  /\ timers' = timers \cup {[id |-> id, at |-> at]}
  /\ loop' = Busy(<<>>, {})
  /\ UNCHANGED shared

\* Mutant: only a popup that is there is announced.
WrongExpire(id) ==
  /\ popups' = Without(popups, id)
  /\ loop' = Busy(ClosedIfShown(id), {})
  /\ UNCHANGED <<dnd, history, unread_count, timers>>

\* ExpirePopup and CloseNotification: closed, whether or not it was shown.
Expire(id) ==
  /\ popups' = Without(popups, id)
  /\ loop' = Busy(<<Closed(id)>>, {})
  /\ UNCHANGED <<dnd, history, unread_count, timers>>

\* notif_loop(): the next command, up to its first await.
Receive ==
  /\ service = "up"
  /\ ~loop.busy
  /\ cmds # <<>>
  /\ LET cmd == Head(cmds) IN
       \/ cmd.op = "DismissPopup"   /\ DismissPopup(cmd.id)
       \/ cmd.op = "DismissHistory" /\ DismissHistory(cmd.id)
       \/ cmd.op = "ClearAll"       /\ ClearAll
       \/ cmd.op = "ToggleDnd"      /\ ToggleDnd
       \/ cmd.op = "InvokeAction"   /\ InvokeAction(cmd.id)
       \/ cmd.op = "ExpireAfter"    /\ ExpireAfter(cmd.id, cmd.at)
       \/ cmd.op \in {"ExpirePopup", "CloseNotification"} /\ Expire(cmd.id)
  /\ cmds' = Tail(cmds)
  /\ UNCHANGED <<service, failures, ids, log, signalled, asked>>

\* One emit_signal().await
Emit ==
  /\ loop.emit # <<>>
  /\ loop' = [loop EXCEPT !.emit = Tail(@)]
  /\ awaiting' = {id \in awaiting : Closed(id) # Head(loop.emit)}
  /\ UNCHANGED <<shared, timers, service, failures, ids, serial, looked, cmds,
                 signalled, asked>>

\* The second part of InvokeAction: drop_popup() and its signal.
Drop(id) ==
  /\ loop.emit = <<>> /\ id \in loop.drop
  /\ popups' = Without(popups, id)
  /\ loop' = Busy(<<Closed(id)>>, {})
  /\ UNCHANGED <<dnd, history, unread_count, timers, service, failures, ids, log,
                 cmds, signalled, asked>>

\* The bump at the end of each command.
Bump ==
  /\ loop.busy /\ loop.emit = <<>> /\ loop.drop = {}
  /\ loop' = AtRecv
  /\ signalled' = TRUE
  /\ UNCHANGED <<shared, timers, service, failures, ids, log, cmds, asked>>

\* A sleep ends.
Wake(t) ==
  /\ timers' = timers \ {t}
  /\ cmds' = Append(cmds, Cmd("ExpirePopup", t.id, 0))
  /\ UNCHANGED <<shared, service, failures, loop, ids, log, signalled, asked>>

\* The shell handles the signal and draws what is there now.
Seen ==
  /\ signalled
  /\ signalled' = FALSE
  /\ UNCHANGED <<shared, daemon, ids, log, cmds, asked>>

----------------------------------------------------------------------------
Daemon == Connect \/ Receive \/ Emit \/ (\E id \in Id : Drop(id)) \/ Bump

Sleepers == \E t \in timers : Wake(t)

Client ==
  \/ \E id \in {0} \cup Replaceable : Notify(id)
  \/ \E id \in Replaceable : CloseNotification(id)

Shell ==
  \/ ReadDnd \/ \E timed \in BOOLEAN : PushLocal(timed)
  \/ \E id \in IdsIn(popups \o history) : Dismiss(id) \/ Invoke(id)
  \/ \E op \in {"ClearAll", "ToggleDnd"} : Command(op)
  \/ Look

Next == Daemon \/ Sleepers \/ Client \/ Shell \/ Seen

Spec == Init /\ [][Next]_vars

\* The runtime runs its tasks, and the bus can be reached in the end.  Nothing
\* is assumed of clients and the user.
FairSpec == Spec /\ WF_vars(Daemon) /\ WF_vars(Sleepers)

----------------------------------------------------------------------------
Note   == [id : Id, serial : 1..MaxPushes]
Op     == {"DismissPopup", "DismissHistory", "ClearAll", "ToggleDnd", "InvokeAction",
           "ExpireAfter", "ExpirePopup", "CloseNotification"}
Signal == [signal : {"NotificationClosed", "ActionInvoked"}, id : Id]

\* Every variable has its type.
TypeOK ==
  /\ dnd \in BOOLEAN /\ signalled \in BOOLEAN
  /\ history \in Seq(Note) /\ popups \in Seq(Note)
  /\ unread_count \in 0..MaxPushes
  /\ awaiting \subseteq Id
  /\ cmds \in Seq([op : Op, id : Id \cup {0}, at : 0..MaxPushes])
  /\ timers \subseteq [id : Id, at : 1..MaxPushes]
  /\ service \in {"connecting", "up"} /\ failures \in 0..MaxFailures
  /\ loop \in [busy : BOOLEAN, emit : Seq(Signal), drop : SUBSET Id]
  /\ next_id \in 1..(MaxPushes + 1)
  /\ next_local \in (LocalBase + 1)..(LocalBase + MaxPushes + 1)
  /\ pushing \in {"no", "quiet", "loud"}
  /\ asked \in 0..MaxAsked
  /\ serial \in 0..MaxPushes /\ looked \in 0..serial

\* With dnd on nothing is on the screen, but for what the shell itself was
\* about to push when dnd was turned on.
QuietUnderDnd == dnd => \A id \in IdsIn(popups) : id > LocalBase

\* What is in the history and newer than the last look at it is counted.
NothingUncounted ==
  Cardinality({n \in ToSet(history) : n.serial > looked}) <= unread_count

\* A card on the screen is the newest version of its notification and is in the
\* history as well, once, counted, and not there under dnd: however replacements,
\* dismissals, looks at the list and dnd interleave.
CardsAreCurrent ==
  /\ ToSet(popups) \subseteq ToSet(history)
  /\ \A s \in {history, popups} : \A i, j \in DOMAIN s : s[i].id = s[j].id => i = j
  /\ QuietUnderDnd /\ NothingUncounted

\* A notification with a timeout is always on its way to being closed: a request,
\* a sleeping task, a command or a signal about it exists until it is announced.
TimeoutIsPending ==
  \A id \in awaiting :
    \/ \E cmd \in ToSet(cmds) : cmd.id = id /\ cmd.op \in {"ExpireAfter", "ExpirePopup"}
    \/ \E t \in timers : t.id = id
    \/ Closed(id) \in ToSet(loop.emit)

\* Nobody replaces a notification by accident: the ids that the daemon and the
\* shell give out next are not those of a card on the screen or in the list, but
\* for those that a client remembers from before a restart.
FreshIdsAreFree == {next_id, next_local} \cap IdsIn(history \o popups) \subseteq OldIds

\* Every popup that goes, by whatever way, is announced to its client.
LeavingIsAnnounced ==
  [][\A id \in IdsIn(popups) \ IdsIn(popups') : Closed(id) \in ToSet(loop'.emit)]_vars

\* A client that waits for its notification to close is told in the end, also
\* when dnd hid it or it was dismissed before; and a popup with a timeout leaves
\* the screen.
EveryNotificationCloses ==
  \A id \in Id :
    /\ id \in awaiting ~> id \notin awaiting
    /\ id \in awaiting \cap IdsIn(popups) ~> id \notin IdsIn(popups)
=============================================================================
