----------------------------- MODULE EventLoop -----------------------------
(***************************************************************************)
(* The epoll loop (crates/slowshell/src/eloop.rs), its bookkeeping of file *)
(* descriptors (Listeners in crates/core/src/listeners.rs) and the handle  *)
(* through which the application asks it to watch and to drop descriptors  *)
(* (FdHandle, same file).                                                  *)
(*                                                                         *)
(* Two threads share only a channel of commands with a wake pipe, and the  *)
(* process's table of descriptors.  Descriptors are numbers, and the       *)
(* kernel gives a closed number out again; so the model has Fd, the        *)
(* numbers, and Res, the timers and pipes that live behind them.           *)
(*                                                                         *)
(* A resource is created at most once.  Timers expire, pipes are written   *)
(* and closed by their writers, whenever they like.                        *)
(***************************************************************************)
EXTENDS Integers, Sequences, FiniteSets, Functions

CONSTANTS
  Fd,          \* descriptor numbers
  Res,         \* the resources that will be created
  KindOf,      \* [Res -> Kind]
  Forgetful,   \* resources whose client stops them even when they are gone
  MayHangUp,   \* pipes whose writer may go away
  None,        \* no resource, no descriptor
  MaxEvents,   \* the size of the buffer given to epoll_wait (16)
  ExtraPolls,  \* how often the loop polls again before it sends (4)
  MaxExpiries, \* bound: how often a timer expires
  MaxInbox     \* bound: messages the application has not handled

\* A one-shot timer, a repeating timer, an edge-triggered notification pipe,
\* and a level-triggered descriptor of a plugin.
Kind == {"oneshot", "interval", "signal", "watch"}

ASSUME ResAssumption ==
  /\ None \notin Res \cup Fd
  /\ Fd \subseteq Nat \ {0, 1}
  /\ KindOf \in [Res -> Kind]
  /\ Forgetful \cup MayHangUp \subseteq Res
ASSUME BoundAssumption ==
  MaxEvents \in Nat \ {0} /\ ExtraPolls \in Nat /\ MaxExpiries \in Nat /\ MaxInbox \in Nat

Timer == {r \in Res : KindOf[r] \in {"oneshot", "interval"}}
Pipe  == Res \ Timer

VARIABLES
  \* the kernel
  file,      \* what is behind each descriptor number
  readable,  \* resources with something to read
  hungup,    \* pipes whose writer is gone
  edges,     \* edge-triggered pipes with an edge not yet reported
  interest,  \* the descriptors in the epoll set
  wake,      \* there are bytes in the wake pipe
  tick_due,  \* the loop's own interval timer has expired
  \* the application
  app,       \* "run", or "wake" between sending a command and waking the loop
  created,   \* the resources created so far
  held,      \* the descriptor number a client remembers for its resource
  inbox,     \* messages to the application
  commands,  \* the FdCommand channel
  \* the loop
  pc, events, hups, polls, batch, tick,
  actions,   \* Listeners: the action of a descriptor, here its resource
  owned,     \* Listeners: descriptors whose file the loop owns
  unwatched_fds, watched_fds, removed_fds,
  oneshot_fds,
  \* history
  expired, ticked,  \* how often each timer expired, and was put in a batch
  unseen            \* pipes written since their subscriber last handled an action

kernel    == <<file, readable, hungup, edges, interest, wake, tick_due>>
client    == <<app, created, held, inbox>>
listeners == <<actions, owned, unwatched_fds, watched_fds, removed_fds, oneshot_fds>>
locals    == <<pc, events, hups, polls, batch, tick>>
history   == <<expired, ticked, unseen>>
vars == <<kernel, client, commands, listeners, locals, history>>

\* The event data of the loop's own descriptors.  The others use their number
\* plus 100; here they use the number, which is never one of these two.
TICK == 0
WAKE == 1

Open(f) == file[f] # None

\* Only a notification pipe is edge-triggered (EPOLLET).
Edge(r) == IF KindOf[r] = "signal" THEN {r} ELSE {}

Init ==
  /\ file = [f \in Fd |-> None]
  /\ readable = {} /\ hungup = {} /\ edges = {} /\ interest = {}
  /\ wake = FALSE /\ tick_due = FALSE
  /\ app = "run" /\ created = {} /\ held = [r \in Res |-> None] /\ inbox = <<>>
  /\ commands = <<>>
  /\ pc = "top" /\ events = {} /\ hups = {} /\ polls = 0 /\ batch = <<>> /\ tick = FALSE
  /\ actions = [f \in Fd |-> None]
  /\ owned = {} /\ unwatched_fds = {} /\ watched_fds = {} /\ removed_fds = {}
  /\ oneshot_fds = {}
  /\ expired = [r \in Res |-> 0] /\ ticked = [r \in Res |-> 0] /\ unseen = {}

----------------------------------------------------------------------------
(***************************************************************************)
(* The world outside: timers run, writers write and hang up.               *)
(***************************************************************************)
Expire(r) ==
  /\ r \in Timer \cap Range(file)
  /\ expired[r] < (IF KindOf[r] = "oneshot" THEN 1 ELSE MaxExpiries)
  /\ readable' = readable \cup {r}
  /\ expired' = [expired EXCEPT ![r] = @ + 1]
  /\ UNCHANGED <<file, hungup, edges, interest, wake, tick_due, client, commands,
                 listeners, locals, ticked, unseen>>

ExpireTick ==
  /\ tick_due' = TRUE
  /\ UNCHANGED <<file, readable, hungup, edges, interest, wake, client, commands,
                 listeners, locals, history>>

Write(r) ==
  /\ r \in (Pipe \cap Range(file)) \ hungup
  /\ readable' = readable \cup {r}
  /\ edges' = edges \cup Edge(r)
  /\ unseen' = unseen \cup {r}
  /\ UNCHANGED <<file, hungup, interest, wake, tick_due, client, commands,
                 listeners, locals, expired, ticked>>

HangUp(r) ==
  /\ r \in MayHangUp \cap Pipe \cap Range(file)
  /\ hungup' = hungup \cup {r}
  /\ edges' = edges \cup Edge(r)
  /\ UNCHANGED <<file, readable, interest, wake, tick_due, client, commands,
                 listeners, locals, history>>

----------------------------------------------------------------------------
(***************************************************************************)
(* The application's side: FdHandle, and the handling of what arrives.     *)
(***************************************************************************)
\* watch(), signal_pipe(), set_timer() and set_interval(): open a resource
\* and hand it over with a Register command.
Create(r, f) ==
  /\ app = "run"
  /\ r \notin created
  /\ ~Open(f)
  /\ created' = created \cup {r}
  /\ file' = [file EXCEPT ![f] = r]
  /\ held' = [held EXCEPT ![r] = f]
  /\ commands' = Append(commands, [op |-> "Register", fd |-> f, res |-> r])
  /\ app' = "wake"
  /\ UNCHANGED <<readable, hungup, edges, interest, wake, tick_due, inbox,
                 listeners, locals, history>>

\* The clients that stop what they started: the clocks and monitors their
\* intervals, and a plugin surface every number it was ever given
\* (clear_plugin_calls), fired one-shots and hung-up pipes included.
MayStop(r) == KindOf[r] = "interval" \/ r \in Forgetful

\* stop_timer() and terminate()
Stop(r) ==
  /\ app = "run"
  /\ held[r] # None
  /\ MayStop(r)
  /\ held' = [held EXCEPT ![r] = None]
  /\ commands' = Append(commands, [op |-> "Terminate", fd |-> held[r], res |-> r])
  /\ app' = "wake"
  /\ UNCHANGED <<kernel, created, inbox, listeners, locals, history>>

\* wake(), the second half of every method of FdHandle
Wake ==
  /\ app = "wake"
  /\ wake' = TRUE
  /\ app' = "run"
  /\ UNCHANGED <<file, readable, hungup, edges, interest, tick_due, created, held,
                 inbox, commands, listeners, locals, history>>

\* What the subscribers read: drain_signal_fd() reads the number that came
\* with the action, whatever is behind it by now.
ReadBy(message) ==
  {file[a.fd] : a \in {b \in Range(message) : b.res \in Pipe}}

\* The application handles a message.
HandleMessage ==
  /\ app = "run"
  /\ inbox # <<>>
  /\ inbox' = Tail(inbox)
  /\ readable' = readable \ ReadBy(Head(inbox))
  /\ unseen' = unseen \ {a.res : a \in Range(Head(inbox))}
  /\ UNCHANGED <<file, hungup, edges, interest, wake, tick_due, app, created, held,
                 commands, listeners, locals, expired, ticked>>

----------------------------------------------------------------------------
(***************************************************************************)
(* Listeners                                                               *)
(***************************************************************************)
\* Mutant: the descriptor is not handed to the top of the loop.
WrongTerminateForgets(f) ==
  /\ unwatched_fds' = unwatched_fds \ {f}
  /\ watched_fds' = watched_fds \ {f}
  /\ actions' = [actions EXCEPT ![f] = None]
  /\ oneshot_fds' = oneshot_fds \ {f}
  /\ UNCHANGED <<removed_fds, owned>>

\* Mutant: the action stays behind.
WrongTerminateKeepsAction(f) ==
  /\ unwatched_fds' = unwatched_fds \ {f}
  /\ watched_fds' = watched_fds \ {f}
  /\ removed_fds' = IF f \in watched_fds THEN removed_fds \cup {f} ELSE removed_fds
  /\ oneshot_fds' = oneshot_fds \ {f}
  /\ UNCHANGED <<actions, owned>>

\* Listeners::terminate() after oneshot_fds.remove(): a descriptor that is
\* watched waits in removed_fds for the top of the loop.
Terminate(f) ==
  /\ unwatched_fds' = unwatched_fds \ {f}
  /\ watched_fds' = watched_fds \ {f}
  /\ removed_fds' = IF f \in watched_fds THEN removed_fds \cup {f} ELSE removed_fds
  /\ actions' = [actions EXCEPT ![f] = None]
  /\ oneshot_fds' = oneshot_fds \ {f}
  /\ UNCHANGED owned

\* Mutant: every registration is taken for a one-shot.
WrongRegisterFd(f, r) ==
  /\ owned' = owned \cup {f}
  /\ actions' = [actions EXCEPT ![f] = r]
  /\ unwatched_fds' = IF f \in watched_fds THEN unwatched_fds ELSE unwatched_fds \cup {f}
  /\ oneshot_fds' = oneshot_fds \cup {f}
  /\ UNCHANGED <<watched_fds, removed_fds>>

\* own(), flag() and action(), which calls register_fd()
RegisterFd(f, r) ==
  /\ owned' = owned \cup {f}
  /\ actions' = [actions EXCEPT ![f] = r]
  /\ unwatched_fds' = IF f \in watched_fds THEN unwatched_fds ELSE unwatched_fds \cup {f}
  /\ oneshot_fds' = IF KindOf[r] = "oneshot" THEN oneshot_fds \cup {f} ELSE oneshot_fds
  /\ UNCHANGED <<watched_fds, removed_fds>>

----------------------------------------------------------------------------
(***************************************************************************)
(* The loop                                                                *)
(***************************************************************************)
\* Mutant: what was removed from epoll is not closed.
WrongClosing == {}

\* remove_full() drops, and so closes, what the loop owns.
Closing == removed_fds \cap owned

\* The top of run(): close what was terminated, then watch what is new.
Prepare ==
  /\ pc = "top"
  /\ LET kept == [f \in Fd |-> IF f \in Closing THEN None ELSE file[f]]
         new  == {f \in unwatched_fds : kept[f] # None}
     IN /\ file' = kept
        /\ interest' = (interest \ removed_fds) \cup new
        /\ edges' = (edges \cap Range(kept)) \cup UNION {Edge(kept[f]) : f \in new}
        /\ readable' = readable \cap Range(kept)
        /\ watched_fds' = watched_fds \cup new
  /\ owned' = owned \ removed_fds
  /\ removed_fds' = {}
  /\ unwatched_fds' = {}
  /\ pc' = "wait"
  /\ UNCHANGED <<hungup, wake, tick_due, client, commands, actions, oneshot_fds,
                 events, hups, polls, batch, tick, history>>

\* What epoll would report of a descriptor.
Reportable(f) ==
  /\ file[f] \in readable \cup hungup
  /\ KindOf[file[f]] = "signal" => file[f] \in edges

Ready ==
  {f \in interest : Open(f) /\ Reportable(f)}
    \cup (IF wake THEN {WAKE} ELSE {}) \cup (IF tick_due THEN {TICK} ELSE {})

AtMost(n, m) == IF n < m THEN n ELSE m

\* epoll_wait(): fills the buffer, and takes the reported edges.
Report(reported) ==
  /\ Cardinality(reported) = AtMost(Cardinality(Ready), MaxEvents)
  /\ events' = reported
  /\ hups' = {f \in reported \ {WAKE, TICK} : file[f] \in hungup}
  /\ edges' = edges \ {file[f] : f \in reported \ {WAKE, TICK}}
  /\ UNCHANGED <<file, readable, hungup, interest, wake, tick_due>>

\* The blocking wait.
Wait ==
  /\ pc = "wait"
  /\ Ready # {}
  /\ Len(inbox) < MaxInbox
  /\ \E reported \in SUBSET Ready : Report(reported)
  /\ pc' = "collect"
  /\ UNCHANGED <<client, commands, listeners, polls, batch, tick, history>>

\* collect_events(), data 0
CollectTick ==
  /\ pc = "collect" /\ TICK \in events
  /\ tick_due' = FALSE
  /\ tick' = TRUE
  /\ events' = events \ {TICK}
  /\ UNCHANGED <<file, readable, hungup, edges, interest, wake, client, commands,
                 listeners, pc, hups, polls, batch, history>>

\* collect_events(), data 1: the wake pipe is emptied before the commands are.
CollectWake ==
  /\ pc = "collect" /\ WAKE \in events
  /\ wake' = FALSE
  /\ events' = events \ {WAKE}
  /\ pc' = "drain"
  /\ UNCHANGED <<file, readable, hungup, edges, interest, tick_due, client, commands,
                 listeners, hups, polls, batch, tick, history>>

\* Mutant: one command is taken for a wake-up, and not all there are.
WrongDrainCommand ==
  /\ pc = "drain"
  /\ commands # <<>>
  /\ LET cmd == Head(commands) IN
       IF cmd.op = "Register" THEN RegisterFd(cmd.fd, cmd.res) ELSE Terminate(cmd.fd)
  /\ commands' = Tail(commands)
  /\ pc' = "collect"
  /\ UNCHANGED <<kernel, client, events, hups, polls, batch, tick, history>>

\* drain_commands(), one command per step
DrainCommand ==
  /\ pc = "drain"
  /\ commands # <<>>
  /\ LET cmd == Head(commands) IN
       IF cmd.op = "Register" THEN RegisterFd(cmd.fd, cmd.res) ELSE Terminate(cmd.fd)
  /\ commands' = Tail(commands)
  /\ UNCHANGED <<kernel, client, locals, history>>

DrainEnd ==
  /\ pc = "drain"
  /\ commands = <<>>
  /\ pc' = "collect"
  /\ UNCHANGED <<kernel, client, commands, listeners, events, hups, polls, batch,
                 tick, history>>

\* collect_events(), a hang-up: the descriptor goes, whatever is left to read.
CollectHangUp(f) ==
  /\ pc = "collect" /\ f \in events \cap hups
  /\ Terminate(f)
  /\ events' = events \ {f} /\ hups' = hups \ {f}
  /\ UNCHANGED <<kernel, client, commands, pc, polls, batch, tick, history>>

\* Mutant: the timer is not read.
WrongTimerRead(f) == readable

\* A timer that is watched is read when it fires.
TimerRead(f) == IF file[f] \in Timer THEN readable \ {file[f]} ELSE readable

\* collect_events(), data: the action goes into the batch unless it is there,
\* a timer is read, and a one-shot is terminated.
CollectData(f) ==
  /\ pc = "collect" /\ f \in events \ (hups \cup {WAKE, TICK})
  /\ LET r == actions[f] IN
       IF r = None \/ [fd |-> f, res |-> r] \in Range(batch)
       THEN UNCHANGED <<batch, ticked>>
       ELSE /\ batch' = Append(batch, [fd |-> f, res |-> r])
            /\ ticked' = IF r \in Timer THEN [ticked EXCEPT ![r] = @ + 1] ELSE ticked
  /\ readable' = TimerRead(f)
  /\ IF f \in oneshot_fds THEN Terminate(f) ELSE UNCHANGED listeners
  /\ events' = events \ {f}
  /\ UNCHANGED <<file, hungup, edges, interest, wake, tick_due, client, commands,
                 pc, hups, polls, tick, expired, unseen>>

\* Mutant: one poll too many.
WrongMorePolls == polls <= ExtraPolls

MorePolls == polls < ExtraPolls

\* Mutant: each wait starts a new batch.
WrongPollAgain ==
  /\ pc = "collect" /\ events = {}
  /\ Ready # {}
  /\ MorePolls
  /\ polls' = polls + 1
  /\ batch' = <<>>
  /\ \E reported \in SUBSET Ready : Report(reported)
  /\ UNCHANGED <<client, commands, listeners, pc, tick, history>>

\* The zero-timeout waits that follow, before the batch is sent.
PollAgain ==
  /\ pc = "collect" /\ events = {}
  /\ Ready # {}
  /\ MorePolls
  /\ polls' = polls + 1
  /\ \E reported \in SUBSET Ready : Report(reported)
  /\ UNCHANGED <<client, commands, listeners, pc, batch, tick, history>>

\* Tick and FdBatch go to the application; a Tick is the empty batch here.
Send ==
  /\ pc = "collect" /\ events = {}
  /\ Ready = {} \/ ~MorePolls
  /\ inbox' = inbox \o (IF tick THEN <<<<>>>> ELSE <<>>)
                    \o (IF batch # <<>> THEN <<batch>> ELSE <<>>)
  /\ polls' = 0 /\ batch' = <<>> /\ tick' = FALSE
  /\ pc' = "top"
  /\ UNCHANGED <<kernel, app, created, held, commands, listeners, events, hups, history>>

LoopStep ==
  \/ Prepare \/ Wait \/ CollectTick \/ CollectWake \/ DrainCommand \/ DrainEnd
  \/ \E f \in Fd : CollectHangUp(f) \/ CollectData(f)
  \/ PollAgain \/ Send

Next ==
  \/ \E r \in Res : Expire(r) \/ Write(r) \/ HangUp(r) \/ Stop(r)
  \/ \E r \in Res, f \in Fd : Create(r, f)
  \/ ExpireTick \/ Wake \/ HandleMessage
  \/ LoopStep

Spec == Init /\ [][Next]_vars

\* The threads run; nothing is assumed of timers, writers and clients.
FairSpec == Spec /\ WF_vars(LoopStep) /\ WF_vars(Wake) /\ WF_vars(HandleMessage)
----------------------------------------------------------------------------
Action  == [fd : Fd, res : Res]
Command == [op : {"Register", "Terminate"}, fd : Fd, res : Res]

\* Every variable has its type.
TypeOK ==
  /\ file \in [Fd -> Res \cup {None}]
  /\ readable \subseteq Res /\ hungup \subseteq Pipe /\ edges \subseteq Pipe
  /\ interest \subseteq Fd
  /\ wake \in BOOLEAN /\ tick_due \in BOOLEAN
  /\ app \in {"run", "wake"}
  /\ created \subseteq Res
  /\ held \in [Res -> Fd \cup {None}]
  /\ inbox \in Seq(Seq(Action))
  /\ commands \in Seq(Command)
  /\ pc \in {"top", "wait", "collect", "drain"}
  /\ events \subseteq Fd \cup {WAKE, TICK} /\ hups \subseteq events \cap Fd
  /\ polls \in 0..ExtraPolls
  /\ batch \in Seq(Action) /\ tick \in BOOLEAN
  /\ actions \in [Fd -> Res \cup {None}]
  /\ owned \cup unwatched_fds \cup watched_fds \cup removed_fds \cup oneshot_fds \subseteq Fd
  /\ unseen \subseteq Pipe
  /\ expired \in [Res -> Nat] /\ ticked \in [Res -> Nat]

\* A command is never left in the channel with the loop asleep: as long as
\* there is one, the wake pipe has a byte, or its sender is about to write it,
\* or the loop is emptying the channel.
NoStrandedCommand == commands # <<>> => wake \/ app = "wake" \/ pc = "drain"

\* The loop's books agree with the kernel: the epoll set is what is watched or
\* waits to be removed, those descriptors are open and owned, and nothing that
\* was terminated is watched again before it is closed.
InterestExact ==
  /\ interest = watched_fds \cup removed_fds
  /\ \A f \in interest : Open(f) /\ f \in owned
  /\ watched_fds \cap removed_fds = {}
  /\ unwatched_fds \cap (watched_fds \cup removed_fds) = {}

\* A descriptor that can still deliver an action delivers that of the resource
\* behind it: a reused number never speaks for its predecessor.
ActionIsForFile == \A f \in Fd : actions[f] # None => file[f] = actions[f]

\* No notification is lost: from the write until the subscriber handles an
\* action for it, either epoll will still report the pipe, or an event, a batch
\* or a message that tells the subscriber is on the way.
NoLostSignal ==
  \A f \in watched_fds :
    KindOf[file[f]] = "signal" /\ file[f] \in unseen
    => \/ Reportable(f)
       \/ f \in events
       \/ [fd |-> f, res |-> file[f]] \in Range(batch) \cup UNION {Range(m) : m \in Range(inbox)}

\* A timer never ticks more often than it expired, and a one-shot once.
NoPhantomTicks == \A r \in Timer : ticked[r] <= expired[r]

\* A Terminate still in the channel names its sender's own descriptor, not a
\* number the kernel has meanwhile given to somebody else.
StopHitsItsTarget ==
  \A i \in DOMAIN commands :
    commands[i].op = "Terminate" => file[commands[i].fd] = commands[i].res

\* docs/content/plugins/host.md:222: an interval is "repeating".  As long as its
\* client has not stopped it, it is open, and watched or about to be.
RepeatingKeepsTicking ==
  \A r \in Res :
    KindOf[r] = "interval" /\ held[r] # None
    => /\ file[held[r]] = r
       /\ \/ actions[held[r]] = r /\ held[r] \in watched_fds \cup unwatched_fds
          \/ [op |-> "Register", fd |-> held[r], res |-> r] \in Range(commands)

\* docs/content/plugins/host.md:224: for a descriptor a plugin registers, "ready
\* fds arrive as Event::Fd".  So as long as the plugin has not dropped it, it is
\* not closed before the plugin has been told of the last write.
ReadyFdsArrive ==
  \A r \in unseen : KindOf[r] = "watch" /\ held[r] # None => file[held[r]] = r

\* What is written to a notification pipe reaches its subscriber in the end.
SignalsArrive ==
  \A r \in Res : KindOf[r] = "signal" => (r \in unseen ~> r \notin unseen)

\* A descriptor that was watched and is terminated gets closed.
TerminatedIsClosed ==
  \A f \in Fd, r \in Res : (f \in removed_fds /\ file[f] = r) ~> file[f] # r

\* Clients that stop only what is theirs keep it: an interval goes on, and a stop
\* that is on its way will not hit another's descriptor.
ClientsKeepTheirs == RepeatingKeepsTicking /\ StopHitsItsTarget

\* What is written arrives, and what is terminated is closed.
DeliversAndCloses == SignalsArrive /\ TerminatedIsClosed
=============================================================================
