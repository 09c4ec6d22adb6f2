--------------------------- MODULE PluginServices ---------------------------
(***************************************************************************)
(* The services of plugins (crates/plugin-host/src/service.rs).            *)
(*                                                                         *)
(* A service runs in a thread of its own; a map from names to running      *)
(* services, behind a lock, says what there is to stop and to talk to.     *)
(* start() looks at the map, waits, and fills it under separate locks; the *)
(* thread takes its entry out when run() has returned.  start() and stop() *)
(* are called by the application's thread and by the threads of services,  *)
(* which hold a reference to the host.                                     *)
(*                                                                         *)
(* Names are independent of one another, so the model is about one.  Left  *)
(* out: built-in services, the inbox, and the pipe that wakes the shell.   *)
(***************************************************************************)
EXTENDS Naturals, FiniteSets

CONSTANTS
  Callers,     \* threads that start and stop the service
  MaxThreads,  \* bound: threads of the service
  MaxStops     \* bound: calls of stop()

ASSUME ServiceAssumption == MaxThreads \in Nat \ {0} /\ MaxStops \in Nat

VARIABLES
  running,  \* the thread the map's entry is about, or None
  started,  \* the number of threads so far
  state,    \* what each thread is doing
  stop,     \* its flag
  exited,   \* its other flag
  pc,       \* where each caller is in start()
  made,     \* the thread a caller is about to spawn
  stops,    \* the number of calls of stop()
  wanted    \* started, and neither stopped nor returned by itself since

entry   == <<running, started>>
threads == <<state, stop, exited>>
calls   == <<pc, made>>
vars    == <<entry, threads, calls, stops, wanted>>

None   == 0
Thread == 1..MaxThreads

Init ==
  /\ running = None /\ started = 0
  /\ state = [t \in Thread |-> "none"]
  /\ stop = [t \in Thread |-> FALSE]
  /\ exited = [t \in Thread |-> FALSE]
  /\ pc = [c \in Callers |-> "idle"]
  /\ made = [c \in Callers |-> None]
  /\ stops = 0
  /\ wanted = FALSE

----------------------------------------------------------------------------
(***************************************************************************)
(* start()                                                                 *)
(***************************************************************************)
Goto(c, where) == pc' = [pc EXCEPT ![c] = where]

\* The calls that may still make a thread.
Pending == {c \in Callers : pc[c] \in {"awaiting", "creating"}}

\* is_running(): whoever finds an entry is done.
Start(c) ==
  /\ pc[c] = "idle"
  /\ started + Cardinality(Pending) < MaxThreads
  /\ IF running = None
       THEN Goto(c, "awaiting") /\ UNCHANGED wanted
       ELSE wanted' = TRUE /\ UNCHANGED pc
  /\ UNCHANGED <<entry, threads, made, stops>>

\* There is no entry, or one that is about a thread that has exited.
NoneLeft == IF running = None THEN TRUE ELSE exited[running]

\* The 500 ms of await_exit() are over, and start() fails.
Deadline(c) ==
  /\ pc[c] = "awaiting"
  /\ ~NoneLeft
  /\ Goto(c, "idle")
  /\ UNCHANGED <<entry, threads, made, stops, wanted>>

\* await_exit() returns true, and the factory runs.
AwaitExit(c) ==
  /\ pc[c] = "awaiting"
  /\ NoneLeft
  /\ Goto(c, "creating")
  /\ UNCHANGED <<entry, threads, made, stops, wanted>>

\* The new thread's flags and its entry, which replaces any other.
Insert(c) ==
  /\ pc[c] = "creating"
  /\ started' = started + 1
  /\ running' = started'
  /\ state' = [state EXCEPT ![started'] = "unspawned"]
  /\ made' = [made EXCEPT ![c] = started']
  /\ Goto(c, "spawning")
  /\ UNCHANGED <<stop, exited, stops, wanted>>

\* Mutant: whatever entry there is goes.
WrongRemoved(t) == None

\* The entry is taken out by the thread it is about only.
Removed(t) == IF running = t THEN None ELSE running

Spawn(c) ==
  /\ pc[c] = "spawning"
  /\ state' = [state EXCEPT ![made[c]] = "running"]
  /\ wanted' = ~stop[made[c]]
  /\ Goto(c, "idle")
  /\ UNCHANGED <<entry, stop, exited, made, stops>>

\* Mutant: the entry of a thread that never ran stays.
WrongSpawnFails(c) ==
  /\ pc[c] = "spawning"
  /\ state' = [state EXCEPT ![made[c]] = "failed"]
  /\ Goto(c, "idle")
  /\ UNCHANGED <<entry, stop, exited, made, stops, wanted>>

SpawnFails(c) ==
  /\ pc[c] = "spawning"
  /\ state' = [state EXCEPT ![made[c]] = "failed"]
  /\ running' = Removed(made[c])
  /\ Goto(c, "idle")
  /\ UNCHANGED <<started, stop, exited, made, stops, wanted>>

----------------------------------------------------------------------------
(***************************************************************************)
(* stop(), which a caller calls outside of start()                         *)
(***************************************************************************)
Stop(c) ==
  /\ pc[c] = "idle" /\ running # None
  /\ stops < MaxStops /\ stops' = stops + 1
  /\ stop' = [stop EXCEPT ![running] = TRUE]
  /\ wanted' = FALSE
  /\ UNCHANGED <<entry, state, exited, calls>>

----------------------------------------------------------------------------
(***************************************************************************)
(* The thread                                                              *)
(***************************************************************************)
\* run() sees stopping(), or returns by itself.
Return(t) ==
  /\ state[t] = "running"
  /\ state' = [state EXCEPT ![t] = "returned"]
  /\ wanted' = (wanted /\ (stop[t] \/ running # t))
  /\ UNCHANGED <<entry, stop, exited, calls, stops>>

\* Mutant: nothing is left to do without an entry.
WrongDeregister(t) ==
  /\ state[t] = "returned" /\ running = t
  /\ running' = None
  /\ state' = [state EXCEPT ![t] = "deregistered"]
  /\ UNCHANGED <<started, stop, exited, calls, stops, wanted>>

\* The entry goes if it is this thread's.
Deregister(t) ==
  /\ state[t] = "returned"
  /\ running' = Removed(t)
  /\ state' = [state EXCEPT ![t] = "deregistered"]
  /\ UNCHANGED <<started, stop, exited, calls, stops, wanted>>

Exit(t) ==
  /\ state[t] = "deregistered"
  /\ exited' = [exited EXCEPT ![t] = TRUE]
  /\ state' = [state EXCEPT ![t] = "exited"]
  /\ UNCHANGED <<entry, stop, calls, stops, wanted>>

----------------------------------------------------------------------------
InStart(c) == Deadline(c) \/ AwaitExit(c) \/ Insert(c) \/ Spawn(c) \/ SpawnFails(c)

Ending(t) == (stop[t] /\ Return(t)) \/ Deregister(t) \/ Exit(t)

Next ==
  \/ \E c \in Callers : Start(c) \/ InStart(c) \/ Stop(c)
  \/ \E t \in Thread : Return(t) \/ Deregister(t) \/ Exit(t)

Spec == Init /\ [][Next]_vars

\* A call of start() runs on, and a service that is told to stop returns.
FairSpec ==
  /\ Spec
  /\ \A c \in Callers : WF_vars(InStart(c))
  /\ \A t \in Thread : WF_vars(Ending(t))

----------------------------------------------------------------------------
State == {"none", "unspawned", "running", "returned", "deregistered", "exited", "failed"}
Where == {"idle", "awaiting", "creating", "spawning"}

\* Every variable has its type, and an entry of the map is about a thread that
\* will still take it out: no path through start() or a thread leaves it behind.
TypeOK ==
  /\ running \in 0..started /\ started \in 0..MaxThreads
  /\ state \in [Thread -> State]
  /\ stop \in [Thread -> BOOLEAN] /\ exited \in [Thread -> BOOLEAN]
  /\ pc \in [Callers -> Where] /\ made \in [Callers -> 0..MaxThreads]
  /\ stops \in 0..MaxStops /\ wanted \in BOOLEAN
  /\ running # None => state[running] \in {"unspawned", "running", "returned"}

\* "returns whether it is running" (docs/content/plugins/host.md:155): a service
\* that start() says runs, and that nobody has stopped since, stays.
StartMeansRunning == wanted => running # None

\* An entry goes when its own thread is done, and not with another thread that was
\* replaced under the same name and ends late.
EntryGoesWithItsThread ==
  [][running # None /\ running' # running =>
       running' > running \/ state'[running] \in {"deregistered", "failed"}]_vars

\* A service that was told to stop ends, also when another has taken its name.
\* (No thread is told twice, and none comes back: once none is ending, all that
\* were told have ended.)
Stopping == \E t \in Thread : stop[t] /\ state[t] \notin {"exited", "failed"}
StoppedServicesEnd == Stopping ~> ~Stopping

\* A call of start() returns, whatever the other threads do.
StartReturns == \A c \in Callers : pc[c] # "idle" ~> pc[c] = "idle"

\* Stopping and starting come to an end, whatever the two threads make of them.
StopsAndStartsEnd == StoppedServicesEnd /\ StartReturns
=============================================================================
