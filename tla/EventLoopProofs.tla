-------------------------- MODULE EventLoopProofs --------------------------
(***************************************************************************)
(* What EventLoop promises for any number of descriptors and resources,    *)
(* any buffer size and any number of polls.                                *)
(***************************************************************************)
EXTENDS EventLoop, TLAPS

\* A Register command in the channel names an open descriptor that nobody has
\* been told of yet, and no two of them name the same one.
PendingRegister(i) == i \in DOMAIN commands /\ commands[i].op = "Register"

PendingExact ==
  /\ \A i \in DOMAIN commands : PendingRegister(i) =>
       /\ file[commands[i].fd] = commands[i].res
       /\ commands[i].fd \notin interest \cup unwatched_fds
  /\ \A i, j \in DOMAIN commands :
       PendingRegister(i) /\ PendingRegister(j) /\ commands[i].fd = commands[j].fd => i = j

\* What waits to be watched is open, and what waits to be closed is silent.
Waiting ==
  /\ \A f \in unwatched_fds : Open(f) /\ f \in owned
  /\ \A f \in removed_fds : actions[f] = None

\* The inductive invariant.
Books == TypeOK /\ InterestExact /\ ActionIsForFile /\ PendingExact /\ Waiting

----------------------------------------------------------------------------
(***************************************************************************)
(* Types                                                                   *)
(***************************************************************************)
\* The types of the initial state.
LEMMA InitTypeOK == Init => TypeOK
<1> SUFFICES ASSUME Init PROVE TypeOK
  OBVIOUS
<1>1. inbox \in Seq(Seq(Action)) /\ batch \in Seq(Action)
  BY DEF Init
<1>2. commands \in Seq(Command)
  BY DEF Init
<1>3. polls \in 0..ExtraPolls
  BY BoundAssumption DEF Init
<1> QED
  BY <1>1, <1>2, <1>3 DEF Init, TypeOK

\* Terminate() and RegisterFd() keep the types of Listeners.
ListenersTyped ==
  /\ actions \in [Fd -> Res \cup {None}]
  /\ owned \cup unwatched_fds \cup watched_fds \cup removed_fds \cup oneshot_fds \subseteq Fd

LEMMA TerminateTyped ==
  ASSUME ListenersTyped, NEW f \in Fd, Terminate(f)
  PROVE  ListenersTyped'
  BY DEF ListenersTyped, Terminate

LEMMA RegisterTyped ==
  ASSUME ListenersTyped, NEW f \in Fd, NEW r \in Res, RegisterFd(f, r)
  PROVE  ListenersTyped'
  BY DEF ListenersTyped, RegisterFd

\* What epoll reports is a descriptor of the set or one of the loop's own.
LEMMA ReportTyped ==
  ASSUME TypeOK, NEW reported \in SUBSET Ready, Report(reported)
  PROVE  /\ events' \subseteq Fd \cup {WAKE, TICK}
         /\ hups' \subseteq events' \cap Fd
         /\ edges' \subseteq Pipe
  BY DEF TypeOK, Ready, Report

\* Every step keeps the types.
LEMMA NextTypeOK == TypeOK /\ [Next]_vars => TypeOK'
<1> SUFFICES ASSUME TypeOK, [Next]_vars PROVE TypeOK'
  OBVIOUS
<1> USE ResAssumption, BoundAssumption
<1>1. CASE UNCHANGED vars
  BY <1>1 DEF TypeOK, vars, kernel, client, listeners, locals, history
<1>2. ASSUME NEW r \in Res, Expire(r) PROVE TypeOK'
  BY <1>2 DEF Expire, TypeOK, client, listeners, locals
<1>3. ASSUME NEW r \in Res, Write(r) PROVE TypeOK'
  BY <1>3 DEF Write, TypeOK, Edge, Pipe, client, listeners, locals
<1>4. ASSUME NEW r \in Res, HangUp(r) PROVE TypeOK'
  BY <1>4 DEF HangUp, TypeOK, Edge, client, listeners, locals, history
<1>5. ASSUME NEW r \in Res, Stop(r) PROVE TypeOK'
  <2>1. [op |-> "Terminate", fd |-> held[r], res |-> r] \in Command
    BY <1>5 DEF Stop, TypeOK, Command
  <2> QED
    BY <1>5, <2>1 DEF Stop, TypeOK, kernel, listeners, locals, history
<1>6. ASSUME NEW r \in Res, NEW f \in Fd, Create(r, f) PROVE TypeOK'
  <2>1. [op |-> "Register", fd |-> f, res |-> r] \in Command
    BY DEF Command
  <2> QED
    BY <1>6, <2>1 DEF Create, TypeOK, listeners, locals, history
<1>7. CASE ExpireTick
  BY <1>7 DEF ExpireTick, TypeOK, client, listeners, locals, history
<1>8. CASE Wake
  BY <1>8 DEF Wake, TypeOK, listeners, locals, history
<1>9. CASE HandleMessage
  BY <1>9 DEF HandleMessage, TypeOK, listeners, locals
<1>10. CASE Prepare
  <2>1. file' \in [Fd -> Res \cup {None}] /\ watched_fds' \subseteq Fd /\ interest' \subseteq Fd
    BY <1>10 DEF Prepare, TypeOK
  <2>2. edges' \subseteq Pipe
    <3> DEFINE kept == [f \in Fd |-> IF f \in Closing THEN None ELSE file[f]]
               new  == {f \in unwatched_fds : kept[f] # None}
    <3>1. edges' = (edges \cap Range(kept)) \cup UNION {Edge(kept[f]) : f \in new}
      BY <1>10 DEF Prepare
    <3>2. ASSUME NEW f \in new PROVE Edge(kept[f]) \subseteq Pipe
      <4>1. kept[f] \in Res
        BY DEF TypeOK
      <4> HIDE DEF kept
      <4> QED
        BY <4>1 DEF Edge, Pipe, Timer
    <3> HIDE DEF kept, new
    <3> QED
      BY <3>1, <3>2 DEF TypeOK
  <2>3. readable' \subseteq Res
    BY <1>10 DEF Prepare, TypeOK
  <2> QED
    BY <1>10, <2>1, <2>2, <2>3 DEF Prepare, TypeOK, client, history
<1>11. CASE Wait
  <2>1. PICK reported \in SUBSET Ready : Report(reported)
    BY <1>11 DEF Wait
  <2> QED
    BY <1>11, <2>1, ReportTyped DEF Wait, Report, TypeOK, client, listeners, history
<1>12. CASE CollectTick
  BY <1>12 DEF CollectTick, TypeOK, TICK, client, listeners, history
<1>13. CASE CollectWake
  BY <1>13 DEF CollectWake, TypeOK, WAKE, client, listeners, history
<1>14. CASE DrainCommand
  <2>1. Head(commands) \in Command
    BY <1>14 DEF DrainCommand, TypeOK
  <2>2. ListenersTyped'
    BY <1>14, <2>1, TerminateTyped, RegisterTyped DEF DrainCommand, TypeOK, ListenersTyped, Command
  <2>3. commands' \in Seq(Command)
    BY <1>14 DEF DrainCommand, TypeOK
  <2> QED
    BY <1>14, <2>2, <2>3 DEF DrainCommand, TypeOK, ListenersTyped, kernel, client, locals, history
<1>15. CASE DrainEnd
  BY <1>15 DEF DrainEnd, TypeOK, kernel, client, listeners, history
<1>16. ASSUME NEW f \in Fd, CollectHangUp(f) PROVE TypeOK'
  <2>1. ListenersTyped'
    BY <1>16, TerminateTyped DEF CollectHangUp, TypeOK, ListenersTyped
  <2> QED
    BY <1>16, <2>1 DEF CollectHangUp, TypeOK, ListenersTyped, kernel, client, history
<1>17. ASSUME NEW f \in Fd, CollectData(f) PROVE TypeOK'
  <2>1. ListenersTyped'
    BY <1>17, TerminateTyped DEF CollectData, TypeOK, ListenersTyped, listeners
  <2>2. batch' \in Seq(Action) /\ ticked' \in [Res -> Nat]
    <3>1. CASE batch' = batch /\ ticked' = ticked
      BY <3>1 DEF TypeOK
    <3>2. CASE ~(batch' = batch /\ ticked' = ticked)
      <4>1. actions[f] \in Res
        BY <1>17, <3>2 DEF CollectData, TypeOK
      <4>2. [fd |-> f, res |-> actions[f]] \in Action
        BY <4>1 DEF Action
      <4>3. /\ batch' = Append(batch, [fd |-> f, res |-> actions[f]])
            /\ ticked' = IF actions[f] \in Timer THEN [ticked EXCEPT ![actions[f]] = @ + 1] ELSE ticked
        BY <1>17, <3>2 DEF CollectData
      <4>4. batch \in Seq(Action) /\ ticked \in [Res -> Nat]
        BY DEF TypeOK
      <4>5. batch' \in Seq(Action)
        BY <4>2, <4>3, <4>4
      <4>6. ticked' \in [Res -> Nat]
        BY <4>1, <4>3, <4>4
      <4> QED
        BY <4>5, <4>6
    <3> QED
      BY <3>1, <3>2
  <2>3. readable' \subseteq Res
    BY <1>17 DEF CollectData, TypeOK, TimerRead
  <2> QED
    BY <1>17, <2>1, <2>2, <2>3 DEF CollectData, TypeOK, ListenersTyped, client
<1>18. CASE PollAgain
  <2>1. PICK reported \in SUBSET Ready : Report(reported)
    BY <1>18 DEF PollAgain
  <2>2. polls' \in 0..ExtraPolls
    BY <1>18 DEF PollAgain, MorePolls, TypeOK
  <2> QED
    BY <1>18, <2>1, <2>2, ReportTyped DEF PollAgain, Report, TypeOK, client, listeners, history
<1>19. CASE Send
  <2>1. inbox' \in Seq(Seq(Action))
    BY <1>19 DEF Send, TypeOK
  <2>2. batch' \in Seq(Action) /\ polls' \in 0..ExtraPolls
    BY <1>19 DEF Send
  <2> QED
    BY <1>19, <2>1, <2>2 DEF Send, TypeOK, kernel, listeners, history
<1> QED
  BY <1>1, <1>2, <1>3, <1>4, <1>5, <1>6, <1>7, <1>8, <1>9, <1>10, <1>11, <1>12,
     <1>13, <1>14, <1>15, <1>16, <1>17, <1>18, <1>19 DEF Next, LoopStep

\* Every variable keeps its type, whatever the timers, writers and clients do.
THEOREM TypeCorrect == Spec => []TypeOK
<1>1. Init => TypeOK
  BY InitTypeOK
<1>2. TypeOK /\ [Next]_vars => TypeOK'
  BY NextTypeOK
<1> QED
  BY <1>1, <1>2, PTL DEF Spec

----------------------------------------------------------------------------
(***************************************************************************)
(* The wake-up protocol                                                    *)
(***************************************************************************)
\* The loop never sleeps on a command: for any interleaving of the sender's
\* two steps (send, wake) with the loop's two (empty the pipe, empty the
\* channel).  The property is inductive as it stands.
THEOREM CommandsAreNeverStranded == Spec => []NoStrandedCommand
<1>1. Init => NoStrandedCommand
  BY DEF Init, NoStrandedCommand
<1>2. NoStrandedCommand /\ [Next]_vars => NoStrandedCommand'
  <2> SUFFICES ASSUME NoStrandedCommand, [Next]_vars PROVE NoStrandedCommand'
    OBVIOUS
  <2> USE DEF NoStrandedCommand
  <2>1. CASE UNCHANGED <<commands, wake, app, pc>>
    BY <2>1
  <2>2. CASE \E r \in Res : Expire(r) \/ Write(r) \/ HangUp(r)
    BY <2>2, <2>1 DEF Expire, Write, HangUp, client, locals
  <2>3. CASE \E r \in Res, f \in Fd : Stop(r) \/ Create(r, f)
    BY <2>3 DEF Stop, Create
  <2>4. CASE ExpireTick \/ Wake \/ HandleMessage
    BY <2>4 DEF ExpireTick, Wake, HandleMessage, client, locals
  <2>5. CASE \E f \in Fd : CollectHangUp(f) \/ CollectData(f)
    BY <2>5, <2>1 DEF CollectHangUp, CollectData, kernel, client
  <2>6. CASE Prepare \/ Send
    BY <2>6 DEF Prepare, Send, client, kernel
  <2>7. CASE Wait \/ PollAgain
    BY <2>7 DEF Wait, PollAgain, Report, client
  <2>8. CASE CollectTick \/ CollectWake \/ DrainCommand \/ DrainEnd
    BY <2>8 DEF CollectTick, CollectWake, DrainCommand, DrainEnd, kernel, client, locals
  <2>9. ASSUME NEW r \in Res, Stop(r) PROVE NoStrandedCommand'
    BY <2>9 DEF Stop
  <2> QED
    BY <2>1, <2>2, <2>3, <2>4, <2>5, <2>6, <2>7, <2>8, <2>9
       DEF Next, LoopStep, vars, kernel, client, locals
<1> QED
  BY <1>1, <1>2, PTL DEF Spec

----------------------------------------------------------------------------
(***************************************************************************)
(* The books of descriptors                                                *)
(***************************************************************************)
Listening == InterestExact /\ ActionIsForFile /\ Waiting

\* What the channel holds, and what it holds after one more command.
LEMMA CommandTyped ==
  ASSUME TypeOK, NEW i \in DOMAIN commands
  PROVE  commands[i].fd \in Fd /\ commands[i].res \in Res
<1>1. commands[i] \in Command
  BY DEF TypeOK
<1> QED
  BY <1>1 DEF Command

LEMMA CommandAppended ==
  ASSUME TypeOK, NEW cmd, commands' = Append(commands, cmd)
  PROVE  /\ \A i \in DOMAIN commands : i \in DOMAIN commands' /\ commands'[i] = commands[i]
         /\ \A i \in DOMAIN commands' : i \in DOMAIN commands \/ i = Len(commands) + 1
         /\ commands'[Len(commands) + 1] = cmd
BY DEF TypeOK

\* Nothing in Books depends on the rest of the state.
LEMMA BooksStutter ==
  ASSUME Books, TypeOK', UNCHANGED <<file, interest, commands, listeners>>
  PROVE  Books'
  BY DEF Books, InterestExact, ActionIsForFile, PendingExact, PendingRegister, Waiting, Open,
         listeners

\* A terminated descriptor is silent and waits in removed_fds, or was not watched.
LEMMA TerminateListening ==
  ASSUME Books, NEW f \in Fd, Terminate(f), UNCHANGED <<file, interest>>
  PROVE  Listening'
  BY DEF Books, TypeOK, Listening, InterestExact, ActionIsForFile, Waiting, Open, Terminate

\* Registering a descriptor that is open, and not in the books yet.
LEMMA RegisterListening ==
  ASSUME Books, NEW f \in Fd, NEW r \in Res, RegisterFd(f, r), UNCHANGED <<file, interest>>,
         file[f] = r, f \notin interest
  PROVE  Listening'
  BY ResAssumption
     DEF Books, TypeOK, Listening, InterestExact, ActionIsForFile, Waiting, Open, RegisterFd

\* Closing what was terminated touches no pending Register, and what it opens
\* up for watching is on the books.
LEMMA PrepareBooks ==
  ASSUME Books, Prepare, TypeOK'
  PROVE  Books'
<1> DEFINE kept == [f \in Fd |-> IF f \in Closing THEN None ELSE file[f]]
           new  == {f \in unwatched_fds : kept[f] # None}
<1>1. /\ file' = kept
      /\ interest' = (interest \ removed_fds) \cup new
      /\ watched_fds' = watched_fds \cup new
      /\ owned' = owned \ removed_fds
      /\ removed_fds' = {} /\ unwatched_fds' = {}
      /\ UNCHANGED <<commands, actions>>
  BY DEF Prepare
<1>2. Closing = removed_fds
  BY DEF Closing, Books, InterestExact
<1>3. new = unwatched_fds
  BY <1>2 DEF Books, InterestExact, Waiting, Open, TypeOK
<1>4. InterestExact'
  BY <1>1, <1>2, <1>3 DEF Books, TypeOK, InterestExact, Waiting, Open
<1>5. ActionIsForFile'
  BY <1>1, <1>2 DEF Books, TypeOK, ActionIsForFile, Waiting
<1>6. PendingExact'
  <2>1. ASSUME NEW i \in DOMAIN commands, PendingRegister(i)
        PROVE  /\ commands[i].fd \in Fd
               /\ commands[i].fd \notin interest \cup unwatched_fds
               /\ file[commands[i].fd] = commands[i].res
    BY <2>1, CommandTyped DEF Books, PendingExact
  <2>2. removed_fds \subseteq interest
    BY DEF Books, InterestExact
  <2> QED
    BY <1>1, <1>2, <1>3, <2>1, <2>2 DEF Books, PendingExact, PendingRegister
<1>7. Waiting'
  BY <1>1 DEF Waiting
<1> QED
  BY <1>4, <1>5, <1>6, <1>7 DEF Books

\* A new resource: the number is free, so it is in no book.
LEMMA CreateBooks ==
  ASSUME Books, NEW r \in Res, NEW f \in Fd, Create(r, f), TypeOK'
  PROVE  Books'
<1>1. f \notin interest \cup unwatched_fds /\ actions[f] = None /\ file[f] = None
  BY ResAssumption DEF Books, TypeOK, InterestExact, Waiting, ActionIsForFile, Create, Open
<1>2. /\ file' = [file EXCEPT ![f] = r]
      /\ commands' = Append(commands, [op |-> "Register", fd |-> f, res |-> r])
      /\ UNCHANGED <<interest, listeners>>
  BY DEF Create
<1>3. InterestExact' /\ ActionIsForFile' /\ Waiting'
  BY <1>1, <1>2, ResAssumption
     DEF Books, TypeOK, InterestExact, ActionIsForFile, Waiting, Open, listeners
<1>4. PendingExact'
  <2> DEFINE cmd == [op |-> "Register", fd |-> f, res |-> r]
             n   == Len(commands) + 1
  <2>1. \A i \in DOMAIN commands : PendingRegister(i) =>
          /\ commands[i].fd \in Fd \ {f}
          /\ file[commands[i].fd] = commands[i].res
          /\ commands[i].fd \notin interest \cup unwatched_fds
    BY <1>1, CommandTyped, ResAssumption DEF Books, PendingExact
  <2>2. \A i : PendingRegister(i)' =>
           \/ PendingRegister(i) /\ commands'[i] = commands[i]
           \/ i = n /\ commands'[i] = cmd
    BY <1>2, CommandAppended DEF Books, PendingRegister
  <2>3. file' = [file EXCEPT ![f] = r] /\ file \in [Fd -> Res \cup {None}]
    BY <1>2 DEF Books, TypeOK
  <2>4. ASSUME NEW i \in DOMAIN commands', PendingRegister(i)'
        PROVE  /\ file'[commands'[i].fd] = commands'[i].res
               /\ commands'[i].fd \notin interest' \cup unwatched_fds'
    <3>1. CASE PendingRegister(i) /\ commands'[i] = commands[i]
      BY <1>2, <2>1, <2>3, <3>1 DEF PendingRegister, listeners
    <3>2. CASE i = n /\ commands'[i] = cmd
      BY <1>1, <1>2, <2>3, <3>2 DEF listeners
    <3> QED
      BY <2>2, <2>4, <3>1, <3>2
  <2>5. ASSUME NEW i \in DOMAIN commands', NEW j \in DOMAIN commands',
               PendingRegister(i)', PendingRegister(j)', commands'[i].fd = commands'[j].fd
        PROVE  i = j
    <3>1. \A k : PendingRegister(k) => commands[k].fd # f
      BY <2>1 DEF PendingRegister
    <3>2. cmd.fd = f
      OBVIOUS
    <3> HIDE DEF cmd, n
    <3> QED
      BY <2>2, <2>5, <3>1, <3>2 DEF Books, PendingExact, PendingRegister
  <2> QED
    BY <2>4, <2>5 DEF PendingExact
<1> QED
  BY <1>3, <1>4 DEF Books

\* A Terminate command changes nothing before the loop reads it.
LEMMA StopBooks ==
  ASSUME Books, NEW r \in Res, Stop(r), TypeOK'
  PROVE  Books'
<1>1. UNCHANGED <<file, interest, listeners>>
  BY DEF Stop, kernel
<1>2. InterestExact' /\ ActionIsForFile' /\ Waiting'
  BY <1>1 DEF Books, InterestExact, ActionIsForFile, Waiting, Open, listeners
<1>3. \A i : PendingRegister(i)' => PendingRegister(i) /\ commands'[i] = commands[i]
  <2>1. commands' = Append(commands, [op |-> "Terminate", fd |-> held[r], res |-> r])
    BY DEF Stop
  <2> QED
    BY <2>1, CommandAppended DEF Books, PendingRegister
<1>4. PendingExact'
  BY <1>1, <1>3 DEF Books, PendingExact, PendingRegister, listeners
<1> QED
  BY <1>2, <1>4 DEF Books

\* The loop takes one command from the channel.
LEMMA DrainBooks ==
  ASSUME Books, DrainCommand, TypeOK'
  PROVE  Books'
<1> DEFINE cmd == Head(commands)
<1>1. /\ commands \in Seq(Command) /\ commands # <<>> /\ commands' = Tail(commands)
      /\ UNCHANGED <<file, interest>>
  BY DEF DrainCommand, Books, TypeOK, kernel
<1>2. /\ Len(commands) \in Nat \ {0} /\ DOMAIN commands = 1..Len(commands)
      /\ cmd = commands[1] /\ cmd \in Command
      /\ DOMAIN commands' = 1..(Len(commands) - 1)
      /\ \A i \in DOMAIN commands' : i + 1 \in DOMAIN commands /\ commands'[i] = commands[i + 1]
  BY <1>1
<1>3. \A i : PendingRegister(i)' =>
              PendingRegister(i + 1) /\ commands'[i] = commands[i + 1] /\ i \in Nat \ {0}
  BY <1>2 DEF PendingRegister
<1>4. CASE cmd.op = "Register"
  <2>1. RegisterFd(cmd.fd, cmd.res) /\ cmd.fd \in Fd /\ cmd.res \in Res
    BY <1>2, <1>4 DEF DrainCommand, Command
  <2>2. PendingRegister(1)
    BY <1>2, <1>4 DEF PendingRegister
  <2>3. file[cmd.fd] = cmd.res /\ cmd.fd \notin interest \cup unwatched_fds
    BY <1>2, <2>2 DEF Books, PendingExact
  <2>4. Listening'
    BY <1>1, <2>1, <2>3, RegisterListening
  <2>5. unwatched_fds' \subseteq unwatched_fds \cup {cmd.fd}
    BY <2>1 DEF RegisterFd
  <2>6. ASSUME NEW i \in DOMAIN commands', PendingRegister(i)'
        PROVE  /\ file[commands'[i].fd] = commands'[i].res
               /\ commands'[i].fd \notin interest \cup unwatched_fds'
    <3>1. PendingRegister(i + 1) /\ commands'[i] = commands[i + 1] /\ i + 1 # 1
      BY <1>3, <2>6
    <3>2. /\ file[commands[i + 1].fd] = commands[i + 1].res
          /\ commands[i + 1].fd \notin interest \cup unwatched_fds
      BY <3>1 DEF Books, PendingExact, PendingRegister
    <3>3. commands[i + 1].fd # cmd.fd
      BY <1>2, <2>2, <3>1 DEF Books, PendingExact, PendingRegister
    <3> QED
      BY <2>5, <3>1, <3>2, <3>3
  <2>7. ASSUME NEW i \in DOMAIN commands', NEW j \in DOMAIN commands',
               PendingRegister(i)', PendingRegister(j)', commands'[i].fd = commands'[j].fd
        PROVE  i = j
    <3>1. /\ PendingRegister(i + 1) /\ commands'[i] = commands[i + 1] /\ i \in Nat
          /\ PendingRegister(j + 1) /\ commands'[j] = commands[j + 1] /\ j \in Nat
      BY <1>3, <2>7
    <3>2. i + 1 = j + 1
      BY <2>7, <3>1 DEF Books, PendingExact, PendingRegister
    <3> QED
      BY <3>1, <3>2
  <2>8. PendingExact'
    BY <1>1, <2>6, <2>7 DEF PendingExact, PendingRegister
  <2> QED
    BY <2>4, <2>8 DEF Books, Listening
<1>5. CASE cmd.op # "Register"
  <2>1. Terminate(cmd.fd) /\ cmd.fd \in Fd
    BY <1>2, <1>5 DEF DrainCommand, Command
  <2>2. Listening'
    BY <1>1, <2>1, TerminateListening
  <2>3. unwatched_fds' \subseteq unwatched_fds
    BY <2>1 DEF Terminate
  <2>4. PendingExact'
    BY <1>1, <1>2, <1>3, <2>3 DEF Books, PendingExact, PendingRegister
  <2> QED
    BY <2>2, <2>4 DEF Books, Listening
<1> QED
  BY <1>4, <1>5

\* A descriptor leaves while events are collected.
LEMMA CollectBooks ==
  ASSUME Books, NEW f \in Fd, Terminate(f), UNCHANGED <<file, interest, commands>>, TypeOK'
  PROVE  Books'
<1>1. Listening'
  BY TerminateListening
<1>2. unwatched_fds' \subseteq unwatched_fds
  BY DEF Terminate
<1>3. PendingExact'
  BY <1>2 DEF Books, PendingExact, PendingRegister
<1> QED
  BY <1>1, <1>3 DEF Books, Listening

\* Every step keeps the books.
LEMMA NextBooks == Books /\ [Next]_vars => Books'
<1> SUFFICES ASSUME Books, [Next]_vars PROVE Books'
  OBVIOUS
<1>1. TypeOK'
  BY NextTypeOK DEF Books
<1>2. CASE UNCHANGED vars
  BY <1>1, <1>2, BooksStutter DEF vars, kernel, listeners
<1>3. CASE \E r \in Res : Expire(r) \/ Write(r) \/ HangUp(r)
  BY <1>1, <1>3, BooksStutter DEF Expire, Write, HangUp
<1>4. CASE \E r \in Res : Stop(r)
  BY <1>1, <1>4, StopBooks
<1>5. CASE \E r \in Res, f \in Fd : Create(r, f)
  BY <1>1, <1>5, CreateBooks
<1>6. CASE ExpireTick \/ Wake \/ HandleMessage
  BY <1>1, <1>6, BooksStutter DEF ExpireTick, Wake, HandleMessage
<1>7. CASE Prepare
  BY <1>1, <1>7, PrepareBooks
<1>8. CASE Wait \/ PollAgain
  BY <1>1, <1>8, BooksStutter DEF Wait, PollAgain, Report
<1>9. CASE CollectTick \/ CollectWake \/ DrainEnd \/ Send
  BY <1>1, <1>9, BooksStutter DEF CollectTick, CollectWake, DrainEnd, Send, kernel
<1>10. CASE DrainCommand
  BY <1>1, <1>10, DrainBooks
<1>11. ASSUME NEW f \in Fd, CollectHangUp(f) PROVE Books'
  BY <1>1, <1>11, CollectBooks DEF CollectHangUp, kernel
<1>12. ASSUME NEW f \in Fd, CollectData(f) PROVE Books'
  <2>1. UNCHANGED <<file, interest, commands>> /\ (Terminate(f) \/ UNCHANGED listeners)
    BY <1>12 DEF CollectData
  <2> QED
    BY <1>1, <2>1, CollectBooks, BooksStutter
<1> QED
  BY <1>2, <1>3, <1>4, <1>5, <1>6, <1>7, <1>8, <1>9, <1>10, <1>11, <1>12 DEF Next, LoopStep

\* The books, always.
LEMMA SpecBooks == Spec => []Books
<1>1. Init => Books
  BY InitTypeOK DEF Init, Books, InterestExact, ActionIsForFile, PendingExact, PendingRegister,
     Waiting
<1>2. Books /\ [Next]_vars => Books'
  BY NextBooks
<1> QED
  BY <1>1, <1>2, PTL DEF Spec

\* The epoll set is exactly what the loop believes it is, and every descriptor
\* in it is open and owned, however descriptors are reused.
THEOREM InterestIsExact == Spec => []InterestExact
<1>1. Books => InterestExact
  BY DEF Books
<1> QED
  BY <1>1, SpecBooks, PTL

\* No action is ever delivered for a resource other than the one that is behind
\* the descriptor: not after a hang-up, a stop or a reused number.
THEOREM ActionsAreForTheirFile == Spec => []ActionIsForFile
<1>1. Books => ActionIsForFile
  BY DEF Books
<1> QED
  BY <1>1, SpecBooks, PTL

----------------------------------------------------------------------------
(***************************************************************************)
(* Ticks                                                                   *)
(***************************************************************************)
\* A resource is behind one descriptor at most, and was created; events are
\* pending only while they are collected, and for descriptors that are watched.
Placed ==
  /\ readable \cup (Range(file) \ {None}) \subseteq created
  /\ \A f, g \in Fd : file[f] = file[g] /\ Open(f) => f = g
  /\ pc \in {"top", "wait"} => events = {}
  /\ events \cap Fd \subseteq interest

\* A timer that has something to read, or a pending event, has a tick to spare.
Due(r) == r \in readable \/ \E f \in events \cap Fd : file[f] = r

TicksToSpare ==
  \A r \in Timer : ticked[r] <= expired[r] /\ (Due(r) => ticked[r] < expired[r])

Ticking == Placed /\ TicksToSpare

\* Steps that neither tick, nor make a timer due, nor open a descriptor.
LEMMA TickingQuiet ==
  ASSUME Ticking, TypeOK, TypeOK', UNCHANGED <<expired, ticked, interest, file, created, pc>>,
         readable' \cap Timer \subseteq readable, readable' \subseteq created, events' \subseteq events
  PROVE  Ticking'
<1>1. Placed'
  BY DEF Ticking, Placed, Open
<1>2. \A r \in Timer : Due(r)' => Due(r)
  BY DEF Due
<1>3. TicksToSpare'
  BY <1>2 DEF Ticking, TicksToSpare
<1> QED
  BY <1>1, <1>3 DEF Ticking

\* Only what is readable is reported of a timer.
LEMMA ReportedTimers ==
  ASSUME TypeOK, NEW reported \in SUBSET Ready
  PROVE  /\ reported \cap Fd \subseteq interest
         /\ \A f \in reported \cap Fd : file[f] \in Timer => file[f] \in readable
BY ResAssumption DEF TypeOK, Ready, Reportable, Pipe, WAKE, TICK

\* Every step keeps a tick to spare for every timer that is due.
LEMMA NextTicking == Books /\ Ticking /\ [Next]_vars => Ticking'
<1> SUFFICES ASSUME Books, Ticking, [Next]_vars PROVE Ticking'
  OBVIOUS
<1>1. TypeOK /\ TypeOK'
  BY NextTypeOK DEF Books
<1>2. readable \subseteq created /\ Timer \subseteq Res
  BY DEF Ticking, Placed, Timer
<1>3. CASE UNCHANGED vars
  BY <1>1, <1>2, <1>3, TickingQuiet DEF vars, kernel, client, locals, history
<1>4. ASSUME NEW r \in Res, Expire(r) PROVE Ticking'
  <2>1. /\ r \in Timer \cap Range(file) /\ readable' = readable \cup {r}
        /\ expired' = [expired EXCEPT ![r] = @ + 1]
        /\ UNCHANGED <<file, ticked, interest, created, pc, events>>
    BY <1>4 DEF Expire, client, locals
  <2>2. r # None
    BY <2>1, <1>2, ResAssumption
  <2>3. Placed'
    BY <2>1, <2>2 DEF Ticking, Placed, Open
  <2>4. \A q \in Timer \ {r} : Due(q)' => Due(q)
    BY <2>1 DEF Due
  <2>5. \A q \in Timer : expired[q] \in Nat /\ ticked[q] \in Nat
    BY <1>1, <1>2 DEF TypeOK
  <2>6. \A q \in Timer : expired'[q] = IF q = r THEN expired[q] + 1 ELSE expired[q]
    BY <1>1, <1>2, <2>1 DEF TypeOK
  <2>7. TicksToSpare'
    BY <2>1, <2>4, <2>5, <2>6 DEF Ticking, TicksToSpare
  <2> QED
    BY <2>3, <2>7 DEF Ticking
<1>5. ASSUME NEW r \in Res, Write(r) PROVE Ticking'
  <2>1. r \in Pipe /\ r \in Range(file) /\ r # None
    BY <1>5, ResAssumption DEF Write, Pipe
  <2>2. readable' \cap Timer \subseteq readable /\ readable' \subseteq created
    BY <1>5, <2>1 DEF Write, Pipe, Ticking, Placed
  <2> QED
    BY <1>1, <1>5, <2>2, TickingQuiet DEF Write, client, locals
<1>6. CASE \E r \in Res : HangUp(r)
  BY <1>1, <1>2, <1>6, TickingQuiet DEF HangUp, client, locals, history
<1>7. CASE \E r \in Res : Stop(r)
  BY <1>1, <1>2, <1>7, TickingQuiet DEF Stop, kernel, locals, history
<1>8. ASSUME NEW r \in Res, NEW f \in Fd, Create(r, f) PROVE Ticking'
  <2>1. /\ ~Open(f) /\ r \notin created
        /\ file' = [file EXCEPT ![f] = r] /\ created' = created \cup {r}
        /\ UNCHANGED <<readable, interest, expired, ticked, pc, events>>
    BY <1>8 DEF Create, locals, history
  <2>2. file \in [Fd -> Res \cup {None}] /\ r # None
    BY <1>1, ResAssumption DEF TypeOK
  <2>3. \A g \in Fd : file[g] # r
    BY <2>1, <2>2 DEF Ticking, Placed, Range
  <2>4. Placed'
    <3>1. Range(file') \subseteq Range(file) \cup {r}
      BY <2>1, <2>2 DEF Range
    <3>2. \A g, h \in Fd : file'[g] = file'[h] /\ file'[g] # None => g = h
      BY <2>1, <2>2, <2>3 DEF Ticking, Placed, Open
    <3> QED
      BY <2>1, <3>1, <3>2 DEF Ticking, Placed, Open
  <2>5. f \notin events
    BY <2>1 DEF Ticking, Placed, Books, InterestExact
  <2>6. \A q \in Timer : Due(q)' => Due(q)
    BY <2>1, <2>2, <2>5 DEF Due
  <2>7. TicksToSpare'
    BY <2>1, <2>6 DEF Ticking, TicksToSpare
  <2> QED
    BY <2>4, <2>7 DEF Ticking
<1>9. CASE ExpireTick \/ Wake \/ HandleMessage
  BY <1>1, <1>2, <1>9, TickingQuiet DEF ExpireTick, Wake, HandleMessage, client, locals, history
<1>10. CASE Prepare
  <2>1. pc = "top" /\ events = {} /\ UNCHANGED <<events, expired, ticked, created>>
    BY <1>10 DEF Prepare, Ticking, Placed, client, history
  <2>2. readable' \subseteq readable
    BY <1>10 DEF Prepare
  <2>3. /\ \A f \in Fd : file'[f] \in {None, file[f]}
        /\ DOMAIN file' = Fd /\ DOMAIN file = Fd
    BY <1>1, <1>10 DEF Prepare, TypeOK
  <2>4. Range(file') \subseteq Range(file) \cup {None}
    BY <2>3 DEF Range
  <2>5. Placed'
    BY <2>1, <2>2, <2>3, <2>4 DEF Ticking, Placed, Open
  <2>6. TicksToSpare'
    BY <2>1, <2>2 DEF Ticking, TicksToSpare, Due
  <2> QED
    BY <2>5, <2>6 DEF Ticking
<1>11. CASE Wait \/ PollAgain
  <2>1. PICK reported \in SUBSET Ready : Report(reported)
    BY <1>11 DEF Wait, PollAgain
  <2>2. events' = reported /\ pc' = "collect"
        /\ UNCHANGED <<file, readable, interest, expired, ticked, created>>
    BY <1>11, <2>1 DEF Wait, PollAgain, Report, client, history
  <2>3. Placed'
    BY <1>1, <2>2, ReportedTimers DEF Ticking, Placed, Open
  <2>4. \A q \in Timer : Due(q)' => Due(q)
    BY <1>1, <2>2, ReportedTimers DEF Due
  <2>5. TicksToSpare'
    BY <2>2, <2>4 DEF Ticking, TicksToSpare
  <2> QED
    BY <2>3, <2>5 DEF Ticking
<1>12. CASE CollectTick
  BY <1>1, <1>2, <1>12, TickingQuiet DEF CollectTick, client, history
<1>13. CASE CollectWake \/ DrainCommand \/ DrainEnd
  <2>1. /\ events' \subseteq events /\ pc \in {"collect", "drain"} /\ pc' \in {"collect", "drain"}
        /\ UNCHANGED <<file, readable, interest, expired, ticked, created>>
    BY <1>13 DEF CollectWake, DrainCommand, DrainEnd, kernel, client, locals, history
  <2>2. Placed'
    BY <2>1 DEF Ticking, Placed, Open
  <2>3. TicksToSpare'
    BY <2>1 DEF Ticking, TicksToSpare, Due
  <2> QED
    BY <2>2, <2>3 DEF Ticking
<1>14. ASSUME NEW f \in Fd, CollectHangUp(f) PROVE Ticking'
  BY <1>1, <1>2, <1>14, TickingQuiet DEF CollectHangUp, kernel, client, history
<1>15. ASSUME NEW f \in Fd, CollectData(f) PROVE Ticking'
  <2>1. /\ f \in events /\ events' = events \ {f}
        /\ readable' = IF file[f] \in Timer THEN readable \ {file[f]} ELSE readable
        /\ UNCHANGED <<file, interest, expired, created, pc>>
    BY <1>15 DEF CollectData, TimerRead, client
  <2>2. CASE ticked' = ticked
    BY <1>1, <1>2, <2>1, <2>2, TickingQuiet
  <2>3. CASE ticked' # ticked
    <3>1. PICK r \in Timer :
            r # None /\ r = actions[f] /\ ticked' = [ticked EXCEPT ![r] = @ + 1]
      BY <1>15, <2>3 DEF CollectData
    <3>2. file[f] = r
      BY <3>1 DEF Books, ActionIsForFile
    <3>3. Placed'
      BY <2>1 DEF Ticking, Placed, Open
    <3>4. Due(r) /\ ticked[r] < expired[r]
      BY <2>1, <3>1, <3>2 DEF Ticking, TicksToSpare, Due
    <3>5. ~Due(r)'
      <4>1. r \notin readable'
        BY <2>1, <3>1, <3>2
      <4>2. \A g \in events' : g \in Fd => file'[g] # r
        BY <2>1, <3>1, <3>2 DEF Ticking, Placed, Open
      <4> QED
        BY <4>1, <4>2 DEF Due
    <3>6. \A q \in Timer : Due(q)' => Due(q)
      BY <2>1 DEF Due
    <3>7. \A q \in Timer : expired[q] \in Nat /\ ticked[q] \in Nat
      BY <1>1, <1>2 DEF TypeOK
    <3>8. \A q \in Timer : ticked'[q] = IF q = r THEN ticked[q] + 1 ELSE ticked[q]
      BY <1>1, <1>2, <3>1 DEF TypeOK
    <3>9. TicksToSpare'
      BY <2>1, <3>1, <3>4, <3>5, <3>6, <3>7, <3>8 DEF Ticking, TicksToSpare
    <3> QED
      BY <3>3, <3>9 DEF Ticking
  <2> QED
    BY <2>2, <2>3
<1>16. CASE Send
  <2>1. /\ events = {} /\ pc' = "top"
        /\ UNCHANGED <<file, readable, interest, expired, ticked, created, events>>
    BY <1>16 DEF Send, kernel, history
  <2> QED
    BY <2>1 DEF Ticking, Placed, Open, TicksToSpare, Due
<1> QED
  BY <1>3, <1>4, <1>5, <1>6, <1>7, <1>8, <1>9, <1>10, <1>11, <1>12, <1>13, <1>14, <1>15, <1>16
     DEF Next, LoopStep

\* Ticks to spare, always.
LEMMA SpecTicking == Spec => []Ticking
<1>1. Init => Ticking
  <2> SUFFICES ASSUME Init PROVE Ticking
    OBVIOUS
  <2>1. Range(file) \subseteq {None}
    BY DEF Init, Range
  <2> QED
    BY <2>1 DEF Init, Ticking, Placed, Open, TicksToSpare, Due, Timer
<1>2. Books /\ Ticking /\ [Next]_vars => Ticking'
  BY NextTicking
<1> QED
  BY <1>1, <1>2, SpecBooks, PTL DEF Spec

\* A timer never ticks more often than it expired, and so a one-shot ticks once,
\* whatever else shares its descriptor number before and after.
THEOREM TicksAreReal == Spec => []NoPhantomTicks
<1>1. Ticking => NoPhantomTicks
  BY DEF Ticking, TicksToSpare, NoPhantomTicks
<1> QED
  BY <1>1, SpecTicking, PTL

----------------------------------------------------------------------------
(***************************************************************************)
(* What clients keep                                                       *)
(***************************************************************************)
\* The descriptor is registered for the resource, or will be.
OnTheBooks(r, f) ==
  /\ f \in Fd /\ file[f] = r
  /\ \/ actions[f] = r
     \/ [op |-> "Register", fd |-> f, res |-> r] \in Range(commands)

PendingStop(i) == i \in DOMAIN commands /\ commands[i].op = "Terminate"

\* A client stops an interval once, and lets go of it.
Stops ==
  /\ \A i \in DOMAIN commands : PendingStop(i) =>
       KindOf[commands[i].res] = "interval" /\ held[commands[i].res] = None
  /\ \A i, j \in DOMAIN commands :
       PendingStop(i) /\ PendingStop(j) /\ commands[i].res = commands[j].res => i = j
  /\ \A r \in Res : r \notin created =>
       held[r] = None /\ \A i \in DOMAIN commands : commands[i].res # r

\* What a client holds, or has asked to stop, is there.
Stopping(r, f) == \E i \in DOMAIN commands : PendingStop(i) /\ commands[i].res = r /\ commands[i].fd = f

Wanted(r, f) == KindOf[r] = "interval" /\ (held[r] = f \/ Stopping(r, f))

Kept == \A r \in Res, f \in Fd : Wanted(r, f) => OnTheBooks(r, f)

\* The actions are those of the descriptors watched or about to be, and only those
\* of one-shot timers are taken for one-shots.
Registered ==
  /\ \A f \in Fd : actions[f] # None <=> f \in watched_fds \cup unwatched_fds
  /\ \A f \in oneshot_fds : actions[f] # None /\ KindOf[actions[f]] = "oneshot"

\* Only pipes hang up.
HangUps == hups \subseteq events /\ \A f \in hups : file[f] \in hungup

Keeping == Registered /\ HangUps /\ Stops /\ Kept

\* What prepares the descriptors for the next wait.
LEMMA PrepareIs ==
  ASSUME Books, Prepare
  PROVE  /\ file' = [f \in Fd |-> IF f \in removed_fds THEN None ELSE file[f]]
         /\ watched_fds' = watched_fds \cup unwatched_fds
         /\ unwatched_fds' = {} /\ removed_fds' = {}
         /\ UNCHANGED <<actions, oneshot_fds, commands, held, created, events, hups, hungup, unseen, batch, inbox>>
<1> DEFINE kept == [f \in Fd |-> IF f \in Closing THEN None ELSE file[f]]
           new  == {f \in unwatched_fds : kept[f] # None}
<1>1. file' = kept /\ watched_fds' = watched_fds \cup new
  BY DEF Prepare
<1>2. Closing = removed_fds
  BY DEF Closing, Books, InterestExact
<1>3. new = unwatched_fds
  BY <1>2 DEF Books, InterestExact, Waiting, Open, TypeOK
<1>4. UNCHANGED <<actions, oneshot_fds, commands, held, created, events, hups, hungup, unseen, batch, inbox>>
      /\ unwatched_fds' = {} /\ removed_fds' = {}
  BY DEF Prepare, client, history
<1> QED
  BY <1>1, <1>2, <1>3, <1>4

\* A step that leaves what is on the books there keeps what clients keep.
LEMMA StayOnTheBooks ==
  ASSUME Stops, Kept, UNCHANGED <<commands, held, created>>,
         \A r \in Res, f \in Fd : KindOf[r] = "interval" /\ OnTheBooks(r, f) => OnTheBooks(r, f)'
  PROVE  Stops' /\ Kept'
<1>1. Stops'
  BY DEF Stops, PendingStop
<1>2. \A r \in Res, f \in Fd : Wanted(r, f)' => Wanted(r, f)
  BY DEF Wanted, Stopping, PendingStop
<1>3. Kept'
  BY <1>2 DEF Kept, Wanted
<1> QED
  BY <1>1, <1>3

\* Steps that touch neither the channel nor Listeners.
LEMMA KeepingQuiet ==
  ASSUME TypeOK, Keeping, HangUps',
         UNCHANGED <<file, commands, held, created, actions, watched_fds, unwatched_fds, oneshot_fds>>
  PROVE  Keeping'
<1>1. \A r \in Res, f \in Fd : OnTheBooks(r, f) => OnTheBooks(r, f)'
  BY DEF OnTheBooks
<1>2. Stops' /\ Kept'
  BY <1>1, StayOnTheBooks DEF Keeping
<1>3. Registered'
  BY DEF Keeping, Registered
<1> QED
  BY <1>2, <1>3 DEF Keeping

\* A descriptor that is terminated, and is no interval's.
LEMMA TerminateKeeping ==
  ASSUME Books, Keeping, NEW f \in Fd, Terminate(f), KindOf[file[f]] # "interval",
         UNCHANGED <<file, commands, held, created>>
  PROVE  Registered' /\ Stops' /\ Kept'
<1>1. Registered'
  BY DEF Books, TypeOK, Keeping, Registered, Terminate
<1>2. ASSUME NEW r \in Res, NEW g \in Fd, KindOf[r] = "interval", OnTheBooks(r, g) PROVE OnTheBooks(r, g)'
  <2>1. g # f
    BY <1>2 DEF OnTheBooks
  <2>2. actions'[g] = actions[g]
    BY <2>1 DEF Terminate, Books, TypeOK
  <2> QED
    BY <1>2, <2>2 DEF OnTheBooks
<1>3. Stops' /\ Kept'
  BY <1>2, StayOnTheBooks DEF Books, Keeping
<1> QED
  BY <1>1, <1>3

\* The top of the loop closes only what is silent, and so nothing that is on the books.
LEMMA PrepareKeeping ==
  ASSUME Books, Ticking, Keeping, Prepare
  PROVE  Keeping'
<1>1. /\ file' = [f \in Fd |-> IF f \in removed_fds THEN None ELSE file[f]]
      /\ watched_fds' = watched_fds \cup unwatched_fds /\ unwatched_fds' = {}
      /\ UNCHANGED <<actions, oneshot_fds, commands, held, created, events, hups, hungup>>
  BY PrepareIs
<1>2. events = {}
  BY DEF Prepare, Ticking, Placed
<1>3. HangUps'
  BY <1>1, <1>2 DEF HangUps, Keeping
<1>4. Registered'
  BY <1>1 DEF Keeping, Registered
<1>5. ASSUME NEW r \in Res, NEW g \in Fd, OnTheBooks(r, g) PROVE OnTheBooks(r, g)'
  <2>1. r # None
    BY ResAssumption
  <2>2. g \notin removed_fds
    <3>1. CASE actions[g] = r
      BY <2>1, <3>1 DEF Books, Waiting
    <3>2. CASE [op |-> "Register", fd |-> g, res |-> r] \in Range(commands)
      <4>1. PICK i \in DOMAIN commands : commands[i] = [op |-> "Register", fd |-> g, res |-> r]
        BY <3>2 DEF Range
      <4>2. g \notin interest
        BY <4>1 DEF Books, PendingExact, PendingRegister
      <4> QED
        BY <4>2 DEF Books, InterestExact
    <3> QED
      BY <1>5, <3>1, <3>2 DEF OnTheBooks
  <2> QED
    BY <1>1, <1>5, <2>2 DEF OnTheBooks
<1>6. Stops' /\ Kept'
  BY <1>1, <1>5, StayOnTheBooks DEF Books, Keeping
<1> QED
  BY <1>3, <1>4, <1>6 DEF Keeping

\* Only pipes hang up, and an interval is none.
LEMMA HangUpKeeping ==
  ASSUME Books, Keeping, NEW f \in Fd, CollectHangUp(f)
  PROVE  Keeping'
<1>1. Terminate(f) /\ UNCHANGED <<file, commands, held, created, hungup>>
      /\ events' = events \ {f} /\ hups' = hups \ {f} /\ f \in hups
  BY DEF CollectHangUp, kernel, client
<1>2. HangUps'
  BY <1>1 DEF Keeping, HangUps
<1>3. file[f] \in Pipe
  BY <1>1 DEF Keeping, HangUps, Books, TypeOK
<1>4. KindOf[file[f]] # "interval"
  BY <1>3 DEF Pipe, Timer
<1> QED
  BY <1>1, <1>2, <1>4, TerminateKeeping DEF Keeping

\* Of the timers that fire, only one-shots leave the books.
LEMMA DataKeeping ==
  ASSUME Books, Keeping, NEW f \in Fd, CollectData(f)
  PROVE  Keeping'
<1>1. /\ UNCHANGED <<file, commands, held, created, hungup, hups>>
      /\ events' = events \ {f} /\ f \notin hups
  BY DEF CollectData, client
<1>2. HangUps'
  BY <1>1 DEF Keeping, HangUps
<1>3. CASE f \in oneshot_fds
  <2>1. Terminate(f)
    BY <1>3 DEF CollectData
  <2>2. KindOf[file[f]] = "oneshot"
    BY <1>3 DEF Keeping, Registered, Books, ActionIsForFile
  <2> QED
    BY <1>1, <1>2, <2>1, <2>2, TerminateKeeping DEF Keeping
<1>4. CASE f \notin oneshot_fds
  <2>1. UNCHANGED listeners
    BY <1>4 DEF CollectData
  <2> QED
    BY <1>1, <1>2, <2>1, KeepingQuiet DEF Books, listeners
<1> QED
  BY <1>3, <1>4

\* The channel after one more command.
LEMMA ChannelGrows ==
  ASSUME TypeOK, NEW cmd, commands' = Append(commands, cmd)
  PROVE  /\ \A i : PendingStop(i) => PendingStop(i)' /\ commands'[i] = commands[i]
         /\ \A i : PendingStop(i)' =>
              (PendingStop(i) /\ commands'[i] = commands[i]) \/ (i = Len(commands) + 1 /\ commands'[i] = cmd)
         /\ Range(commands') = Range(commands) \cup {cmd}
         /\ Len(commands) + 1 \notin DOMAIN commands
<1>1. /\ \A i \in DOMAIN commands : i \in DOMAIN commands' /\ commands'[i] = commands[i]
      /\ \A i \in DOMAIN commands' : i \in DOMAIN commands \/ i = Len(commands) + 1
      /\ commands'[Len(commands) + 1] = cmd
  BY CommandAppended
<1>2. commands \in Seq(Command)
  BY DEF TypeOK
<1>3. DOMAIN commands' = DOMAIN commands \cup {Len(commands) + 1} /\ Len(commands) + 1 \notin DOMAIN commands
  BY <1>2
<1>4. Range(commands') = Range(commands) \cup {cmd}
  BY <1>1, <1>3 DEF Range
<1> QED
  BY <1>1, <1>3, <1>4 DEF PendingStop

\* A new descriptor is on the books with its Register command.
LEMMA CreateKeeping ==
  ASSUME Books, Ticking, Keeping, NEW r \in Res, NEW f \in Fd, Create(r, f)
  PROVE  Keeping'
<1> DEFINE cmd == [op |-> "Register", fd |-> f, res |-> r]
<1>1. /\ ~Open(f) /\ r \notin created /\ created' = created \cup {r}
      /\ file' = [file EXCEPT ![f] = r] /\ held' = [held EXCEPT ![r] = f]
      /\ commands' = Append(commands, cmd)
      /\ UNCHANGED <<actions, watched_fds, unwatched_fds, oneshot_fds, events, hups, hungup>>
  BY DEF Create, listeners, locals
<1>2. file \in [Fd -> Res \cup {None}] /\ held \in [Res -> Fd \cup {None}] /\ r # None /\ TypeOK
  BY ResAssumption DEF Books, TypeOK
<1>3. cmd.op = "Register" /\ cmd.fd = f /\ cmd.res = r
  OBVIOUS
<1>4. cmd \in Range(commands')
  BY <1>1, <1>2, ChannelGrows
<1> HIDE DEF cmd
<1>5. /\ \A i : PendingStop(i)' => PendingStop(i) /\ commands'[i] = commands[i]
      /\ Range(commands) \subseteq Range(commands')
  BY <1>1, <1>2, <1>3, ChannelGrows DEF PendingStop
<1>6. \A i \in DOMAIN commands' : (i \in DOMAIN commands /\ commands'[i] = commands[i]) \/ commands'[i] = cmd
  BY <1>1, <1>2, CommandAppended
<1>7. HangUps'
  <2>1. hups \subseteq events \cap Fd /\ events \cap Fd \subseteq interest
    BY DEF Books, TypeOK, Ticking, Placed
  <2>2. f \notin hups
    BY <1>1, <2>1 DEF Books, InterestExact
  <2>3. \A g \in hups : g \in Fd /\ file'[g] = file[g]
    BY <1>1, <1>2, <2>1, <2>2
  <2> QED
    BY <1>1, <2>3 DEF Keeping, HangUps
<1>8. Registered'
  BY <1>1 DEF Keeping, Registered
<1>9. ASSUME NEW q, NEW g, q # None, OnTheBooks(q, g) PROVE OnTheBooks(q, g)'
  <2>1. g # f
    BY <1>1, <1>9 DEF OnTheBooks, Open
  <2>2. file'[g] = file[g]
    BY <1>1, <1>2, <1>9, <2>1 DEF OnTheBooks
  <2> QED
    BY <1>1, <1>5, <1>9, <2>2 DEF OnTheBooks
<1>10. Stops'
  <2>1. ASSUME NEW i \in DOMAIN commands', PendingStop(i)'
        PROVE  KindOf[commands'[i].res] = "interval" /\ held'[commands'[i].res] = None
    <3>1. /\ PendingStop(i) /\ commands'[i] = commands[i] /\ i \in DOMAIN commands
          /\ commands[i].res # r /\ commands[i].res \in Res
      BY <1>1, <1>2, <1>5, <2>1, CommandTyped DEF PendingStop, Keeping, Stops
    <3> QED
      BY <1>1, <1>2, <3>1 DEF Keeping, Stops
  <2>2. \A i, j \in DOMAIN commands' :
          PendingStop(i)' /\ PendingStop(j)' /\ commands'[i].res = commands'[j].res => i = j
    BY <1>5 DEF Keeping, Stops, PendingStop
  <2>3. \A q \in Res : q \notin created' => held'[q] = None /\ \A i \in DOMAIN commands' : commands'[i].res # q
    BY <1>1, <1>2, <1>3, <1>6 DEF Keeping, Stops
  <2> QED
    BY <2>1, <2>2, <2>3 DEF Stops, PendingStop
<1>11. ASSUME NEW q \in Res, NEW g \in Fd, Wanted(q, g)' PROVE OnTheBooks(q, g)'
  <2>1. q # None
    BY ResAssumption
  <2>2. Stopping(q, g)' => Stopping(q, g)
    BY <1>5 DEF Stopping, PendingStop
  <2>3. CASE q = r /\ held'[q] = g
    <3>1. g = f /\ file'[f] = r
      BY <1>1, <1>2, <2>3
    <3> QED
      BY <1>4, <2>3, <3>1 DEF OnTheBooks, cmd
  <2>4. CASE ~(q = r /\ held'[q] = g)
    <3>1. Wanted(q, g)
      BY <1>1, <1>2, <1>11, <2>2, <2>4 DEF Wanted
    <3> QED
      BY <1>9, <2>1, <3>1 DEF Keeping, Kept
  <2> QED
    BY <2>3, <2>4
<1>12. Kept'
  BY <1>11 DEF Kept
<1> QED
  BY <1>7, <1>8, <1>10, <1>12 DEF Keeping

\* A client that lets go of an interval leaves a Terminate command for it.
LEMMA StopKeeping ==
  ASSUME Forgetful = {}, Books, Keeping, NEW r \in Res, Stop(r)
  PROVE  Keeping'
<1> DEFINE cmd == [op |-> "Terminate", fd |-> held[r], res |-> r]
<1>1. /\ held[r] # None /\ held' = [held EXCEPT ![r] = None] /\ KindOf[r] = "interval"
      /\ commands' = Append(commands, cmd)
      /\ UNCHANGED <<file, created, actions, watched_fds, unwatched_fds, oneshot_fds, events, hups, hungup>>
  BY DEF Stop, MayStop, kernel, listeners, locals
<1>2. held \in [Res -> Fd \cup {None}] /\ TypeOK /\ held[r] \in Fd
  BY <1>1 DEF Books, TypeOK
<1>3. cmd.op = "Terminate" /\ cmd.fd = held[r] /\ cmd.res = r
  OBVIOUS
<1> HIDE DEF cmd
<1>4. /\ \A i : PendingStop(i)' =>
           (PendingStop(i) /\ commands'[i] = commands[i]) \/ (i = Len(commands) + 1 /\ commands'[i] = cmd)
      /\ Range(commands) \subseteq Range(commands')
  BY <1>1, <1>2, ChannelGrows
<1>5. \A i \in DOMAIN commands' : (i \in DOMAIN commands /\ commands'[i] = commands[i]) \/ commands'[i] = cmd
  BY <1>1, <1>2, CommandAppended
<1>6. HangUps' /\ Registered'
  BY <1>1 DEF Keeping, HangUps, Registered
<1>7. \A q \in Res : held'[q] = IF q = r THEN None ELSE held[q]
  BY <1>1, <1>2
<1>8. \A i : PendingStop(i) => commands[i].res # r /\ commands[i].res \in Res
                             /\ KindOf[commands[i].res] = "interval" /\ held[commands[i].res] = None
  BY <1>1, <1>2, CommandTyped DEF Keeping, Stops, PendingStop
<1>9. Stops'
  <2>1. \A i : PendingStop(i)' => KindOf[commands'[i].res] = "interval" /\ held'[commands'[i].res] = None
    BY <1>1, <1>3, <1>4, <1>7, <1>8
  <2>2. \A i, j : PendingStop(i)' /\ PendingStop(j)' /\ commands'[i].res = commands'[j].res => i = j
    BY <1>3, <1>4, <1>8 DEF Keeping, Stops, PendingStop
  <2>3. \A q \in Res : q \notin created' => held'[q] = None /\ \A i \in DOMAIN commands' : commands'[i].res # q
    BY <1>1, <1>3, <1>5, <1>7 DEF Keeping, Stops
  <2> QED
    BY <2>1, <2>2, <2>3 DEF Stops
<1>10. ASSUME NEW q \in Res, NEW g \in Fd, Wanted(q, g)' PROVE OnTheBooks(q, g)'
  <2>1. g # None
    BY ResAssumption
  <2>2. Stopping(q, g)' => Stopping(q, g) \/ (q = r /\ g = held[r])
    BY <1>3, <1>4 DEF Stopping, PendingStop
  <2>3. Wanted(q, g)
    BY <1>7, <1>10, <2>1, <2>2 DEF Wanted
  <2>4. OnTheBooks(q, g)
    BY <2>3 DEF Keeping, Kept
  <2> QED
    BY <1>1, <1>4, <2>4 DEF OnTheBooks
<1>11. Kept'
  BY <1>10 DEF Kept
<1> QED
  BY <1>6, <1>9, <1>11 DEF Keeping

\* The loop takes a command out of the channel.
LEMMA DrainKeeping ==
  ASSUME Books, Keeping, DrainCommand
  PROVE  Keeping'
<1> DEFINE cmd == Head(commands)
<1>1. /\ commands \in Seq(Command) /\ commands # <<>> /\ commands' = Tail(commands) /\ TypeOK
      /\ UNCHANGED <<file, held, created, hungup, events, hups>>
  BY DEF DrainCommand, Books, TypeOK, kernel, client, locals
<1>2. /\ DOMAIN commands = 1..Len(commands) /\ Len(commands) \in Nat \ {0}
      /\ cmd = commands[1] /\ cmd \in Command
      /\ DOMAIN commands' = 1..(Len(commands) - 1)
      /\ \A i \in DOMAIN commands' : i + 1 \in DOMAIN commands /\ commands'[i] = commands[i + 1]
  BY <1>1
<1>3. cmd.fd \in Fd /\ cmd.res \in Res /\ cmd.op \in {"Register", "Terminate"}
  BY <1>2 DEF Command
<1> HIDE DEF cmd
<1>4. \A i : PendingStop(i)' => PendingStop(i + 1) /\ commands'[i] = commands[i + 1] /\ i \in Nat \ {0}
  BY <1>2 DEF PendingStop
<1>5. \A c \in Range(commands) : c = cmd \/ c \in Range(commands')
  <2>1. ASSUME NEW i \in DOMAIN commands, i # 1 PROVE commands[i] \in Range(commands')
    <3>1. i - 1 \in DOMAIN commands' /\ (i - 1) + 1 = i
      BY <1>2, <2>1
    <3>2. commands'[i - 1] = commands[i]
      BY <1>2, <3>1
    <3> QED
      BY <3>1, <3>2 DEF Range
  <2> QED
    BY <1>2, <2>1 DEF Range
<1>6. HangUps'
  BY <1>1 DEF Keeping, HangUps
<1>7. Stops'
  <2>1. \A i \in DOMAIN commands' : PendingStop(i)' =>
          KindOf[commands'[i].res] = "interval" /\ held'[commands'[i].res] = None
    BY <1>1, <1>4 DEF Keeping, Stops, PendingStop
  <2>2. ASSUME NEW i, NEW j, PendingStop(i)', PendingStop(j)', commands'[i].res = commands'[j].res
        PROVE  i = j
    <3>1. i + 1 = j + 1 /\ i \in Nat /\ j \in Nat
      BY <1>4, <2>2 DEF Keeping, Stops, PendingStop
    <3> QED
      BY <3>1
  <2>3. \A q \in Res : q \notin created' => held'[q] = None /\ \A i \in DOMAIN commands' : commands'[i].res # q
    BY <1>1, <1>2 DEF Keeping, Stops
  <2> QED
    BY <2>1, <2>2, <2>3 DEF Stops
<1>8. \A q, g : Stopping(q, g)' => \E i \in DOMAIN commands :
                  i # 1 /\ PendingStop(i) /\ commands[i].res = q /\ commands[i].fd = g
  <2> SUFFICES ASSUME NEW q, NEW g, NEW i \in DOMAIN commands', PendingStop(i)', commands'[i].res = q, commands'[i].fd = g
               PROVE  \E j \in DOMAIN commands : j # 1 /\ PendingStop(j) /\ commands[j].res = q /\ commands[j].fd = g
    BY DEF Stopping
  <2>1. PendingStop(i + 1) /\ commands'[i] = commands[i + 1] /\ i + 1 # 1
    BY <1>4
  <2>2. i + 1 \in DOMAIN commands
    BY <2>1 DEF PendingStop
  <2> QED
    BY <2>1, <2>2
<1>9. ASSUME NEW q \in Res, NEW g \in Fd, Wanted(q, g)' PROVE Wanted(q, g) /\ OnTheBooks(q, g) /\ file'[g] = q
  <2>1. Stopping(q, g)' => Stopping(q, g)
    BY <1>8 DEF Stopping
  <2>2. Wanted(q, g)
    BY <1>1, <1>9, <2>1 DEF Wanted
  <2> QED
    BY <1>1, <2>2 DEF Keeping, Kept, OnTheBooks
<1>10. CASE cmd.op = "Register"
  <2>1. RegisterFd(cmd.fd, cmd.res)
    BY <1>10 DEF DrainCommand, cmd
  <2>2. PendingRegister(1)
    BY <1>2, <1>10 DEF PendingRegister
  <2>3. file[cmd.fd] = cmd.res /\ cmd.fd \notin interest \cup unwatched_fds
    BY <1>2, <2>2 DEF Books, PendingExact
  <2>4. cmd.fd \notin watched_fds /\ actions[cmd.fd] = None /\ cmd.res # None
    BY <1>3, <2>3, ResAssumption DEF Books, InterestExact, Keeping, Registered
  <2>5. actions \in [Fd -> Res \cup {None}]
    BY <1>1 DEF TypeOK
  <2>6. Registered'
    BY <1>3, <2>1, <2>4, <2>5 DEF RegisterFd, Keeping, Registered
  <2>7. ASSUME NEW q \in Res, NEW g \in Fd, OnTheBooks(q, g), file'[g] = q PROVE OnTheBooks(q, g)'
    <3>1. CASE g = cmd.fd
      BY <1>1, <2>1, <2>3, <2>5, <2>7, <3>1 DEF RegisterFd, OnTheBooks
    <3>2. CASE g # cmd.fd
      <4>1. actions'[g] = actions[g]
        BY <2>1, <2>5, <3>2 DEF RegisterFd
      <4>2. [op |-> "Register", fd |-> g, res |-> q] # cmd
        BY <3>2
      <4> QED
        BY <1>5, <2>7, <4>1, <4>2 DEF OnTheBooks
    <3> QED
      BY <3>1, <3>2
  <2>8. Kept'
    BY <1>9, <2>7 DEF Kept
  <2> QED
    BY <1>6, <1>7, <2>6, <2>8 DEF Keeping
<1>11. CASE cmd.op = "Terminate"
  <2>1. Terminate(cmd.fd)
    BY <1>11 DEF DrainCommand, cmd
  <2>2. actions \in [Fd -> Res \cup {None}]
    BY <1>1 DEF TypeOK
  <2>3. Registered'
    BY <1>3, <2>1, <2>2 DEF Terminate, Keeping, Registered
  <2>4. PendingStop(1) /\ 1 \in DOMAIN commands
    BY <1>2, <1>11 DEF PendingStop
  <2>5. Stopping(cmd.res, cmd.fd) /\ KindOf[cmd.res] = "interval" /\ held[cmd.res] = None
    BY <1>2, <2>4 DEF Stopping, Keeping, Stops
  <2>6. file[cmd.fd] = cmd.res
    BY <1>3, <2>5 DEF Keeping, Kept, Wanted, OnTheBooks
  <2>7. ASSUME NEW q \in Res, NEW g \in Fd, Wanted(q, g)' PROVE OnTheBooks(q, g)'
    <3>1. OnTheBooks(q, g)
      BY <1>9, <2>7
    <3>2. g # cmd.fd
      <4>1. SUFFICES ASSUME g = cmd.fd PROVE FALSE
        OBVIOUS
      <4>2. q = cmd.res
        BY <2>6, <3>1, <4>1 DEF OnTheBooks
      <4>3. held'[q] = None /\ g # None
        BY <1>1, <2>5, <4>2, ResAssumption
      <4>4. Stopping(q, g)'
        BY <2>7, <4>3 DEF Wanted
      <4>5. PICK i \in DOMAIN commands : i # 1 /\ PendingStop(i) /\ commands[i].res = q
        BY <1>8, <4>4
      <4> QED
        BY <1>2, <2>4, <4>2, <4>5 DEF Keeping, Stops
    <3>3. actions'[g] = actions[g]
      BY <2>1, <2>2, <3>2 DEF Terminate
    <3>4. [op |-> "Register", fd |-> g, res |-> q] # cmd
      BY <1>11
    <3> QED
      BY <1>1, <1>5, <3>1, <3>3, <3>4 DEF OnTheBooks
  <2>8. Kept'
    BY <2>7 DEF Kept
  <2> QED
    BY <1>6, <1>7, <2>3, <2>8 DEF Keeping
<1> QED
  BY <1>3, <1>10, <1>11

\* Every step keeps what clients keep.
LEMMA NextKeeping ==
  ASSUME Forgetful = {}, Books, Ticking, Keeping, [Next]_vars
  PROVE  Keeping'
<1>1. TypeOK
  BY DEF Books
<1> DEFINE Apart == UNCHANGED <<file, commands, held, created, actions, watched_fds, unwatched_fds, oneshot_fds>>
<1>2. CASE UNCHANGED vars
  BY <1>1, <1>2, KeepingQuiet
     DEF vars, kernel, client, listeners, locals, history, Keeping, HangUps
<1>3. ASSUME NEW r \in Res, Expire(r) \/ Write(r) \/ HangUp(r) PROVE Keeping'
  <2>1. Apart /\ UNCHANGED <<events, hups>> /\ hungup \subseteq hungup'
    BY <1>3 DEF Expire, Write, HangUp, client, listeners, locals
  <2>2. HangUps'
    BY <2>1 DEF Keeping, HangUps
  <2> QED
    BY <1>1, <2>1, <2>2, KeepingQuiet
<1>4. ASSUME NEW r \in Res, Stop(r) PROVE Keeping'
  BY <1>4, StopKeeping
<1>5. ASSUME NEW r \in Res, NEW f \in Fd, Create(r, f) PROVE Keeping'
  BY <1>5, CreateKeeping
<1>6. CASE ExpireTick \/ Wake \/ HandleMessage
  <2>1. Apart /\ UNCHANGED <<events, hups, hungup>>
    BY <1>6 DEF ExpireTick, Wake, HandleMessage, client, listeners, locals
  <2>2. HangUps'
    BY <2>1 DEF Keeping, HangUps
  <2> QED
    BY <1>1, <2>1, <2>2, KeepingQuiet
<1>7. CASE Prepare
  BY <1>7, PrepareKeeping
<1>8. CASE Wait \/ PollAgain
  <2>1. PICK reported \in SUBSET Ready : Report(reported)
    BY <1>8 DEF Wait, PollAgain
  <2>2. Apart /\ hungup' = hungup
    BY <1>8, <2>1 DEF Wait, PollAgain, Report, client, listeners
  <2>3. HangUps'
    BY <2>1, <2>2 DEF Report, HangUps
  <2> QED
    BY <1>1, <2>2, <2>3, KeepingQuiet
<1>9. CASE CollectTick \/ CollectWake
  <2>1. Apart /\ UNCHANGED <<hups, hungup>> /\ events \ {TICK, WAKE} \subseteq events'
    BY <1>9 DEF CollectTick, CollectWake, client, listeners
  <2>2. TICK \notin hups /\ WAKE \notin hups
    BY <1>1, ResAssumption DEF TypeOK, TICK, WAKE
  <2>3. HangUps'
    BY <2>1, <2>2 DEF Keeping, HangUps
  <2> QED
    BY <1>1, <2>1, <2>3, KeepingQuiet
<1>10. CASE DrainEnd \/ Send
  <2>1. Apart /\ UNCHANGED <<events, hups, hungup>>
    BY <1>10 DEF DrainEnd, Send, kernel, client, listeners
  <2>2. HangUps'
    BY <2>1 DEF Keeping, HangUps
  <2> QED
    BY <1>1, <2>1, <2>2, KeepingQuiet
<1>11. CASE DrainCommand
  BY <1>11, DrainKeeping
<1>12. ASSUME NEW f \in Fd, CollectHangUp(f) \/ CollectData(f) PROVE Keeping'
  BY <1>12, HangUpKeeping, DataKeeping
<1> QED
  BY <1>2, <1>3, <1>4, <1>5, <1>6, <1>7, <1>8, <1>9, <1>10, <1>11, <1>12 DEF Next, LoopStep

\* At the start nobody wants anything.
LEMMA InitKeeping == Init => Keeping
<1> SUFFICES ASSUME Init PROVE Keeping
  OBVIOUS
<1>1. DOMAIN commands = {} /\ held = [r \in Res |-> None] /\ hups = {} /\ actions = [f \in Fd |-> None]
      /\ watched_fds = {} /\ unwatched_fds = {} /\ oneshot_fds = {}
  BY DEF Init
<1>2. Stops /\ Registered /\ HangUps
  BY <1>1 DEF Stops, PendingStop, Registered, HangUps
<1>3. \A r \in Res, f \in Fd : ~Wanted(r, f)
  BY <1>1, ResAssumption DEF Wanted, Stopping
<1> QED
  BY <1>2, <1>3 DEF Keeping, Kept

\* What clients keep, always.
LEMMA SpecKeeping == ASSUME Forgetful = {} PROVE Spec => []Keeping
<1>1. Init => Keeping
  BY InitKeeping
<1>2. Books /\ Ticking /\ Keeping /\ [Next]_vars => Keeping'
  BY NextKeeping
<1> QED
  BY <1>1, <1>2, SpecBooks, SpecTicking, PTL DEF Spec

\* Clients that stop only the intervals they still hold (no plugin surface, which
\* stops every number it was ever given) keep what is theirs, however numbers are
\* reused: an interval stays open and watched until its client stops it, and a stop
\* in the channel never hits another's descriptor.
THEOREM ClientsKeepWhatIsTheirs == ASSUME Forgetful = {} PROVE Spec => []ClientsKeepTheirs
<1>1. Books /\ Keeping => ClientsKeepTheirs
  <2> SUFFICES ASSUME Books, Keeping PROVE RepeatingKeepsTicking /\ StopHitsItsTarget
    BY DEF ClientsKeepTheirs
  <2>1. ASSUME NEW r \in Res, KindOf[r] = "interval", held[r] # None
        PROVE  /\ file[held[r]] = r
               /\ \/ actions[held[r]] = r /\ held[r] \in watched_fds \cup unwatched_fds
                  \/ [op |-> "Register", fd |-> held[r], res |-> r] \in Range(commands)
    <3>1. held[r] \in Fd
      BY <2>1 DEF Books, TypeOK
    <3>2. OnTheBooks(r, held[r])
      BY <2>1, <3>1 DEF Keeping, Kept, Wanted
    <3>3. r # None
      BY ResAssumption
    <3> QED
      BY <3>1, <3>2, <3>3 DEF OnTheBooks, Keeping, Registered
  <2>2. ASSUME NEW i \in DOMAIN commands, commands[i].op = "Terminate"
        PROVE  file[commands[i].fd] = commands[i].res
    <3>1. commands[i].fd \in Fd /\ commands[i].res \in Res
      BY CommandTyped DEF Books
    <3>2. PendingStop(i)
      BY <2>2 DEF PendingStop
    <3>3. KindOf[commands[i].res] = "interval" /\ Stopping(commands[i].res, commands[i].fd)
      BY <3>2 DEF Keeping, Stops, Stopping
    <3>4. OnTheBooks(commands[i].res, commands[i].fd)
      BY <3>1, <3>3 DEF Keeping, Kept, Wanted
    <3> QED
      BY <3>4 DEF OnTheBooks
  <2> QED
    BY <2>1, <2>2 DEF RepeatingKeepsTicking, StopHitsItsTarget
<1> QED
  BY <1>1, SpecBooks, SpecKeeping, PTL

----------------------------------------------------------------------------
(***************************************************************************)
(* What subscribers hear of                                                *)
(***************************************************************************)
\* Pipes are not closed, neither by hang-up nor by a client.
PipesStay == Forgetful = {} /\ MayHangUp = {}

\* What the application has been sent or will be.
Messages == Range(inbox) \cup {batch}

\* An action for a pipe on its way is for what is behind the descriptor, and so
\* what a subscriber reads is its own pipe: one nobody has heard of stays readable.
Truthful ==
  /\ hungup = {} /\ unseen \subseteq created
  /\ \A f \in removed_fds : file[f] \notin Pipe
  /\ \A m \in Messages : \A a \in Range(m) : a.res \in Pipe => file[a.fd] = a.res
  /\ \A f \in Fd : file[f] \in unseen => file[f] \in readable

Expecting(f) == f \in watched_fds /\ KindOf[file[f]] = "signal" /\ file[f] \in unseen

Told(f) == \E m \in Messages : [fd |-> f, res |-> file[f]] \in Range(m)

Coming(f) == file[f] \in edges \/ f \in events \/ Told(f)

NothingLost == \A f \in Fd : Expecting(f) => Coming(f)

Hearing == Truthful /\ NothingLost

\* Steps that change no message, and stop watching nothing but timers.
LEMMA HearingQuiet ==
  ASSUME Hearing, UNCHANGED <<file, hungup, inbox, batch, unseen>>,
         created \subseteq created', readable \cap Pipe \subseteq readable', unseen \subseteq Pipe,
         edges \subseteq edges', events \cap Fd \subseteq events',
         watched_fds' \subseteq watched_fds,
         \A f \in removed_fds' : f \in removed_fds \/ file[f] \notin Pipe
  PROVE  Hearing'
<1>1. Truthful'
  BY DEF Hearing, Truthful, Messages
<1>2. ASSUME NEW f \in Fd, Expecting(f)' PROVE Coming(f)'
  <2>1. Expecting(f)
    BY <1>2 DEF Expecting
  <2>2. Coming(f)
    BY <2>1 DEF Hearing, NothingLost
  <2> QED
    BY <2>2 DEF Coming, Told, Messages
<1> QED
  BY <1>1, <1>2 DEF Hearing, NothingLost

\* A write leaves an edge.
LEMMA WriteHearing ==
  ASSUME Books, Ticking, Hearing, NEW r \in Res, Write(r)
  PROVE  Hearing'
<1>1. /\ r \in Pipe /\ r \in Range(file) /\ r # None
      /\ readable' = readable \cup {r} /\ edges' = edges \cup Edge(r) /\ unseen' = unseen \cup {r}
      /\ UNCHANGED <<file, hungup, inbox, batch, created, removed_fds, watched_fds, events>>
  BY ResAssumption DEF Write, client, listeners, locals
<1>2. Truthful'
  BY <1>1 DEF Hearing, Truthful, Messages, Ticking, Placed
<1>3. ASSUME NEW f \in Fd, Expecting(f)' PROVE Coming(f)'
  <2>1. CASE file[f] = r
    <3>1. r \in edges'
      BY <1>1, <1>3, <2>1 DEF Edge, Expecting
    <3> QED
      BY <1>1, <2>1, <3>1 DEF Coming
  <2>2. CASE file[f] # r
    <3>1. Expecting(f)
      BY <1>1, <1>3, <2>2 DEF Expecting
    <3>2. Coming(f)
      BY <3>1 DEF Hearing, NothingLost
    <3> QED
      BY <1>1, <3>2 DEF Coming, Told, Messages
  <2> QED
    BY <2>1, <2>2
<1> QED
  BY <1>2, <1>3 DEF Hearing, NothingLost

\* A subscriber reads its own pipe, and with it has seen what was written.
LEMMA HandleHearing ==
  ASSUME Books, Hearing, HandleMessage
  PROVE  Hearing'
<1> DEFINE m0 == Head(inbox)
<1>1. /\ readable' = readable \ ReadBy(m0)
      /\ unseen' = unseen \ {a.res : a \in Range(m0)}
      /\ UNCHANGED <<file, hungup, edges, batch, created, removed_fds, watched_fds, events>>
  BY DEF HandleMessage, listeners, locals
<1>2. m0 \in Range(inbox) /\ Range(inbox') \subseteq Range(inbox)
      /\ \A m \in Range(inbox) : m = m0 \/ m \in Range(inbox')
  <2>1. inbox \in Seq(Seq(Action)) /\ inbox # <<>> /\ inbox' = Tail(inbox)
    BY DEF HandleMessage, Books, TypeOK
  <2>2. /\ DOMAIN inbox = 1..Len(inbox) /\ Len(inbox) \in Nat \ {0} /\ m0 = inbox[1]
        /\ DOMAIN inbox' = 1..(Len(inbox) - 1)
        /\ \A i \in DOMAIN inbox' : i + 1 \in DOMAIN inbox /\ inbox'[i] = inbox[i + 1]
    BY <2>1
  <2>3. ASSUME NEW i \in DOMAIN inbox, i # 1 PROVE inbox[i] \in Range(inbox')
    <3>1. i - 1 \in DOMAIN inbox' /\ (i - 1) + 1 = i
      BY <2>2, <2>3
    <3>2. inbox'[i - 1] = inbox[i]
      BY <2>2, <3>1
    <3> QED
      BY <3>1, <3>2 DEF Range
  <2> HIDE DEF m0
  <2>4. \A m \in Range(inbox) : m = m0 \/ m \in Range(inbox')
    BY <2>2, <2>3 DEF Range
  <2> QED
    BY <2>2, <2>4 DEF Range
<1> HIDE DEF m0
<1>3. \A a \in Range(m0) : a.res \in Pipe => file[a.fd] = a.res
  BY <1>2 DEF Hearing, Truthful, Messages
<1>4. unseen \subseteq Pipe
  BY DEF Books, TypeOK
<1>5. ASSUME NEW f \in Fd, file[f] \in unseen' PROVE file[f] \in readable'
  <2>1. file[f] \in readable
    BY <1>1, <1>5 DEF Hearing, Truthful
  <2>2. file[f] \notin ReadBy(m0)
    BY <1>1, <1>3, <1>5 DEF ReadBy
  <2> QED
    BY <1>1, <2>1, <2>2
<1>6. Truthful'
  BY <1>1, <1>2, <1>5 DEF Hearing, Truthful, Messages
<1>7. ASSUME NEW f \in Fd, Expecting(f)' PROVE Coming(f)'
  <2>1. Expecting(f) /\ file[f] \in unseen'
    BY <1>1, <1>7 DEF Expecting
  <2>2. Coming(f)
    BY <2>1 DEF Hearing, NothingLost
  <2>3. [fd |-> f, res |-> file[f]] \notin Range(m0)
    <3> DEFINE a == [fd |-> f, res |-> file[f]]
    <3>1. a.res = file[f]
      OBVIOUS
    <3> HIDE DEF a
    <3>2. a \notin Range(m0)
      BY <1>1, <2>1, <3>1
    <3> QED
      BY <3>2 DEF a
  <2>4. Told(f) => Told(f)'
    BY <1>1, <1>2, <2>3 DEF Told, Messages
  <2> QED
    BY <1>1, <2>2, <2>4 DEF Coming
<1> QED
  BY <1>6, <1>7 DEF Hearing, NothingLost

\* The top of the loop closes no pipe, and a pipe that is added to the epoll set
\* reports what is in it.
LEMMA PrepareHearing ==
  ASSUME Books, Ticking, Keeping, Hearing, Prepare
  PROVE  Hearing'
<1> DEFINE kept == [f \in Fd |-> IF f \in Closing THEN None ELSE file[f]]
           new  == {f \in unwatched_fds : kept[f] # None}
<1>1. /\ file' = kept
      /\ edges' = (edges \cap Range(kept)) \cup UNION {Edge(kept[f]) : f \in new}
      /\ readable' = readable \cap Range(kept)
      /\ watched_fds' = watched_fds \cup new /\ removed_fds' = {}
      /\ UNCHANGED <<hungup, created, batch, inbox, events, unseen>>
  BY DEF Prepare, client, history
<1>2. Closing = removed_fds
  BY DEF Closing, Books, InterestExact
<1>3. \A f \in Fd : kept[f] = IF f \in removed_fds THEN None ELSE file[f]
  BY <1>2
<1>4. \A f \in Fd : kept[f] \in Range(kept)
  BY DEF Range
<1>5. unseen \subseteq Pipe /\ None \notin Pipe
  BY ResAssumption DEF Books, TypeOK, Pipe
<1> HIDE DEF kept
<1>6. \A f \in Fd : file[f] \in Pipe => kept[f] = file[f]
  BY <1>3 DEF Hearing, Truthful
<1>7. ASSUME NEW m \in Messages', NEW a \in Range(m), a.res \in Pipe PROVE file'[a.fd] = a.res
  <2>1. file[a.fd] = a.res
    BY <1>1, <1>7 DEF Messages, Hearing, Truthful
  <2>2. a.fd \in Fd
    <3>1. m \in Seq(Action)
      BY <1>1 DEF Messages, Books, TypeOK, Range
    <3>2. a \in Action
      BY <3>1 DEF Range
    <3> QED
      BY <3>2 DEF Action
  <2> QED
    BY <1>1, <1>6, <1>7, <2>1, <2>2
<1>8. \A f \in Fd : file'[f] \in unseen' => file'[f] \in readable'
  BY <1>1, <1>3, <1>4, <1>5 DEF Hearing, Truthful
<1>9. Truthful'
  BY <1>1, <1>7, <1>8 DEF Hearing, Truthful
<1>10. ASSUME NEW f \in Fd, Expecting(f)' PROVE Coming(f)'
  <2>1. file'[f] = file[f] /\ kept[f] = file[f]
    BY <1>1, <1>3, <1>5, <1>10 DEF Expecting
  <2>2. CASE f \in new
    <3>1. file'[f] \in Edge(kept[f])
      BY <1>10, <2>1 DEF Expecting, Edge
    <3>2. file'[f] \in edges'
      BY <1>1, <2>2, <3>1
    <3> QED
      BY <3>2 DEF Coming
  <2>3. CASE f \notin new
    <3>1. Expecting(f)
      BY <1>1, <1>10, <2>1, <2>3 DEF Expecting
    <3>2. Coming(f)
      BY <3>1 DEF Hearing, NothingLost
    <3>3. file[f] \in edges => file'[f] \in edges'
      BY <1>1, <1>4, <2>1
    <3>4. Told(f) => Told(f)'
      BY <1>1, <2>1 DEF Told, Messages
    <3> QED
      BY <1>1, <3>2, <3>3, <3>4 DEF Coming
  <2> QED
    BY <2>2, <2>3
<1> QED
  BY <1>9, <1>10 DEF Hearing, NothingLost

\* epoll takes the edge of what it reports, and of nothing else.
LEMMA ReportHearing ==
  ASSUME Books, Ticking, Hearing, NEW reported \in SUBSET Ready, Report(reported), events = {},
         UNCHANGED <<created, inbox, batch, unseen, removed_fds, watched_fds>>
  PROVE  Hearing'
<1>1. /\ events' = reported
      /\ edges' = edges \ {file[f] : f \in reported \ {WAKE, TICK}}
      /\ UNCHANGED <<file, readable, hungup>>
  BY DEF Report
<1>2. reported \ {WAKE, TICK} \subseteq Fd
  BY DEF Ready, Books, TypeOK
<1>3. Truthful'
  BY <1>1 DEF Hearing, Truthful, Messages
<1>4. ASSUME NEW f \in Fd, Expecting(f)' PROVE Coming(f)'
  <2>1. Expecting(f)
    BY <1>1, <1>4 DEF Expecting
  <2>2. Coming(f)
    BY <2>1 DEF Hearing, NothingLost
  <2>3. CASE file[f] \in edges
    <3>1. Open(f)
      BY <2>1, ResAssumption DEF Expecting, Books, TypeOK, Pipe, Open
    <3>2. \A g \in reported \ {WAKE, TICK} : file[g] = file[f] => g = f
      BY <1>2, <3>1 DEF Ticking, Placed, Open
    <3>3. file[f] \in edges' \/ f \in events'
      BY <1>1, <2>3, <3>2
    <3> QED
      BY <1>1, <3>3 DEF Coming
  <2>4. CASE Told(f)
    BY <1>1, <2>4 DEF Coming, Told, Messages
  <2> QED
    BY <2>2, <2>3, <2>4 DEF Coming
<1> QED
  BY <1>3, <1>4 DEF Hearing, NothingLost

\* The event of a watched descriptor becomes an action in the batch.
LEMMA DataHearing ==
  ASSUME Books, Keeping, Hearing, NEW f \in Fd, CollectData(f)
  PROVE  Hearing'
<1> DEFINE a == [fd |-> f, res |-> actions[f]]
<1>1. /\ UNCHANGED <<file, hungup, edges, inbox, created, unseen>>
      /\ events' = events \ {f}
      /\ readable' = IF file[f] \in Timer THEN readable \ {file[f]} ELSE readable
  BY DEF CollectData, TimerRead, client
<1>2. \/ batch' = batch /\ (actions[f] = None \/ a \in Range(batch))
      \/ batch' = Append(batch, a) /\ actions[f] # None
  BY DEF CollectData
<1>3. a.fd = f /\ a.res = actions[f]
  OBVIOUS
<1> HIDE DEF a
<1>4. /\ Range(batch) \subseteq Range(batch')
      /\ Range(batch') \subseteq Range(batch) \cup {a}
      /\ actions[f] # None => a \in Range(batch')
  <2>1. CASE batch' = batch
    BY <1>2, <2>1 DEF Range
  <2>2. CASE batch' = Append(batch, a)
    <3>1. batch \in Seq(Action)
      BY DEF Books, TypeOK
    <3>2. /\ DOMAIN batch' = 1..(Len(batch) + 1) /\ DOMAIN batch = 1..Len(batch) /\ Len(batch) \in Nat
          /\ \A i \in DOMAIN batch : batch'[i] = batch[i]
          /\ batch'[Len(batch) + 1] = a
      BY <2>2, <3>1
    <3> QED
      BY <3>2 DEF Range
  <2> QED
    BY <1>2, <2>1, <2>2
<1>5. actions[f] # None => file[f] = actions[f]
  BY DEF Books, ActionIsForFile
<1>6. unseen \subseteq Pipe /\ Pipe \cap Timer = {} /\ None \notin Pipe
  BY ResAssumption DEF Books, TypeOK, Pipe
<1>7. watched_fds' \subseteq watched_fds /\ \A g \in removed_fds' : g \in removed_fds \/ file[g] \notin Pipe
  <2>1. CASE f \in oneshot_fds
    <3>1. Terminate(f)
      BY <2>1 DEF CollectData
    <3>2. actions[f] # None /\ KindOf[actions[f]] = "oneshot"
      BY <2>1 DEF Keeping, Registered
    <3>3. file[f] \notin Pipe
      BY <1>5, <3>2 DEF Pipe, Timer
    <3> QED
      BY <3>1, <3>3 DEF Terminate
  <2>2. CASE f \notin oneshot_fds
    BY <2>2 DEF CollectData, listeners
  <2> QED
    BY <2>1, <2>2
<1>8. \A b \in Range(batch') : b.res \in Pipe => file[b.fd] = b.res
  <2>1. \A b \in Range(batch) : b.res \in Pipe => file[b.fd] = b.res
    BY DEF Hearing, Truthful, Messages
  <2>2. CASE actions[f] = None
    <3>1. Range(batch') = Range(batch)
      BY <1>2, <1>4, <2>2 DEF Range
    <3> QED
      BY <2>1, <3>1
  <2>3. CASE actions[f] # None
    BY <1>3, <1>4, <1>5, <2>1, <2>3
  <2> QED
    BY <2>2, <2>3
<1>9. Truthful'
  <2>1. \A m \in Messages' : m \in Range(inbox) \/ m = batch'
    BY <1>1 DEF Messages
  <2>2. \A m \in Messages' : \A b \in Range(m) : b.res \in Pipe => file'[b.fd] = b.res
    BY <1>1, <1>8, <2>1 DEF Hearing, Truthful, Messages
  <2>3. \A g \in Fd : file'[g] \in unseen' => file'[g] \in readable'
    BY <1>1, <1>6 DEF Hearing, Truthful
  <2> QED
    BY <1>1, <1>7, <2>2, <2>3 DEF Hearing, Truthful
<1>10. ASSUME NEW g \in Fd, Expecting(g)' PROVE Coming(g)'
  <2>1. Expecting(g)
    BY <1>1, <1>7, <1>10 DEF Expecting
  <2>2. CASE g = f
    <3>1. actions[f] # None
      BY <2>1, <2>2 DEF Expecting, Keeping, Registered
    <3>2. a = [fd |-> f, res |-> file[f]] /\ a \in Range(batch')
      BY <1>4, <1>5, <3>1 DEF a
    <3>3. batch' \in Messages'
      BY DEF Messages
    <3>4. Told(g)'
      BY <1>1, <2>2, <3>2, <3>3 DEF Told
    <3> QED
      BY <3>4 DEF Coming
  <2>3. CASE g # f
    <3>1. Coming(g)
      BY <2>1 DEF Hearing, NothingLost
    <3>2. ASSUME Told(g) PROVE Told(g)'
      <4>1. PICK m \in Messages : [fd |-> g, res |-> file[g]] \in Range(m)
        BY <3>2 DEF Told
      <4>2. CASE m \in Range(inbox)
        BY <1>1, <4>1, <4>2 DEF Told, Messages
      <4>3. CASE m = batch
        <5>1. [fd |-> g, res |-> file[g]] \in Range(batch') /\ batch' \in Messages'
          BY <1>4, <4>1, <4>3 DEF Messages
        <5> QED
          BY <1>1, <5>1 DEF Told
      <4> QED
        BY <4>1, <4>2, <4>3 DEF Messages
    <3> QED
      BY <1>1, <2>3, <3>1, <3>2 DEF Coming
  <2> QED
    BY <2>2, <2>3
<1> QED
  BY <1>9, <1>10 DEF Hearing, NothingLost

\* What a concatenation holds.
LEMMA RangeOfConcat ==
  ASSUME NEW S, NEW s \in Seq(S), NEW t \in Seq(S)
  PROVE  Range(s \o t) = Range(s) \cup Range(t)
<1>1. /\ DOMAIN s = 1..Len(s) /\ DOMAIN t = 1..Len(t) /\ Len(s) \in Nat /\ Len(t) \in Nat
      /\ DOMAIN (s \o t) = 1..(Len(s) + Len(t))
      /\ \A i \in 1..(Len(s) + Len(t)) : (s \o t)[i] = IF i <= Len(s) THEN s[i] ELSE t[i - Len(s)]
  OBVIOUS
<1>2. ASSUME NEW x \in Range(s) \cup Range(t) PROVE x \in Range(s \o t)
  <2>1. CASE x \in Range(s)
    BY <1>1, <2>1 DEF Range
  <2>2. CASE x \in Range(t)
    <3>1. PICK i \in DOMAIN t : t[i] = x
      BY <2>2 DEF Range
    <3>2. Len(s) + i \in 1..(Len(s) + Len(t)) /\ ~(Len(s) + i <= Len(s)) /\ (Len(s) + i) - Len(s) = i
      BY <1>1
    <3>3. (s \o t)[Len(s) + i] = x
      BY <1>1, <3>1, <3>2
    <3> QED
      BY <1>1, <3>2, <3>3 DEF Range
  <2> QED
    BY <2>1, <2>2
<1>3. ASSUME NEW x \in Range(s \o t) PROVE x \in Range(s) \cup Range(t)
  <2>1. PICK i \in 1..(Len(s) + Len(t)) : x = (s \o t)[i]
    BY <1>1, <1>3 DEF Range
  <2>2. CASE i <= Len(s)
    BY <1>1, <2>1, <2>2 DEF Range
  <2>3. CASE ~(i <= Len(s))
    <3>1. i - Len(s) \in DOMAIN t /\ x = t[i - Len(s)]
      BY <1>1, <2>1, <2>3
    <3> QED
      BY <3>1 DEF Range
  <2> QED
    BY <2>2, <2>3
<1> QED
  BY <1>2, <1>3

\* The batch becomes a message.
LEMMA SendHearing ==
  ASSUME Books, Hearing, Send
  PROVE  Hearing'
<1> DEFINE ticks   == IF tick THEN <<<<>>>> ELSE <<>>
           batches == IF batch # <<>> THEN <<batch>> ELSE <<>>
<1>1. /\ inbox' = inbox \o ticks \o batches /\ batch' = <<>>
      /\ UNCHANGED <<file, readable, hungup, edges, created, unseen, removed_fds, watched_fds, events>>
  BY DEF Send, kernel, listeners, history
<1>2. inbox \in Seq(Seq(Action)) /\ batch \in Seq(Action)
  BY DEF Books, TypeOK
<1>3. Range(inbox') = Range(inbox) \cup Range(ticks) \cup Range(batches)
  <2>1. ticks \in Seq(Seq(Action)) /\ batches \in Seq(Seq(Action))
    BY <1>2
  <2> HIDE DEF ticks, batches
  <2>2. Range(inbox \o ticks) = Range(inbox) \cup Range(ticks)
    BY <1>2, <2>1, RangeOfConcat
  <2>3. inbox \o ticks \in Seq(Seq(Action))
    BY <1>2, <2>1
  <2>4. Range((inbox \o ticks) \o batches) = Range(inbox \o ticks) \cup Range(batches)
    <3> DEFINE front == inbox \o ticks
    <3>1. front \in Seq(Seq(Action))
      BY <2>3
    <3> HIDE DEF front
    <3>2. Range(front \o batches) = Range(front) \cup Range(batches)
      BY <2>1, <3>1, RangeOfConcat
    <3> QED
      BY <3>2 DEF front
  <2> QED
    BY <1>1, <2>2, <2>4
<1>4. Range(ticks) \subseteq {<<>>} /\ Range(batches) \subseteq {batch} /\ (batch # <<>> => batch \in Range(batches))
  <2>1. \A e : Range(<<e>>) = {e}
    BY DEF Range
  <2>2. Range(<<>>) = {}
    BY DEF Range
  <2> QED
    BY <2>1, <2>2
<1> HIDE DEF ticks, batches
<1>5. Messages' \subseteq Messages \cup {<<>>} /\ \A m \in Messages : m \in Messages' \/ m = <<>>
  BY <1>1, <1>3, <1>4 DEF Messages
<1>6. Range(<<>>) = {}
  BY DEF Range
<1>7. Truthful'
  BY <1>1, <1>5, <1>6 DEF Hearing, Truthful
<1>8. ASSUME NEW f \in Fd, Expecting(f)' PROVE Coming(f)'
  <2>1. Expecting(f)
    BY <1>1, <1>8 DEF Expecting
  <2>2. Coming(f)
    BY <2>1 DEF Hearing, NothingLost
  <2>3. Told(f) => Told(f)'
    BY <1>1, <1>5, <1>6 DEF Told
  <2> QED
    BY <1>1, <2>2, <2>3 DEF Coming
<1> QED
  BY <1>7, <1>8 DEF Hearing, NothingLost

\* A new number is in no message and in no book.
LEMMA CreateHearing ==
  ASSUME Books, Hearing, NEW r \in Res, NEW f \in Fd, Create(r, f)
  PROVE  Hearing'
<1>1. /\ ~Open(f) /\ r \notin created /\ created' = created \cup {r}
      /\ file' = [file EXCEPT ![f] = r]
      /\ UNCHANGED <<readable, hungup, edges, inbox, batch, unseen, removed_fds, watched_fds, events>>
  BY DEF Create, listeners, locals, history
<1>2. file \in [Fd -> Res \cup {None}] /\ None \notin Pipe
  BY ResAssumption DEF Books, TypeOK, Pipe
<1>3. f \notin watched_fds \cup removed_fds
  BY <1>1 DEF Books, InterestExact
<1>4. \A g \in Fd : g # f => file'[g] = file[g]
  BY <1>1, <1>2
<1>5. ASSUME NEW m \in Messages', NEW a \in Range(m), a.res \in Pipe PROVE file'[a.fd] = a.res
  <2>1. m \in Messages
    BY <1>1 DEF Messages
  <2>2. file[a.fd] = a.res
    BY <1>5, <2>1 DEF Hearing, Truthful
  <2>3. a.fd \in Fd
    <3>1. m \in Seq(Action)
      BY <2>1 DEF Messages, Books, TypeOK, Range
    <3>2. a \in Action
      BY <3>1 DEF Range
    <3> QED
      BY <3>2 DEF Action
  <2>4. a.fd # f
    BY <1>1, <1>2, <1>5, <2>2 DEF Open
  <2> QED
    BY <1>4, <2>2, <2>3, <2>4
<1>6. ASSUME NEW g \in Fd, file'[g] \in unseen' PROVE file'[g] \in readable'
  <2>1. r \notin unseen
    BY <1>1 DEF Hearing, Truthful
  <2>2. g # f
    BY <1>1, <1>2, <1>6, <2>1
  <2> QED
    BY <1>1, <1>4, <1>6, <2>2 DEF Hearing, Truthful
<1>7. \A g \in removed_fds' : file'[g] \notin Pipe
  BY <1>1, <1>3, <1>4 DEF Hearing, Truthful, Books, TypeOK
<1>8. Truthful'
  BY <1>1, <1>5, <1>6, <1>7 DEF Hearing, Truthful
<1>9. ASSUME NEW g \in Fd, Expecting(g)' PROVE Coming(g)'
  <2>1. g # f /\ file'[g] = file[g]
    BY <1>1, <1>3, <1>4, <1>9 DEF Expecting
  <2>2. Expecting(g)
    BY <1>1, <1>9, <2>1 DEF Expecting
  <2>3. Coming(g)
    BY <2>2 DEF Hearing, NothingLost
  <2> QED
    BY <1>1, <2>1, <2>3 DEF Coming, Told, Messages
<1> QED
  BY <1>8, <1>9 DEF Hearing, NothingLost

\* Only an interval is stopped.
LEMMA DrainHearing ==
  ASSUME Books, Keeping, Hearing, DrainCommand
  PROVE  Hearing'
<1> DEFINE cmd == Head(commands)
<1>1. /\ IF cmd.op = "Register" THEN RegisterFd(cmd.fd, cmd.res) ELSE Terminate(cmd.fd)
      /\ UNCHANGED <<file, hungup, inbox, batch, unseen, created, readable, edges, events>>
  BY DEF DrainCommand, kernel, client, locals, history
<1>2. 1 \in DOMAIN commands /\ cmd = commands[1]
  BY DEF DrainCommand, Books, TypeOK
<1> HIDE DEF cmd
<1>3. cmd.fd \in Fd /\ cmd.res \in Res /\ cmd.op \in {"Register", "Terminate"}
  <2>1. cmd \in Command
    BY <1>2 DEF Books, TypeOK
  <2> QED
    BY <2>1 DEF Command
<1>4. watched_fds' \subseteq watched_fds /\ \A g \in removed_fds' : g \in removed_fds \/ file[g] \notin Pipe
  <2>1. CASE cmd.op = "Register"
    BY <1>1, <2>1 DEF RegisterFd
  <2>2. CASE cmd.op = "Terminate"
    <3>1. Terminate(cmd.fd)
      BY <1>1, <2>2
    <3>2. PendingStop(1)
      BY <1>2, <2>2 DEF PendingStop
    <3>3. Stopping(cmd.res, cmd.fd) /\ KindOf[cmd.res] = "interval"
      BY <1>2, <3>2 DEF Stopping, Keeping, Stops
    <3>4. file[cmd.fd] = cmd.res
      BY <1>3, <3>3 DEF Keeping, Kept, Wanted, OnTheBooks
    <3>5. file[cmd.fd] \notin Pipe
      BY <3>3, <3>4 DEF Pipe, Timer
    <3> QED
      BY <3>1, <3>5 DEF Terminate
  <2> QED
    BY <1>3, <2>1, <2>2
<1> QED
  BY <1>1, <1>4, HearingQuiet DEF Books, TypeOK

\* Every step keeps what is written on its way to the subscriber.
LEMMA NextHearing ==
  ASSUME PipesStay, Books, Ticking, Keeping, Hearing, [Next]_vars
  PROVE  Hearing'
<1>1. unseen \subseteq Pipe /\ hups = {}
  BY DEF Books, TypeOK, Keeping, HangUps, Hearing, Truthful
<1> DEFINE Still == UNCHANGED <<file, hungup, inbox, batch, unseen, created, edges, watched_fds, removed_fds>>
<1>2. CASE UNCHANGED vars
  BY <1>1, <1>2, HearingQuiet DEF vars, kernel, client, listeners, locals, history
<1>3. ASSUME NEW r \in Res, Expire(r) PROVE Hearing'
  <2>1. Still /\ readable \subseteq readable' /\ UNCHANGED events
    BY <1>3 DEF Expire, client, listeners, locals
  <2> QED
    BY <1>1, <2>1, HearingQuiet
<1>4. ASSUME NEW r \in Res, Write(r) PROVE Hearing'
  BY <1>4, WriteHearing
<1>5. ASSUME NEW r \in Res, HangUp(r) PROVE Hearing'
  BY <1>5 DEF HangUp, PipesStay
<1>6. ASSUME NEW r \in Res, Stop(r) PROVE Hearing'
  <2>1. Still /\ UNCHANGED <<readable, events>>
    BY <1>6 DEF Stop, kernel, listeners, locals, history
  <2> QED
    BY <1>1, <2>1, HearingQuiet
<1>7. ASSUME NEW r \in Res, NEW f \in Fd, Create(r, f) PROVE Hearing'
  BY <1>7, CreateHearing
<1>8. CASE ExpireTick \/ Wake
  <2>1. Still /\ UNCHANGED <<readable, events>>
    BY <1>8 DEF ExpireTick, Wake, client, listeners, locals, history
  <2> QED
    BY <1>1, <2>1, HearingQuiet
<1>9. CASE HandleMessage
  BY <1>9, HandleHearing
<1>10. CASE Prepare
  BY <1>10, PrepareHearing
<1>11. CASE Wait \/ PollAgain
  <2>1. PICK reported \in SUBSET Ready : Report(reported)
    BY <1>11 DEF Wait, PollAgain
  <2>2. events = {}
    BY <1>11 DEF Wait, PollAgain, Ticking, Placed
  <2>3. UNCHANGED <<created, inbox, batch, unseen, removed_fds, watched_fds>>
    BY <1>11 DEF Wait, PollAgain, client, listeners, history
  <2> QED
    BY <2>1, <2>2, <2>3, ReportHearing
<1>12. CASE CollectTick \/ CollectWake \/ DrainEnd
  <2>1. Still /\ UNCHANGED readable /\ events \ {TICK, WAKE} \subseteq events'
    BY <1>12 DEF CollectTick, CollectWake, DrainEnd, kernel, client, listeners, history
  <2>2. TICK \notin Fd /\ WAKE \notin Fd
    BY ResAssumption DEF TICK, WAKE
  <2> QED
    BY <1>1, <2>1, <2>2, HearingQuiet
<1>13. CASE DrainCommand
  BY <1>13, DrainHearing
<1>14. ASSUME NEW f \in Fd, CollectHangUp(f) PROVE Hearing'
  BY <1>1, <1>14 DEF CollectHangUp
<1>15. ASSUME NEW f \in Fd, CollectData(f) PROVE Hearing'
  BY <1>15, DataHearing
<1>16. CASE Send
  BY <1>16, SendHearing
<1> QED
  BY <1>2, <1>3, <1>4, <1>5, <1>6, <1>7, <1>8, <1>9, <1>10, <1>11, <1>12, <1>13, <1>14, <1>15, <1>16
     DEF Next, LoopStep

\* As long as pipes stay open (no writer goes away, and no plugin surface stops
\* what it does not have), no notification is lost: what is written and not yet
\* heard of is still to be reported by epoll, or an event, a batch or a message
\* that tells the subscriber is on the way, for any interleaving of the writers
\* with the two threads and any reuse of numbers by timers.
THEOREM NoNotificationIsLost == ASSUME PipesStay PROVE Spec => []NoLostSignal
<1>1. Init => Hearing
  <2> SUFFICES ASSUME Init PROVE Hearing
    OBVIOUS
  <2>1. hungup = {} /\ unseen = {} /\ removed_fds = {} /\ watched_fds = {} /\ inbox = <<>> /\ batch = <<>>
    BY DEF Init
  <2>2. \A m \in Messages : Range(m) = {}
    BY <2>1 DEF Messages, Range
  <2> QED
    BY <2>1, <2>2 DEF Hearing, Truthful, NothingLost, Expecting
<1>2. PipesStay /\ Books /\ Ticking /\ Keeping /\ Hearing /\ [Next]_vars => Hearing'
  BY NextHearing
<1>3. Spec => []Keeping
  BY SpecKeeping DEF PipesStay
<1>4. Books /\ Hearing => NoLostSignal
  <2> SUFFICES ASSUME Books, Hearing, NEW f \in watched_fds, KindOf[file[f]] = "signal", file[f] \in unseen
               PROVE  \/ Reportable(f)
                      \/ f \in events
                      \/ [fd |-> f, res |-> file[f]] \in
                           Range(batch) \cup UNION {Range(m) : m \in Range(inbox)}
    BY DEF NoLostSignal
  <2>1. f \in Fd
    BY DEF Books, TypeOK
  <2>2. Coming(f) /\ file[f] \in readable
    BY <2>1 DEF Hearing, Truthful, NothingLost, Expecting
  <2>3. CASE file[f] \in edges
    BY <2>2, <2>3 DEF Reportable
  <2>4. CASE f \in events
    BY <2>4
  <2>5. CASE Told(f)
    BY <2>5 DEF Told, Messages
  <2> QED
    BY <2>2, <2>3, <2>4, <2>5 DEF Coming
<1> QED
  BY <1>1, <1>2, <1>3, <1>4, SpecBooks, SpecTicking, PTL DEF Spec
=============================================================================
