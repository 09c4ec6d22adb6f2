--------------------------- MODULE ProgressProofs ---------------------------
(***************************************************************************)
(* What the parts of MCProgress promise, for any number of callers and     *)
(* threads, cards, access points, devices, levels of brightness and        *)
(* outputs.  Each part has an invariant of its own, which its steps keep   *)
(* and the steps of the others do not touch; together they are the         *)
(* invariant of the whole.                                                 *)
(***************************************************************************)
EXTENDS MCProgress, FiniteSetTheorems, SequenceTheorems, TLAPS

----------------------------------------------------------------------------
(***************************************************************************)
(* The services of plugins, for any set of callers, and any number of      *)
(* threads and stops                                                       *)
(***************************************************************************)
\* Whoever is about to spawn a thread has made that thread, which nobody else has.
Makers ==
  /\ \A c \in Callers : pc[c] = "spawning" => made[c] # None /\ state[made[c]] = "unspawned"
  /\ \A c, d \in Callers :
       pc[c] = "spawning" /\ pc[d] = "spawning" /\ made[c] = made[d] => c = d

\* The calls that may still make a thread have room for one each; no other thread
\* than those that were made has a state.
Room ==
  /\ IsFiniteSet(Pending)
  /\ started + Cardinality(Pending) <= MaxThreads
  /\ \A t \in Thread : t > started => state[t] = "none"

\* The inductive invariant.
Services == TypeOK /\ Makers /\ Room

----------------------------------------------------------------------------
LEMMA InitServices == Init => Services
<1> SUFFICES ASSUME Init PROVE Services
  OBVIOUS
<1> USE ServiceAssumption
<1>1. TypeOK
  <2>1. /\ running \in 0..started /\ started \in 0..MaxThreads
        /\ stops \in 0..MaxStops
    BY DEF Init, None
  <2>2. state \in [Thread -> State]
    BY DEF Init, State
  <2>3. stop \in [Thread -> BOOLEAN] /\ exited \in [Thread -> BOOLEAN]
    BY DEF Init
  <2>4. pc \in [Callers -> Where] /\ made \in [Callers -> 0..MaxThreads]
    BY DEF Init, Where, None
  <2> QED
    BY <2>1, <2>2, <2>3, <2>4 DEF Init, TypeOK, None
<1>2. Pending = {}
  BY DEF Init, Pending
<1>3. Room
  BY <1>2, FS_EmptySet DEF Init, Room
<1> QED
  BY <1>1, <1>3 DEF Init, Services, Makers

\* A call that is not among those that may still make a thread leaves them alone.
LEMMA PendingStays ==
  ASSUME Services, UNCHANGED pc
  PROVE  Pending' = Pending
  BY DEF Pending

\* A call that gives up, or makes its thread, is not among them any more.
LEMMA PendingLess ==
  ASSUME Services, NEW c \in Pending, NEW where \in {"idle", "spawning"}, Goto(c, where)
  PROVE  /\ IsFiniteSet(Pending')
         /\ Cardinality(Pending') = Cardinality(Pending) - 1
         /\ Cardinality(Pending) \in Nat
<1>1. Pending' = Pending \ {c}
  BY DEF Services, TypeOK, Pending, Goto
<1>2. IsFiniteSet(Pending)
  BY DEF Services, Room
<1> QED
  BY <1>1, <1>2, FS_RemoveElement, FS_CardinalityType

LEMMA StartServices ==
  ASSUME Services, NEW c \in Callers, Start(c)
  PROVE  Services'
<1> USE ServiceAssumption
<1>1. UNCHANGED <<running, started, state, stop, exited, made, stops>>
  BY DEF Start, entry, threads
<1>2. CASE UNCHANGED pc /\ wanted' = TRUE
  <2>1. TypeOK'
    BY <1>1, <1>2 DEF Services, TypeOK
  <2>2. Makers'
    BY <1>1, <1>2 DEF Services, Makers
  <2>3. Room'
    BY <1>1, <1>2, PendingStays DEF Services, Room
  <2> QED
    BY <2>1, <2>2, <2>3 DEF Services
<1>3. CASE Goto(c, "awaiting") /\ UNCHANGED wanted
  <2>1. TypeOK'
    BY <1>1, <1>3 DEF Services, TypeOK, Goto, Where
  <2>2. Makers'
    BY <1>1, <1>3 DEF Services, TypeOK, Makers, Goto
  <2>3. Pending' = Pending \cup {c} /\ c \notin Pending
    BY <1>3 DEF Services, TypeOK, Pending, Goto, Start
  <2>4. /\ IsFiniteSet(Pending') /\ Cardinality(Pending') = Cardinality(Pending) + 1
        /\ Cardinality(Pending) \in Nat
    BY <2>3, FS_AddElement, FS_CardinalityType DEF Services, Room
  <2>5. started \in Nat /\ started + Cardinality(Pending) < MaxThreads
    BY DEF Services, TypeOK, Start
  <2>6. started + Cardinality(Pending') <= MaxThreads
    BY <2>4, <2>5
  <2>7. Room'
    BY <1>1, <2>4, <2>6 DEF Services, Room
  <2> QED
    BY <2>1, <2>2, <2>7 DEF Services
<1> QED
  BY <1>2, <1>3 DEF Start

\* Deadline and AwaitExit
LEMMA WaitServices ==
  ASSUME Services, NEW c \in Callers, Deadline(c) \/ AwaitExit(c)
  PROVE  Services'
<1> USE ServiceAssumption
<1>1. /\ UNCHANGED <<running, started, state, stop, exited, made, stops, wanted>>
      /\ pc[c] = "awaiting" /\ c \in Pending
  BY DEF Deadline, AwaitExit, entry, threads, Pending
<1>2. PICK where \in {"idle", "creating"} : Goto(c, where)
  BY DEF Deadline, AwaitExit
<1>3. TypeOK'
  BY <1>1, <1>2 DEF Services, TypeOK, Goto, Where
<1>4. Makers'
  BY <1>1, <1>2 DEF Services, TypeOK, Makers, Goto
<1>5. Room'
  <2>1. CASE where = "idle"
    <3>1. /\ IsFiniteSet(Pending') /\ Cardinality(Pending') = Cardinality(Pending) - 1
          /\ Cardinality(Pending) \in Nat
      BY <1>1, <1>2, <2>1, PendingLess
    <3>2. started + Cardinality(Pending') <= MaxThreads
      BY <3>1 DEF Services, TypeOK, Room
    <3> QED
      BY <1>1, <3>1, <3>2 DEF Services, Room
  <2>2. CASE where = "creating"
    <3>1. Pending' = Pending
      BY <1>1, <1>2, <2>2 DEF Services, TypeOK, Pending, Goto
    <3> QED
      BY <1>1, <3>1 DEF Services, Room
  <2> QED
    BY <2>1, <2>2
<1> QED
  BY <1>3, <1>4, <1>5 DEF Services

LEMMA InsertServices ==
  ASSUME Services, NEW c \in Callers, Insert(c)
  PROVE  Services'
<1> USE ServiceAssumption
<1>1. /\ started' = started + 1 /\ running' = started + 1
      /\ state' = [state EXCEPT ![started + 1] = "unspawned"]
      /\ made' = [made EXCEPT ![c] = started + 1]
      /\ Goto(c, "spawning") /\ c \in Pending
      /\ UNCHANGED <<stop, exited, stops, wanted>>
  BY DEF Insert, Pending
<1>2. /\ IsFiniteSet(Pending') /\ Cardinality(Pending') = Cardinality(Pending) - 1
      /\ Cardinality(Pending) \in Nat
  BY <1>1, PendingLess
<1>3. /\ started + Cardinality(Pending) <= MaxThreads /\ started \in Nat
      /\ Cardinality(Pending') \in Nat
  BY <1>2, FS_CardinalityType DEF Services, Room, TypeOK
<1>4. started + 1 \in Thread /\ started' + Cardinality(Pending') <= MaxThreads
  BY <1>1, <1>2, <1>3 DEF Thread
<1>5. state[started + 1] = "none"
  BY <1>3, <1>4 DEF Services, Room
<1>6. TypeOK'
  BY <1>1, <1>3, <1>4 DEF Services, TypeOK, Goto, Where, State, Thread, None
<1>7. \A d \in Callers \ {c} : pc'[d] = pc[d] /\ made'[d] = made[d]
  BY <1>1 DEF Services, TypeOK, Goto
<1>8. pc'[c] = "spawning" /\ made'[c] = started + 1
  BY <1>1 DEF Services, TypeOK, Goto
<1>9. \A d \in Callers \ {c} : pc[d] = "spawning" =>
        made[d] # started + 1 /\ made[d] # None /\ state'[made[d]] = "unspawned"
  BY <1>1, <1>4, <1>5 DEF Services, TypeOK, Makers, Thread, None
<1>10. Makers'
  BY <1>1, <1>3, <1>4, <1>7, <1>8, <1>9 DEF Services, TypeOK, Makers, Thread, None
<1>11. Room'
  BY <1>1, <1>2, <1>3, <1>4 DEF Services, TypeOK, Room, Thread
<1> QED
  BY <1>6, <1>10, <1>11 DEF Services

\* Spawn and SpawnFails
LEMMA SpawnServices ==
  ASSUME Services, NEW c \in Callers, Spawn(c) \/ SpawnFails(c)
  PROVE  Services'
<1> USE ServiceAssumption
<1>1. /\ Goto(c, "idle") /\ pc[c] = "spawning"
      /\ UNCHANGED <<started, stop, exited, made, stops>>
  BY DEF Spawn, SpawnFails, entry
<1>2. made[c] \in Thread /\ state[made[c]] = "unspawned"
  BY <1>1 DEF Services, TypeOK, Makers, Thread, None
<1>3. PICK s \in {"running", "failed"} :
        /\ state' = [state EXCEPT ![made[c]] = s]
        /\ running' = IF s = "failed" /\ running = made[c] THEN None ELSE running
        /\ wanted' \in BOOLEAN
  <2>1. CASE Spawn(c)
    BY <2>1, <1>2 DEF Spawn, entry, Services, TypeOK
  <2>2. CASE SpawnFails(c)
    BY <2>2 DEF SpawnFails, Removed, Services, TypeOK
  <2> QED
    BY <2>1, <2>2
<1>4. TypeOK'
  <2>1. running' \in 0..started' /\ started' \in 0..MaxThreads
    BY <1>1, <1>3 DEF Services, TypeOK, None
  <2>2. state' \in [Thread -> State]
    BY <1>2, <1>3 DEF Services, TypeOK, State
  <2>3. pc' \in [Callers -> Where]
    BY <1>1 DEF Services, TypeOK, Goto, Where
  <2>4. running' # None => state'[running'] \in {"unspawned", "running", "returned"}
    BY <1>2, <1>3, <2>1 DEF Services, TypeOK, Thread, None
  <2>5. /\ stop' \in [Thread -> BOOLEAN] /\ exited' \in [Thread -> BOOLEAN]
        /\ made' \in [Callers -> 0..MaxThreads] /\ stops' \in 0..MaxStops
    BY <1>1 DEF Services, TypeOK
  <2> QED
    BY <1>3, <2>1, <2>2, <2>3, <2>4, <2>5 DEF TypeOK
<1>5. Makers'
  <2>1. \A d \in Callers \ {c} : pc'[d] = pc[d] /\ made[d] = made'[d]
    BY <1>1 DEF Services, TypeOK, Goto
  <2>2. pc'[c] = "idle"
    BY <1>1 DEF Services, TypeOK, Goto
  <2>3. \A d \in Callers \ {c} : pc[d] = "spawning" =>
          made[d] # None /\ state'[made[d]] = "unspawned"
    BY <1>1, <1>2, <1>3 DEF Services, TypeOK, Makers, Thread, None
  <2> QED
    BY <1>1, <2>1, <2>2, <2>3 DEF Services, Makers
<1>6. Room'
  <2>1. Pending' = Pending
    BY <1>1 DEF Services, TypeOK, Pending, Goto
  <2>2. \A t \in Thread : t > started => state'[t] = "none"
    BY <1>2, <1>3 DEF Services, TypeOK, Room
  <2> QED
    BY <1>1, <2>1, <2>2 DEF Services, Room
<1> QED
  BY <1>4, <1>5, <1>6 DEF Services

LEMMA StopServices ==
  ASSUME Services, NEW c \in Callers, Stop(c)
  PROVE  Services'
<1> USE ServiceAssumption
<1>1. UNCHANGED <<running, started, state, exited, pc, made>>
  BY DEF Stop, entry, calls
<1>2. TypeOK'
  <2>1. stop' \in [Thread -> BOOLEAN]
    BY DEF Stop, Services, TypeOK
  <2>2. stops' \in 0..MaxStops
    BY DEF Stop, Services, TypeOK
  <2>3. wanted' \in BOOLEAN
    BY DEF Stop
  <2> QED
    BY <1>1, <2>1, <2>2, <2>3 DEF Services, TypeOK
<1>3. Makers' /\ Room'
  BY <1>1, PendingStays DEF Services, Makers, Room
<1> QED
  BY <1>2, <1>3 DEF Services

\* Return, Deregister and Exit
LEMMA ThreadServices ==
  ASSUME Services, NEW t \in Thread, Return(t) \/ Deregister(t) \/ Exit(t)
  PROVE  Services'
<1> USE ServiceAssumption
<1>1. /\ UNCHANGED <<started, stop, pc, made, stops>>
      /\ state[t] \in {"running", "returned", "deregistered"}
  BY DEF Return, Deregister, Exit, entry, calls
<1>2. PICK s \in {"returned", "deregistered", "exited"} :
        /\ state' = [state EXCEPT ![t] = s]
        /\ s # "returned" => running' # t
        /\ running' \in {running, None}
        /\ wanted' \in BOOLEAN /\ exited' \in [Thread -> BOOLEAN]
  <2>1. CASE Return(t)
    BY <2>1 DEF Return, entry, Services, TypeOK
  <2>2. CASE Deregister(t)
    BY <2>2 DEF Deregister, Removed, Services, TypeOK, Thread, None
  <2>3. CASE Exit(t)
    <3>1. running # t
      BY <2>3 DEF Exit, Services, TypeOK, Thread, None
    <3> QED
      BY <2>3, <3>1 DEF Exit, entry, Services, TypeOK
  <2> QED
    BY <2>1, <2>2, <2>3
<1>3. TypeOK'
  BY <1>1, <1>2 DEF Services, TypeOK, State, None
<1>4. Makers'
  BY <1>1, <1>2 DEF Services, TypeOK, Makers, Thread, None
<1>5. Room'
  <2>1. Pending' = Pending
    BY <1>1, PendingStays
  <2>2. \A u \in Thread : u > started => state'[u] = "none"
    BY <1>1, <1>2 DEF Services, TypeOK, Room
  <2> QED
    BY <1>1, <2>1, <2>2 DEF Services, Room
<1> QED
  BY <1>3, <1>4, <1>5 DEF Services

LEMMA NextServices == Services /\ [Next]_vars => Services'
<1> SUFFICES ASSUME Services, [Next]_vars PROVE Services'
  OBVIOUS
<1>1. ASSUME NEW c \in Callers, Start(c) PROVE Services'
  BY <1>1, StartServices
<1>2. ASSUME NEW c \in Callers, InStart(c) PROVE Services'
  BY <1>2, WaitServices, InsertServices, SpawnServices DEF InStart
<1>3. ASSUME NEW c \in Callers, Stop(c) PROVE Services'
  BY <1>3, StopServices
<1>4. ASSUME NEW t \in Thread, Return(t) \/ Deregister(t) \/ Exit(t) PROVE Services'
  BY <1>4, ThreadServices
<1>5. CASE UNCHANGED vars
  <2>1. UNCHANGED <<running, started, state, stop, exited, pc, made, stops, wanted>>
    BY <1>5 DEF vars, entry, threads, calls
  <2>2. TypeOK'
    BY <2>1 DEF Services, TypeOK
  <2>3. Makers' /\ Room'
    BY <2>1, PendingStays DEF Services, Makers, Room
  <2> QED
    BY <2>2, <2>3 DEF Services
<1> QED
  BY <1>1, <1>2, <1>3, <1>4, <1>5 DEF Next

THEOREM ServicesHold == Spec => []Services
  BY InitServices, NextServices, PTL DEF Spec

----------------------------------------------------------------------------
\* Every variable has its type, and an entry of the map is about a thread that
\* will still take it out.
THEOREM ServicesTypeCorrect == Spec => []TypeOK
  BY ServicesHold, PTL DEF Services

\* A step that changes an entry replaces it, or is the end of its thread.
LEMMA EntryStep ==
  ASSUME Services, [Next]_vars, running # None, running' # running
  PROVE  running' > running \/ state'[running] \in {"deregistered", "failed"}
<1> USE ServiceAssumption
<1>1. running \in Thread /\ running \in 0..started /\ started \in Nat
  BY DEF Services, TypeOK, Thread, None
<1>2. ASSUME NEW c \in Callers, Insert(c)
      PROVE  running' > running
  BY <1>1, <1>2 DEF Insert
<1>3. ASSUME NEW c \in Callers, SpawnFails(c)
      PROVE  state'[running] = "failed"
  BY <1>1, <1>3 DEF SpawnFails, Removed, Services, TypeOK
<1>4. ASSUME NEW t \in Thread, Deregister(t)
      PROVE  state'[running] = "deregistered"
  BY <1>1, <1>4 DEF Deregister, Removed, Services, TypeOK
<1>5. ASSUME NEW c \in Callers,
             Start(c) \/ Deadline(c) \/ AwaitExit(c) \/ Spawn(c) \/ Stop(c)
      PROVE  FALSE
  BY <1>5 DEF Start, Deadline, AwaitExit, Spawn, Stop, entry
<1>6. ASSUME NEW t \in Thread, Return(t) \/ Exit(t) PROVE FALSE
  BY <1>6 DEF Return, Exit, entry
<1>7. ~UNCHANGED vars
  BY DEF vars, entry
<1> QED
  BY <1>2, <1>3, <1>4, <1>5, <1>6, <1>7 DEF Next, InStart

\* However many threads start and stop a service, none takes out another's entry.
THEOREM EntriesGoWithTheirThread == Spec => EntryGoesWithItsThread
<1>1. Services /\ [Next]_vars =>
        [running # None /\ running' # running =>
           running' > running \/ state'[running] \in {"deregistered", "failed"}]_vars
  BY EntryStep
<1> QED
  BY <1>1, ServicesHold, PTL DEF Spec, EntryGoesWithItsThread

----------------------------------------------------------------------------
(***************************************************************************)
(* The pop-ups of the notifications                                        *)
(***************************************************************************)
Card == 1..MaxCards

\* What the item remembers is of the cards, and a window has its entry.
CardsTyped ==
  /\ cards \in Seq(Card) /\ last_items \in Seq(Card) /\ replies \subseteq Card
  /\ cards_next \in Nat \ {0}
  /\ cards_queue \in Seq({"changed", "closed"})
  /\ last_count \in 0..MaxVisible
  /\ cards_item \in [window : BOOLEAN, entry : BOOLEAN] /\ (cards_item.window => cards_item.entry)
  /\ cards_drawn \in [closing : BOOLEAN, items : Seq(Card)]
  /\ closing \in BOOLEAN /\ crossed \in BOOLEAN

Has(q, x) == \E i \in DOMAIN q : q[i] = x

\* Has the item no word of a change to come?
UpToDate == ~cards_wake /\ ~Has(cards_queue, "changed")

\* An item that has heard everything has counted what it shows, and with cards
\* counted it has a window, or lost it.
CardsCounted ==
  /\ Cards!Registered /\ UpToDate => last_count = Len(Cards!Take(cards))
  /\ last_count > 0 => cards_item.window \/ crossed

CardsInv == CardsTyped /\ CardsCounted

\* The first few of a sequence are none only when there are none.
LEMMA TakeIs ==
  ASSUME NEW s \in Seq(Card)
  PROVE  /\ Cards!Take(s) \in Seq(Card)
         /\ Len(Cards!Take(s)) \in 0..MaxVisible
         /\ s # <<>> => Len(Cards!Take(s)) > 0
<1> DEFINE m == Cards!Min({Len(s), MaxVisible})
<1>1. MaxVisible \in Nat \ {0} /\ Len(s) \in Nat
  BY ProgressAssumption
<1>2. m \in {Len(s), MaxVisible} /\ m <= Len(s) /\ m <= MaxVisible
  BY <1>1 DEF Cards!Min
<1> HIDE DEF m
<1>3. Cards!Take(s) = SubSeq(s, 1, m)
  BY DEF Cards!Take, m
<1>4. m \in Nat /\ SubSeq(s, 1, m) \in Seq(Card) /\ Len(SubSeq(s, 1, m)) = m
  BY <1>1, <1>2
<1> QED
  BY <1>1, <1>2, <1>3, <1>4

\* A sequence without one of its places.
LEMMA RemoveAtIs ==
  ASSUME NEW s \in Seq(Card), NEW i \in DOMAIN s
  PROVE  Cards!RemoveAt(s, i) \in Seq(Card)
BY DEF Cards!RemoveAt

\* A message is put behind the others.
LEMMA QueueGrows ==
  ASSUME NEW S, NEW q \in Seq(S), NEW x \in S
  PROVE  /\ Append(q, x) \in Seq(S)
         /\ \A y : Has(q, y) => Has(Append(q, x), y)
         /\ Has(Append(q, x), x)
<1>1. Len(q) + 1 \in DOMAIN Append(q, x) /\ Append(q, x)[Len(q) + 1] = x
  OBVIOUS
<1>2. \A i \in DOMAIN q : i \in DOMAIN Append(q, x) /\ Append(q, x)[i] = q[i]
  OBVIOUS
<1> QED
  BY <1>1, <1>2 DEF Has

\* A change of the cards is told.
LEMMA ChangeTold ==
  ASSUME CardsInv, cards' \in Seq(Card), cards_wake' = TRUE, replies' \subseteq Card, cards_next' \in Nat \ {0},
         UNCHANGED <<cards_queue, last_count, last_items, closing, cards_item, crossed, cards_drawn>>
  PROVE  CardsInv'
BY DEF CardsInv, CardsTyped, CardsCounted, UpToDate

\* What a window that went, or opened, draws.
LEMMA RedrawnTyped ==
  ASSUME CardsInv, Cards!Redrawn PROVE cards_drawn' \in [closing : BOOLEAN, items : Seq(Card)]
<1>1. Cards!Nothing \in [closing : BOOLEAN, items : Seq(Card)]
  <2>1. <<>> \in Seq(Card)
    OBVIOUS
  <2> QED
    BY <2>1 DEF Cards!Nothing
<1>2. cards_drawn' = cards_drawn \/ cards_drawn' = Cards!Nothing
  BY DEF Cards!Redrawn
<1> QED
  BY <1>1, <1>2 DEF CardsInv, CardsTyped

\* What the item does with a message.
LEMMA UpdateKeeps ==
  ASSUME CardsInv, Cards!Update PROVE CardsInv'
<1>1. /\ cards_queue # <<>> /\ cards_queue' = Tail(cards_queue)
      /\ UNCHANGED <<cards, cards_next, cards_wake, replies>>
  BY DEF Cards!Update, Cards!daemonVars
<1>2. /\ cards_queue \in Seq({"changed", "closed"}) /\ cards \in Seq(Card) /\ last_count \in 0..MaxVisible
  BY DEF CardsInv, CardsTyped
<1>3. cards_queue' \in Seq({"changed", "closed"})
  BY <1>1, <1>2
<1>4. \A i \in DOMAIN cards_queue : i # 1 => i - 1 \in DOMAIN cards_queue' /\ cards_queue'[i - 1] = cards_queue[i]
  BY <1>1, <1>2
<1>5. Head(cards_queue) = cards_queue[1] /\ Head(cards_queue) \in {"changed", "closed"}
  BY <1>1, <1>2
<1>6. UpToDate' /\ Head(cards_queue) # "changed" => UpToDate
  BY <1>1, <1>4, <1>5 DEF UpToDate, Has
<1>7. CASE ~Cards!Registered
  <2>1. UNCHANGED <<last_count, last_items, closing, cards_item, crossed, cards_drawn>>
    BY <1>7 DEF Cards!Update, Cards!itemVars, Cards!drawnVars
  <2> QED
    BY <1>1, <1>3, <1>7, <2>1 DEF CardsInv, CardsTyped, CardsCounted, Cards!Registered
<1>8. CASE Cards!Registered /\ Head(cards_queue) = "changed"
  <2> DEFINE n == Len(Cards!Take(cards))
  <2>1. Cards!OnChanged /\ Cards!Redrawn
    BY <1>8 DEF Cards!Update
  <2>2. /\ last_count' = n /\ last_items' = IF n > 0 THEN Cards!Take(cards) ELSE last_items
        /\ closing' = (n = 0 /\ (closing \/ last_count > 0))
        /\ IF n > 0 /\ last_count = 0 THEN Cards!Show ELSE UNCHANGED cards_item
        /\ crossed' = (n > 0 /\ (crossed \/ (last_count = 0 /\ cards_item.entry /\ ~cards_item.window)))
    BY <2>1 DEF Cards!OnChanged
  <2>3. Cards!Take(cards) \in Seq(Card) /\ n \in 0..MaxVisible
    BY <1>2, TakeIs
  <2> HIDE DEF n
  <2>4. last_items' \in Seq(Card) /\ last_count' \in 0..MaxVisible
    BY <2>2, <2>3 DEF CardsInv, CardsTyped
  <2>5. cards_drawn' \in [closing : BOOLEAN, items : Seq(Card)]
    BY <2>1, RedrawnTyped
  <2>6. /\ cards_item' \in {cards_item, [window |-> TRUE, entry |-> TRUE]}
        /\ cards_item' \in [window : BOOLEAN, entry : BOOLEAN] /\ (cards_item'.window => cards_item'.entry)
    <3>1. cards_item' = cards_item \/ cards_item' = [window |-> TRUE, entry |-> TRUE]
      BY <2>2 DEF Cards!Show
    <3>2. CASE cards_item' = cards_item
      BY <3>2 DEF CardsInv, CardsTyped
    <3>3. CASE cards_item' = [window |-> TRUE, entry |-> TRUE]
      BY <3>3
    <3> QED
      BY <3>1, <3>2, <3>3
  <2>7. last_count' > 0 => cards_item'.window \/ crossed'
    <3>1. CASE last_count = 0
      BY <2>2, <2>3, <3>1 DEF Cards!Show, CardsInv, CardsTyped
    <3>2. CASE last_count # 0
      <4>1. cards_item' = cards_item /\ (n > 0 => crossed' = crossed)
        BY <2>2, <3>2 DEF CardsInv, CardsTyped
      <4>2. last_count > 0 /\ (cards_item.window \/ crossed)
        BY <1>2, <3>2, ProgressAssumption DEF CardsInv, CardsCounted
      <4> QED
        BY <2>2, <4>1, <4>2
    <3> QED
      BY <3>1, <3>2
  <2>8. last_count' = Len(Cards!Take(cards'))
    BY <1>1, <2>2 DEF n
  <2>9. closing' \in BOOLEAN /\ crossed' \in BOOLEAN
    BY <2>2
  <2>10. CardsTyped'
    BY <1>1, <1>3, <2>4, <2>5, <2>6, <2>9 DEF CardsInv, CardsTyped
  <2> QED
    BY <2>7, <2>8, <2>10 DEF CardsInv, CardsCounted
<1>9. CASE Cards!Registered /\ Head(cards_queue) # "changed"
  <2>1. Cards!Closed /\ Cards!Redrawn
    BY <1>9 DEF Cards!Update
  <2>2. /\ closing' = FALSE /\ last_items' = <<>> /\ cards_item' = [window |-> FALSE, entry |-> FALSE]
        /\ crossed' = (crossed \/ last_count > 0) /\ last_count' = last_count
    BY <2>1 DEF Cards!Closed, Cards!Hide
  <2>3. cards_drawn' \in [closing : BOOLEAN, items : Seq(Card)]
    BY <2>1, RedrawnTyped
  <2>4. /\ closing' \in BOOLEAN /\ crossed' \in BOOLEAN /\ last_items' \in Seq(Card)
        /\ cards_item' \in [window : BOOLEAN, entry : BOOLEAN] /\ ~cards_item'.window
    <3>1. crossed' \in BOOLEAN
      BY <2>2
    <3>2. <<>> \in Seq(Card)
      OBVIOUS
    <3>3. closing' \in BOOLEAN /\ last_items' \in Seq(Card)
      BY <2>2, <3>2
    <3>4. cards_item' \in [window : BOOLEAN, entry : BOOLEAN] /\ ~cards_item'.window
      BY <2>2
    <3> QED
      BY <3>1, <3>3, <3>4
  <2>5. CardsTyped'
    BY <1>1, <1>3, <2>2, <2>3, <2>4 DEF CardsInv, CardsTyped
  <2> QED
    BY <1>1, <1>6, <1>9, <2>2, <2>5 DEF CardsInv, CardsCounted, Cards!Registered
<1> QED
  BY <1>7, <1>8, <1>9

\* Every step of the daemon, of the item and of those who click.
LEMMA CardsRunKeeps ==
  ASSUME CardsInv, Cards!Next PROVE CardsInv'
<1>1. /\ cards \in Seq(Card) /\ cards_queue \in Seq({"changed", "closed"})
      /\ cards_drawn.items \in Seq(Card) /\ cards_next \in Nat \ {0} /\ MaxCards \in Nat
  BY ProgressAssumption DEF CardsInv, CardsTyped
<1>2. ASSUME Cards!Arrive PROVE CardsInv'
  <2>1. /\ cards' = Append(cards, cards_next) /\ cards_next <= MaxCards /\ cards_next' = cards_next + 1
        /\ cards_wake' = TRUE
        /\ UNCHANGED <<replies, cards_queue, last_count, last_items, closing, cards_item, crossed, cards_drawn>>
    BY <1>2 DEF Cards!Arrive, Cards!Changed, Cards!itemVars, Cards!drawnVars
  <2>2. cards' \in Seq(Card) /\ cards_next' \in Nat \ {0}
    BY <1>1, <2>1 DEF Card
  <2> QED
    BY <2>1, <2>2, ChangeTold DEF CardsInv, CardsTyped
<1>3. ASSUME Cards!Leave PROVE CardsInv'
  <2>1. PICK i \in DOMAIN cards : Cards!Changed(Cards!RemoveAt(cards, i)) /\ UNCHANGED cards_next
    BY <1>3 DEF Cards!Leave
  <2>2. /\ cards' = Cards!RemoveAt(cards, i) /\ cards_wake' = TRUE
        /\ UNCHANGED <<replies, cards_queue, last_count, last_items, closing, cards_item, crossed, cards_drawn>>
    BY <2>1 DEF Cards!Changed, Cards!itemVars, Cards!drawnVars
  <2>3. cards' \in Seq(Card)
    BY <1>1, <2>2, RemoveAtIs
  <2> QED
    BY <2>1, <2>2, <2>3, ChangeTold DEF CardsInv, CardsTyped
<1>4. ASSUME Cards!Report PROVE CardsInv'
  <2>1. /\ cards_wake /\ cards_queue' = Append(cards_queue, "changed")
        /\ UNCHANGED <<cards, cards_next, replies, last_count, last_items, closing, cards_item, crossed, cards_drawn>>
    BY <1>4 DEF Cards!Report, Cards!itemVars, Cards!drawnVars
  <2> DEFINE q == Append(cards_queue, "changed")
  <2>2. q \in Seq({"changed", "closed"}) /\ Has(q, "changed")
    <3>1. "changed" \in {"changed", "closed"}
      OBVIOUS
    <3> QED
      BY <1>1, <3>1, QueueGrows
  <2> QED
    BY <2>1, <2>2 DEF CardsInv, CardsTyped, CardsCounted, UpToDate
<1>5. ASSUME Cards!Draw PROVE CardsInv'
  <2>1. /\ cards_drawn' = Cards!View
        /\ UNCHANGED <<cards, cards_next, cards_wake, cards_queue, replies, last_count, last_items, closing, cards_item, crossed>>
    BY <1>5 DEF Cards!Draw, Cards!daemonVars, Cards!itemVars
  <2>2. cards_drawn' \in [closing : BOOLEAN, items : Seq(Card)]
    BY <1>1, <2>1, TakeIs DEF Cards!View, CardsInv, CardsTyped
  <2> QED
    BY <2>1, <2>2 DEF CardsInv, CardsTyped, CardsCounted, UpToDate
<1>6. ASSUME Cards!MonitorLost PROVE CardsInv'
  <2>1. /\ cards_item' = [cards_item EXCEPT !.window = FALSE] /\ crossed' = (last_count > 0 \/ crossed)
        /\ Cards!Redrawn
        /\ UNCHANGED <<cards, cards_next, cards_wake, cards_queue, replies, last_count, last_items, closing>>
    BY <1>6 DEF Cards!MonitorLost, Cards!daemonVars
  <2>2. cards_drawn' \in [closing : BOOLEAN, items : Seq(Card)]
    BY <2>1, RedrawnTyped
  <2> QED
    BY <2>1, <2>2 DEF CardsInv, CardsTyped, CardsCounted, UpToDate
<1>7. ASSUME Cards!SlideEnds PROVE CardsInv'
  <2>1. /\ cards_queue' = Append(cards_queue, "closed")
        /\ UNCHANGED <<cards, cards_next, cards_wake, replies, last_count, last_items, closing, cards_item, crossed, cards_drawn>>
    BY <1>7 DEF Cards!SlideEnds, Cards!daemonVars, Cards!itemVars
  <2>2. cards_queue' \in Seq({"changed", "closed"}) /\ \A y : Has(cards_queue, y) => Has(cards_queue', y)
    <3>1. "closed" \in {"changed", "closed"}
      OBVIOUS
    <3> QED
      BY <1>1, <2>1, <3>1, QueueGrows
  <2>3. UpToDate' => UpToDate
    BY <2>1, <2>2 DEF UpToDate
  <2> QED
    BY <2>1, <2>2, <2>3 DEF CardsInv, CardsTyped, CardsCounted
<1>8. ASSUME Cards!SetReply PROVE CardsInv'
  <2>1. PICK n \in Cards!ToSet(cards_drawn.items) : replies' = replies \cup {n}
    BY <1>8 DEF Cards!SetReply
  <2>2. UNCHANGED <<cards, cards_next, cards_wake, cards_queue, last_count, last_items, closing, cards_item, crossed, cards_drawn>>
    BY <1>8 DEF Cards!SetReply, Cards!daemonVars, Cards!itemVars
  <2>3. n \in Card
    BY <1>1 DEF Cards!ToSet
  <2> QED
    BY <2>1, <2>2, <2>3 DEF CardsInv, CardsTyped, CardsCounted, UpToDate
<1>9. ASSUME NEW n, Cards!Click(n) PROVE CardsInv'
  <2>1. /\ Cards!Answer(n) /\ replies' = replies \ {n}
        /\ UNCHANGED <<cards_next, cards_queue, last_count, last_items, closing, cards_item, crossed, cards_drawn>>
    BY <1>9 DEF Cards!Click, Cards!ForgetReply, Cards!itemVars
  <2>2. cards' = cards \/ \E i \in DOMAIN cards : cards' = Cards!RemoveAt(cards, i)
    BY <2>1 DEF Cards!Answer
  <2>3. cards' \in Seq(Card)
    BY <1>1, <2>2, RemoveAtIs
  <2>4. cards_wake' = TRUE
    BY <2>1 DEF Cards!Answer
  <2> QED
    BY <2>1, <2>3, <2>4, ChangeTold DEF CardsInv, CardsTyped
<1> QED
  BY <1>2, <1>3, <1>4, <1>5, <1>6, <1>7, <1>8, <1>9, UpdateKeeps
     DEF Cards!Next, Cards!Shell, Cards!ClickCard, Cards!ClickListed

\* What the run checks of the cards.
LEMMA CardsGive ==
  ASSUME CardsInv PROVE Cards!TypeOK /\ Cards!CardsHaveWindow
<1>1. /\ cards \in Seq(Card) /\ cards_queue \in Seq({"changed", "closed"}) /\ last_items \in Seq(Card)
      /\ cards_drawn.items \in Seq(Card) /\ replies \subseteq Card
  BY DEF CardsInv, CardsTyped
<1>2. Cards!TypeOK
  <2>1. /\ Cards!ToSet(cards) \subseteq Card /\ Cards!ToSet(last_items) \subseteq Card
        /\ Cards!ToSet(cards_drawn.items) \subseteq Card /\ Cards!ToSet(cards_queue) \subseteq {"changed", "closed"}
    BY <1>1 DEF Cards!ToSet
  <2> QED
    BY <1>1, <2>1 DEF Cards!TypeOK, Card, CardsInv, CardsTyped
<1>3. Cards!CardsHaveWindow
  <2> SUFFICES ASSUME Cards!Heard, Cards!Registered, cards # <<>> PROVE cards_item.window \/ crossed
    BY DEF Cards!CardsHaveWindow
  <2>1. UpToDate
    BY DEF UpToDate, Has, Cards!Heard
  <2>2. last_count = Len(Cards!Take(cards)) /\ last_count > 0
    BY <1>1, <2>1, TakeIs DEF CardsInv, CardsCounted
  <2> QED
    BY <2>2 DEF CardsInv, CardsCounted
<1> QED
  BY <1>2, <1>3

----------------------------------------------------------------------------
(***************************************************************************)
(* The panels                                                              *)
(***************************************************************************)
PanelRecord ==
  [alive : BOOLEAN, active : BOOLEAN, entry : BOOLEAN, frames : BOOLEAN, hidden : BOOLEAN,
   edge : Pan!Edge, autohide : BOOLEAN, hovered : BOOLEAN, anim : {"none", "running", "settling"},
   target : BOOLEAN, at : {"none", "between", "tucked"}]
Windows == [Output -> [open : BOOLEAN, anchor : Pan!Edge, margin : {"none", "between", "top", "bottom"}]]
MaybeEdge == Pan!Edge \cup {"none"}

PanelsTyped ==
  /\ panel \in PanelRecord /\ panel_wins \in Windows
  /\ panel_file \in [block : BOOLEAN, names : SUBSET Pan!Names, edge : Pan!Edge, autohide : BOOLEAN, animate : BOOLEAN]
  /\ animate \in BOOLEAN /\ last_configs \subseteq Pan!Names /\ outputs \subseteq Output
  /\ reserved \in [name : MaybeEdge, event : MaybeEdge]
  /\ panel_drawn \in [here : BOOLEAN, autohide : BOOLEAN, edge : Pan!Edge]
  /\ astray \in [places : BOOLEAN, margins : BOOLEAN]

\* Windows are on outputs there are, and the manager knows that there are some.
WindowsKnown == \A m \in Output : panel_wins[m].open => m \in outputs /\ panel.entry

\* A panel that is hidden and has windows got them on outputs that came.
HiddenStrays == panel.alive /\ panel.hidden /\ panel.entry => astray.places

\* A panel that moves goes where the pointer sent it; where it has come to rest, or
\* has arrived, its windows and its own idea of its place agree.
Resting ==
  panel.alive /\ panel.autohide /\ ~astray.margins =>
    /\ panel.anim # "none" => animate /\ panel.target = ~panel.hovered
    /\ panel.anim # "running" =>
         /\ panel.at = Pan!Rest("tucked", ~panel.hovered)
         /\ \A m \in Output : panel_wins[m].open => panel_wins[m].margin = Pan!Rest(panel.edge, ~panel.hovered)

PanelsInv ==
  /\ PanelsTyped /\ WindowsKnown
  /\ Pan!ShownPanelReserves /\ Pan!ShownEverywhere /\ HiddenStrays
  /\ Resting /\ Pan!FramesFollowAnimation

\* A panel of a configuration.
LEMMA NewPanelIs ==
  ASSUME NEW edge \in Pan!Edge, NEW autohide \in BOOLEAN
  PROVE  Pan!NewPanel(edge, autohide) \in PanelRecord
BY DEF Pan!NewPanel, Pan!Rest, PanelRecord, Pan!Edge

\* What is left of a panel that is destroyed.
LEMMA DeadPanelIs == Pan!DeadPanel \in PanelRecord /\ ~Pan!DeadPanel.alive
<1>1. "top" \in Pan!Edge /\ FALSE \in BOOLEAN
  BY DEF Pan!Edge
<1>2. Pan!NewPanel("top", FALSE) \in PanelRecord
  BY <1>1, NewPanelIs
<1> QED
  BY <1>2 DEF Pan!DeadPanel, PanelRecord

\* A new panel has its windows everywhere and its place reserved.
LEMMA NewPanelKeeps ==
  ASSUME PanelsInv, NEW edge \in Pan!Edge, NEW autohide \in BOOLEAN,
         Pan!Launch(Pan!NewPanel(edge, autohide), outputs), reserved' = [reserved EXCEPT !.name = edge],
         astray' = [places |-> FALSE, margins |-> FALSE], animate' \in BOOLEAN, last_configs' \subseteq Pan!Names,
         UNCHANGED <<panel_file, outputs, panel_drawn>>
  PROVE  PanelsInv'
<1> DEFINE p == Pan!NewPanel(edge, autohide)
<1>1. /\ p \in PanelRecord /\ p.edge = edge /\ p.autohide = autohide /\ p.at = Pan!Rest("tucked", autohide)
      /\ p.anim = "none" /\ ~p.hovered /\ ~p.hidden /\ ~p.frames /\ p.alive
  BY NewPanelIs DEF Pan!NewPanel
<1>2. /\ panel_wins' = [m \in Output |-> IF m \in outputs THEN Pan!Layer(p) ELSE panel_wins[m]]
      /\ panel' = [p EXCEPT !.entry = p.entry \/ outputs # {}]
  BY DEF Pan!Launch
<1> HIDE DEF p
<1>3. /\ panel' \in PanelRecord /\ panel'.edge = edge /\ panel'.autohide = autohide
      /\ panel'.at = Pan!Rest("tucked", autohide) /\ panel'.anim = "none" /\ ~panel'.hovered /\ ~panel'.hidden
      /\ ~panel'.frames /\ panel'.alive /\ panel'.entry = (p.entry \/ outputs # {})
  BY <1>1, <1>2 DEF PanelRecord
<1>4. /\ Pan!Layer(p).open /\ Pan!Layer(p).margin = Pan!Rest(edge, autohide)
      /\ Pan!Layer(p) \in [open : BOOLEAN, anchor : Pan!Edge, margin : {"none", "between", "top", "bottom"}]
  BY <1>1 DEF Pan!Layer, Pan!Rest, Pan!Edge
<1>5. panel_wins' \in Windows /\ \A m \in Output : panel_wins'[m] = IF m \in outputs THEN Pan!Layer(p) ELSE panel_wins[m]
  BY <1>2, <1>4 DEF PanelsInv, PanelsTyped, Windows
<1>6. PanelsTyped'
  BY <1>3, <1>5 DEF PanelsInv, PanelsTyped, MaybeEdge
<1>7. outputs \subseteq Output /\ \A m \in Output : panel_wins'[m].open => m \in outputs
  BY <1>5 DEF PanelsInv, PanelsTyped, WindowsKnown
<1>8. WindowsKnown' /\ HiddenStrays' /\ Pan!FramesFollowAnimation' /\ Pan!ShownEverywhere'
  <2>1. WindowsKnown' /\ HiddenStrays'
    BY <1>3, <1>7 DEF WindowsKnown, HiddenStrays
  <2>2. Pan!FramesFollowAnimation'
    BY <1>3 DEF Pan!FramesFollowAnimation, PanelRecord
  <2>3. Pan!ShownEverywhere'
    BY <1>4, <1>5, <1>7 DEF Pan!ShownEverywhere
  <2> QED
    BY <2>1, <2>2, <2>3
<1>9. Resting'
  BY <1>3, <1>4, <1>5, <1>7 DEF Resting, Pan!Rest
<1>10. Pan!ShownPanelReserves'
  BY <1>3 DEF Pan!ShownPanelReserves, PanelsInv, PanelsTyped
<1> QED
  BY <1>6, <1>8, <1>9, <1>10 DEF PanelsInv

\* A panel that is destroyed has no windows.
LEMMA DeadPanelKeeps ==
  ASSUME PanelsInv, Pan!CloseWindows(Pan!DeadPanel), reserved' \in [name : MaybeEdge, event : MaybeEdge],
         astray' = [places |-> FALSE, margins |-> FALSE], animate' \in BOOLEAN, last_configs' \subseteq Pan!Names,
         UNCHANGED <<panel_file, outputs, panel_drawn>>
  PROVE  PanelsInv'
<1>1. panel' \in PanelRecord /\ ~panel'.alive
  BY DeadPanelIs DEF Pan!CloseWindows, PanelRecord
<1>2. panel_wins' \in Windows /\ \A m \in Output : ~panel_wins'[m].open
  BY DEF Pan!CloseWindows, Pan!NoWindows, Pan!NoWindow, Windows, Pan!Edge
<1> QED
  BY <1>1, <1>2 DEF PanelsInv, PanelsTyped, WindowsKnown, HiddenStrays, Resting,
     Pan!ShownPanelReserves, Pan!ShownEverywhere, Pan!FramesFollowAnimation

\* A change of the file, and a drawing, touch nothing else.
LEMMA EditKeeps ==
  ASSUME PanelsInv, Pan!Edit \/ Pan!Draw PROVE PanelsInv'
<1>1. UNCHANGED <<animate, last_configs, panel, panel_wins, outputs, reserved, astray>>
  BY DEF Pan!Edit, Pan!Draw, Pan!Unmoved
<1>2. panel_file' \in [block : BOOLEAN, names : SUBSET Pan!Names, edge : Pan!Edge, autohide : BOOLEAN, animate : BOOLEAN]
  <2>1. CASE Pan!Draw
    BY <2>1 DEF Pan!Draw, Pan!Unmoved, PanelsInv, PanelsTyped
  <2>2. ASSUME NEW k \in {"block", "autohide", "animate"}, panel_file' = [panel_file EXCEPT ![k] = ~panel_file[k]]
        PROVE  panel_file' \in [block : BOOLEAN, names : SUBSET Pan!Names, edge : Pan!Edge, autohide : BOOLEAN, animate : BOOLEAN]
    <3>1. CASE k = "block"
      BY <2>2, <3>1 DEF PanelsInv, PanelsTyped
    <3>2. CASE k = "autohide"
      BY <2>2, <3>2 DEF PanelsInv, PanelsTyped
    <3>3. CASE k = "animate"
      BY <2>2, <3>3 DEF PanelsInv, PanelsTyped
    <3> QED
      BY <3>1, <3>2, <3>3
  <2>3. ASSUME NEW n \in Pan!Names,
               panel_file' = [panel_file EXCEPT !.names = IF n \in panel_file.names THEN panel_file.names \ {n}
                                                          ELSE panel_file.names \cup {n}]
        PROVE  panel_file' \in [block : BOOLEAN, names : SUBSET Pan!Names, edge : Pan!Edge, autohide : BOOLEAN, animate : BOOLEAN]
    BY <2>3 DEF PanelsInv, PanelsTyped
  <2>4. ASSUME NEW e \in Pan!Edge, panel_file' = [panel_file EXCEPT !.edge = e]
        PROVE  panel_file' \in [block : BOOLEAN, names : SUBSET Pan!Names, edge : Pan!Edge, autohide : BOOLEAN, animate : BOOLEAN]
    BY <2>4 DEF PanelsInv, PanelsTyped
  <2> QED
    BY <2>1, <2>2, <2>3, <2>4 DEF Pan!Edit
<1>3. panel_drawn' \in [here : BOOLEAN, autohide : BOOLEAN, edge : Pan!Edge]
  <2>1. CASE Pan!Edit
    BY <2>1 DEF Pan!Edit, PanelsInv, PanelsTyped
  <2>2. CASE Pan!Draw
    <3>1. panel.active \in BOOLEAN /\ panel.autohide \in BOOLEAN /\ panel.edge \in Pan!Edge
      BY DEF PanelsInv, PanelsTyped, PanelRecord
    <3> QED
      BY <2>2, <3>1 DEF Pan!Draw
  <2> QED
    BY <2>1, <2>2
<1> QED
  BY <1>1, <1>2, <1>3 DEF PanelsInv, PanelsTyped, WindowsKnown, HiddenStrays, Resting,
     Pan!ShownPanelReserves, Pan!ShownEverywhere, Pan!FramesFollowAnimation

\* Steps that keep the windows, and of the panel what its place depends on, unless the
\* margins have gone astray.
LEMMA WindowsStay ==
  ASSUME PanelsInv, PanelsTyped', UNCHANGED <<panel_wins, outputs>>,
         panel'.entry = panel.entry, panel'.hidden = panel.hidden, panel'.alive = panel.alive,
         panel'.frames = panel.frames, panel'.anim = panel.anim,
         astray'.places = astray.places,
         Pan!ShownPanelReserves', Resting'
  PROVE  PanelsInv'
BY DEF PanelsInv, WindowsKnown, HiddenStrays, Pan!ShownEverywhere, Pan!FramesFollowAnimation

\* The panel hears of a reload, or does not.
LEMMA HandleReloadKeeps ==
  ASSUME PanelsInv, NEW command \in BOOLEAN, Pan!HandleReload(command), animate' = panel_file.animate,
         last_configs' \subseteq Pan!Names, UNCHANGED <<panel_file, outputs, panel_drawn>>
  PROVE  PanelsInv'
<1>1. /\ panel \in PanelRecord /\ astray \in [places : BOOLEAN, margins : BOOLEAN]
      /\ reserved \in [name : MaybeEdge, event : MaybeEdge]
      /\ panel_file.edge \in Pan!Edge /\ panel_file.autohide \in BOOLEAN /\ panel_file.animate \in BOOLEAN
  BY DEF PanelsInv, PanelsTyped
<1>2. CASE Pan!Reconfigure
  <2>1. /\ panel' = [panel EXCEPT !.edge = panel_file.edge, !.autohide = panel_file.autohide]
        /\ reserved' = IF panel.edge = panel_file.edge THEN reserved ELSE [reserved EXCEPT !.name = panel_file.edge]
        /\ astray' = [astray EXCEPT !.margins = astray.margins \/ panel' # panel \/ (panel.anim # "none" /\ ~panel_file.animate)]
        /\ UNCHANGED panel_wins
    BY <1>2 DEF Pan!Reconfigure
  <2>2. panel' \in PanelRecord /\ panel'.edge = panel_file.edge
    BY <1>1, <2>1 DEF PanelRecord
  <2>3. /\ panel'.entry = panel.entry /\ panel'.hidden = panel.hidden /\ panel'.alive = panel.alive
        /\ panel'.frames = panel.frames /\ panel'.anim = panel.anim
    BY <1>1, <2>1 DEF PanelRecord
  <2>4. /\ astray' \in [places : BOOLEAN, margins : BOOLEAN] /\ astray'.places = astray.places
        /\ ~astray'.margins => ~astray.margins /\ panel' = panel /\ (panel.anim = "none" \/ animate')
    BY <1>1, <2>1
  <2>5. reserved' \in [name : MaybeEdge, event : MaybeEdge] /\ Pan!ShownPanelReserves'
    BY <1>1, <2>1, <2>2, <2>3 DEF MaybeEdge, PanelsInv, Pan!ShownPanelReserves
  <2>6. PanelsTyped'
    BY <1>1, <2>1, <2>2, <2>4, <2>5 DEF PanelsInv, PanelsTyped
  <2>7. Resting'
    BY <2>1, <2>4 DEF PanelsInv, Resting
  <2> QED
    BY <2>1, <2>3, <2>4, <2>5, <2>6, <2>7, WindowsStay
<1>3. CASE UNCHANGED <<panel, reserved, panel_wins>>
           /\ astray' = [astray EXCEPT !.margins = astray.margins \/ (panel.anim # "none" /\ ~panel_file.animate)]
  <2>1. /\ astray' \in [places : BOOLEAN, margins : BOOLEAN] /\ astray'.places = astray.places
        /\ ~astray'.margins => ~astray.margins /\ (panel.anim = "none" \/ animate')
    BY <1>1, <1>3
  <2>2. PanelsTyped'
    BY <1>1, <1>3, <2>1 DEF PanelsInv, PanelsTyped
  <2>3. Resting' /\ Pan!ShownPanelReserves'
    BY <1>3, <2>1 DEF PanelsInv, Resting, Pan!ShownPanelReserves
  <2> QED
    BY <1>3, <2>1, <2>2, <2>3, WindowsStay
<1> QED
  BY <1>2, <1>3 DEF Pan!HandleReload

\* A reload: the deployer first, then the panel.
LEMMA ReloadKeeps ==
  ASSUME PanelsInv, NEW command \in BOOLEAN, Pan!Reload(command) PROVE PanelsInv'
<1>1. /\ animate' = panel_file.animate /\ animate' \in BOOLEAN
      /\ panel_file.edge \in Pan!Edge /\ panel_file.autohide \in BOOLEAN
      /\ UNCHANGED <<panel_file, outputs, panel_drawn>>
  BY DEF Pan!Reload, PanelsInv, PanelsTyped
<1>2. last_configs' \subseteq Pan!Names
  BY DEF Pan!Reload, Pan!Deployer, Pan!FileNames, PanelsInv, PanelsTyped
<1>3. CASE Pan!DestroyRemoved
  <2>1. reserved' \in [name : MaybeEdge, event : MaybeEdge]
    BY <1>3 DEF Pan!DestroyRemoved, MaybeEdge, PanelsInv, PanelsTyped
  <2> QED
    BY <1>1, <1>2, <1>3, <2>1, DeadPanelKeeps DEF Pan!DestroyRemoved
<1>4. CASE Pan!DeployAdded
  BY <1>1, <1>2, <1>4, NewPanelKeeps DEF Pan!DeployAdded
<1>5. CASE Pan!HandleReload(command)
  BY <1>1, <1>2, <1>5, HandleReloadKeeps
<1> QED
  BY <1>3, <1>4, <1>5 DEF Pan!Reload

\* Windows that open for a panel are like it, and as if it were at rest.
LEMMA LaunchIs ==
  ASSUME PanelsInv, NEW p \in PanelRecord, NEW places \in SUBSET Output, Pan!Launch(p, places)
  PROVE  /\ panel' \in PanelRecord /\ panel_wins' \in Windows
         /\ panel'.alive = p.alive /\ panel'.hidden = p.hidden /\ panel'.frames = p.frames /\ panel'.anim = p.anim
         /\ panel'.edge = p.edge /\ panel'.autohide = p.autohide /\ panel'.hovered = p.hovered
         /\ panel'.target = p.target /\ panel'.at = p.at
         /\ panel'.entry = (p.entry \/ places # {})
         /\ \A m \in Output : m \notin places => panel_wins'[m] = panel_wins[m]
         /\ \A m \in places : panel_wins'[m].open /\ panel_wins'[m].margin = Pan!Rest(p.edge, p.autohide)
<1>1. /\ panel_wins' = [m \in Output |-> IF m \in places THEN Pan!Layer(p) ELSE panel_wins[m]]
      /\ panel' = [p EXCEPT !.entry = p.entry \/ places # {}]
  BY DEF Pan!Launch
<1>2. /\ panel' \in PanelRecord
      /\ panel'.alive = p.alive /\ panel'.hidden = p.hidden /\ panel'.frames = p.frames /\ panel'.anim = p.anim
      /\ panel'.edge = p.edge /\ panel'.autohide = p.autohide /\ panel'.hovered = p.hovered
      /\ panel'.target = p.target /\ panel'.at = p.at
      /\ panel'.entry = (p.entry \/ places # {})
  BY <1>1 DEF PanelRecord
<1>3. /\ Pan!Layer(p).open /\ Pan!Layer(p).margin = Pan!Rest(p.edge, p.autohide)
      /\ Pan!Layer(p) \in [open : BOOLEAN, anchor : Pan!Edge, margin : {"none", "between", "top", "bottom"}]
  BY DEF Pan!Layer, Pan!Rest, Pan!Edge, PanelRecord
<1>4. panel_wins' \in Windows /\ \A m \in Output : panel_wins'[m] = IF m \in places THEN Pan!Layer(p) ELSE panel_wins[m]
  BY <1>1, <1>3 DEF PanelsInv, PanelsTyped, Windows
<1> QED
  BY <1>2, <1>3, <1>4

\* Nothing has moved the panel: what opens now is like what is open.
LEMMA UnmovedRests ==
  ASSUME PanelsInv, ~Pan!Moved(panel), panel.alive, panel.autohide, ~astray.margins
  PROVE  panel.anim = "none" /\ ~panel.hovered
BY DEF Pan!Moved, Pan!Rest, PanelsInv, PanelsTyped, PanelRecord, Resting

\* A panel is hidden: its windows are closed and its place is given up.
LEMMA HideKeeps ==
  ASSUME PanelsInv, Pan!HidePanel, UNCHANGED <<panel_file, animate, last_configs, outputs, panel_drawn>>
  PROVE  PanelsInv'
<1>1. /\ panel \in PanelRecord /\ astray \in [places : BOOLEAN, margins : BOOLEAN]
      /\ reserved \in [name : MaybeEdge, event : MaybeEdge]
  BY DEF PanelsInv, PanelsTyped
<1> DEFINE p == [panel EXCEPT !.hidden = TRUE]
<1>2. /\ p \in PanelRecord /\ p.alive = panel.alive /\ p.hidden /\ p.frames = panel.frames /\ p.anim = panel.anim
      /\ p.edge = panel.edge /\ p.autohide = panel.autohide /\ p.hovered = panel.hovered
      /\ p.target = panel.target /\ p.at = panel.at
  BY <1>1 DEF PanelRecord
<1>3. panel_wins' = Pan!NoWindows /\ panel' = [p EXCEPT !.entry = FALSE, !.active = FALSE]
  BY DEF Pan!HidePanel, Pan!CloseWindows
<1> HIDE DEF p
<1>4. /\ panel' \in PanelRecord /\ panel'.hidden /\ ~panel'.entry
      /\ panel'.alive = panel.alive /\ panel'.frames = panel.frames /\ panel'.anim = panel.anim
      /\ panel'.edge = panel.edge /\ panel'.autohide = panel.autohide /\ panel'.hovered = panel.hovered
      /\ panel'.target = panel.target /\ panel'.at = panel.at
  BY <1>2, <1>3 DEF PanelRecord
<1>5. panel_wins' \in Windows /\ \A m \in Output : ~panel_wins'[m].open
  BY <1>3 DEF Pan!NoWindows, Pan!NoWindow, Windows, Pan!Edge
<1>6. /\ astray' \in [places : BOOLEAN, margins : BOOLEAN] /\ astray'.margins = astray.margins
      /\ reserved' \in [name : MaybeEdge, event : MaybeEdge]
  BY <1>1 DEF Pan!HidePanel, MaybeEdge
<1>7. PanelsTyped'
  BY <1>4, <1>5, <1>6 DEF PanelsInv, PanelsTyped
<1>8. Resting'
  BY <1>4, <1>5, <1>6 DEF PanelsInv, Resting
<1> QED
  BY <1>4, <1>5, <1>7, <1>8 DEF PanelsInv, WindowsKnown, HiddenStrays, Pan!ShownPanelReserves,
     Pan!ShownEverywhere, Pan!FramesFollowAnimation

\* A panel is shown: where it was hidden its windows open.
LEMMA ShowKeeps ==
  ASSUME PanelsInv, Pan!ShowPanel, panel.alive, UNCHANGED <<panel_file, animate, last_configs, outputs, panel_drawn>>
  PROVE  PanelsInv'
<1>1. /\ panel \in PanelRecord /\ astray \in [places : BOOLEAN, margins : BOOLEAN]
      /\ reserved \in [name : MaybeEdge, event : MaybeEdge] /\ outputs \in SUBSET Output
  BY DEF PanelsInv, PanelsTyped
<1> DEFINE p == [panel EXCEPT !.hidden = FALSE, !.active = TRUE]
<1>2. /\ p \in PanelRecord /\ p.alive /\ ~p.hidden /\ p.frames = panel.frames /\ p.anim = panel.anim
      /\ p.edge = panel.edge /\ p.autohide = panel.autohide /\ p.hovered = panel.hovered
      /\ p.target = panel.target /\ p.at = panel.at /\ p.entry = panel.entry
  BY <1>1 DEF PanelRecord
<1>3. /\ reserved' = [reserved EXCEPT !.name = panel.edge]
      /\ IF panel.entry THEN panel' = p /\ UNCHANGED <<panel_wins, astray>>
         ELSE /\ Pan!Launch(p, outputs)
              /\ astray' = [astray EXCEPT !.margins = astray.margins \/ Pan!Moved(panel)]
  BY DEF Pan!ShowPanel
<1> HIDE DEF p
<1>4. reserved' \in [name : MaybeEdge, event : MaybeEdge] /\ reserved'.name = panel.edge
  BY <1>1, <1>3 DEF MaybeEdge, PanelRecord
<1>5. CASE panel.entry
  <2>1. PanelsTyped'
    BY <1>2, <1>3, <1>4, <1>5 DEF PanelsInv, PanelsTyped
  <2>2. Resting'
    BY <1>2, <1>3, <1>5 DEF PanelsInv, Resting
  <2> QED
    BY <1>2, <1>3, <1>4, <1>5, <2>1, <2>2 DEF PanelsInv, WindowsKnown, HiddenStrays, Pan!ShownPanelReserves,
       Pan!ShownEverywhere, Pan!FramesFollowAnimation
<1>6. CASE ~panel.entry
  <2>1. Pan!Launch(p, outputs) /\ astray' = [astray EXCEPT !.margins = astray.margins \/ Pan!Moved(panel)]
    BY <1>3, <1>6
  <2>2. /\ panel' \in PanelRecord /\ panel_wins' \in Windows
        /\ panel'.alive /\ ~panel'.hidden /\ panel'.frames = panel.frames /\ panel'.anim = panel.anim
        /\ panel'.edge = panel.edge /\ panel'.autohide = panel.autohide /\ panel'.hovered = panel.hovered
        /\ panel'.target = panel.target /\ panel'.at = panel.at
        /\ panel'.entry = (panel.entry \/ outputs # {})
        /\ \A m \in Output : m \notin outputs => panel_wins'[m] = panel_wins[m]
        /\ \A m \in outputs : panel_wins'[m].open /\ panel_wins'[m].margin = Pan!Rest(panel.edge, panel.autohide)
    BY <1>1, <1>2, <2>1, LaunchIs
  <2>3. /\ astray' \in [places : BOOLEAN, margins : BOOLEAN]
        /\ ~astray'.margins => ~astray.margins /\ ~Pan!Moved(panel)
    BY <1>1, <2>1
  <2>4. PanelsTyped'
    BY <1>4, <2>2, <2>3 DEF PanelsInv, PanelsTyped
  <2>5. \A m \in Output : panel_wins'[m].open => m \in outputs
    BY <2>2 DEF PanelsInv, WindowsKnown
  <2>6. WindowsKnown' /\ HiddenStrays' /\ Pan!ShownEverywhere' /\ Pan!FramesFollowAnimation'
    BY <2>2, <2>5 DEF PanelsInv, WindowsKnown, HiddenStrays, Pan!ShownEverywhere, Pan!FramesFollowAnimation
  <2>7. Resting'
    <3> SUFFICES ASSUME panel.autohide, ~astray'.margins PROVE Resting'
      BY <2>2 DEF Resting
    <3>1. panel.anim = "none" /\ ~panel.hovered /\ ~astray.margins
      BY <2>3, UnmovedRests
    <3>2. panel.at = Pan!Rest("tucked", ~panel.hovered)
      BY <3>1 DEF PanelsInv, Resting
    <3> QED
      BY <2>2, <2>5, <3>1, <3>2 DEF Resting, Pan!Rest
  <2>8. Pan!ShownPanelReserves'
    BY <1>4, <2>2 DEF Pan!ShownPanelReserves
  <2> QED
    BY <2>4, <2>6, <2>7, <2>8 DEF PanelsInv
<1> QED
  BY <1>5, <1>6

\* A command that creates the panel, or destroys it.
LEMMA CreateKeeps ==
  ASSUME PanelsInv, Pan!Create \/ Pan!Destroy PROVE PanelsInv'
<1>1. /\ UNCHANGED <<panel_file, animate, last_configs, outputs, panel_drawn>>
      /\ animate' \in BOOLEAN /\ last_configs' \subseteq Pan!Names
  BY DEF Pan!Create, Pan!Destroy, Pan!Command, Pan!Unmoved, PanelsInv, PanelsTyped
<1>2. CASE Pan!Create
  <2>1. PICK edge \in Pan!Edge :
          /\ Pan!Launch(Pan!NewPanel(edge, FALSE), outputs) /\ reserved' = [reserved EXCEPT !.name = edge]
          /\ astray' = [places |-> FALSE, margins |-> FALSE]
    BY <1>2 DEF Pan!Create
  <2>2. FALSE \in BOOLEAN
    OBVIOUS
  <2> QED
    BY <1>1, <2>1, <2>2, NewPanelKeeps
<1>3. CASE Pan!Destroy
  <2>1. reserved' \in [name : MaybeEdge, event : MaybeEdge]
    BY <1>3 DEF Pan!Destroy, PanelsInv, PanelsTyped
  <2> QED
    BY <1>1, <1>3, <2>1, DeadPanelKeeps DEF Pan!Destroy
<1> QED
  BY <1>2, <1>3

\* A command that moves the panel, or disables it.
LEMMA ConfigureKeeps ==
  ASSUME PanelsInv, Pan!Configure PROVE PanelsInv'
<1>1. PICK edge \in Pan!Edge, enabled \in BOOLEAN :
        /\ panel' = [panel EXCEPT !.edge = edge, !.active = panel.active /\ enabled]
        /\ reserved' = [reserved EXCEPT !.event = edge]
        /\ astray' = [astray EXCEPT !.margins = astray.margins \/ edge # panel.edge]
        /\ UNCHANGED <<panel_wins, panel_file, animate, last_configs, outputs, panel_drawn>>
        /\ panel.alive
  BY DEF Pan!Configure, Pan!Command, Pan!Unmoved
<1>2. /\ panel \in PanelRecord /\ astray \in [places : BOOLEAN, margins : BOOLEAN]
      /\ reserved \in [name : MaybeEdge, event : MaybeEdge]
  BY DEF PanelsInv, PanelsTyped
<1>3. /\ panel' \in PanelRecord /\ panel'.edge = edge
      /\ panel'.entry = panel.entry /\ panel'.hidden = panel.hidden /\ panel'.alive = panel.alive
      /\ panel'.frames = panel.frames /\ panel'.anim = panel.anim /\ panel'.autohide = panel.autohide
      /\ panel'.hovered = panel.hovered /\ panel'.target = panel.target /\ panel'.at = panel.at
  BY <1>1, <1>2 DEF PanelRecord
<1>4. /\ astray' \in [places : BOOLEAN, margins : BOOLEAN] /\ astray'.places = astray.places
      /\ ~astray'.margins => ~astray.margins /\ edge = panel.edge
  BY <1>1, <1>2
<1>5. reserved' \in [name : MaybeEdge, event : MaybeEdge] /\ reserved'.event = edge
  BY <1>1, <1>2 DEF MaybeEdge
<1>6. PanelsTyped'
  BY <1>1, <1>3, <1>4, <1>5 DEF PanelsInv, PanelsTyped
<1>7. Pan!ShownPanelReserves'
  BY <1>3, <1>5 DEF Pan!ShownPanelReserves
<1>8. Resting'
  BY <1>1, <1>3, <1>4 DEF PanelsInv, Resting
<1> QED
  BY <1>1, <1>3, <1>4, <1>6, <1>7, <1>8, WindowsStay

\* An output comes, and a panel that lives gets a window on it.
LEMMA PlugKeeps ==
  ASSUME PanelsInv, Pan!Plug PROVE PanelsInv'
<1>1. PICK m \in Output \ outputs :
        /\ outputs' = outputs \cup {m}
        /\ IF panel.alive THEN Pan!Launch(panel, {m}) ELSE UNCHANGED <<panel, panel_wins>>
        /\ astray' = [places |-> astray.places \/ (panel.alive /\ panel.hidden),
                      margins |-> astray.margins \/ (panel.alive /\ Pan!Moved(panel))]
        /\ UNCHANGED <<panel_file, animate, last_configs, reserved, panel_drawn>>
  BY DEF Pan!Plug
<1>2. /\ panel \in PanelRecord /\ astray \in [places : BOOLEAN, margins : BOOLEAN] /\ outputs \subseteq Output
  BY DEF PanelsInv, PanelsTyped
<1>3. Pan!Moved(panel) \in BOOLEAN /\ panel.hidden \in BOOLEAN /\ panel.alive \in BOOLEAN
  BY <1>2 DEF Pan!Moved, PanelRecord
<1>4. /\ astray' \in [places : BOOLEAN, margins : BOOLEAN]
      /\ astray'.places = (astray.places \/ (panel.alive /\ panel.hidden))
      /\ ~astray'.margins => ~astray.margins /\ ~(panel.alive /\ Pan!Moved(panel))
  BY <1>1, <1>2, <1>3
<1>5. CASE ~panel.alive
  <2>1. PanelsTyped'
    BY <1>1, <1>2, <1>4, <1>5 DEF PanelsInv, PanelsTyped
  <2>2. WindowsKnown'
    BY <1>1, <1>5 DEF PanelsInv, WindowsKnown
  <2> QED
    BY <1>1, <1>5, <2>1, <2>2 DEF PanelsInv, HiddenStrays, Resting, Pan!ShownPanelReserves,
       Pan!ShownEverywhere, Pan!FramesFollowAnimation
<1>6. CASE panel.alive
  <2>1. Pan!Launch(panel, {m}) /\ {m} \in SUBSET Output
    BY <1>1, <1>6
  <2>2. /\ panel' \in PanelRecord /\ panel_wins' \in Windows
        /\ panel'.alive = panel.alive /\ panel'.hidden = panel.hidden
        /\ panel'.frames = panel.frames /\ panel'.anim = panel.anim
        /\ panel'.edge = panel.edge /\ panel'.autohide = panel.autohide /\ panel'.hovered = panel.hovered
        /\ panel'.target = panel.target /\ panel'.at = panel.at
        /\ panel'.entry = (panel.entry \/ {m} # {})
        /\ \A x \in Output : x \notin {m} => panel_wins'[x] = panel_wins[x]
        /\ \A x \in {m} : panel_wins'[x].open /\ panel_wins'[x].margin = Pan!Rest(panel.edge, panel.autohide)
    BY <1>2, <2>1, LaunchIs
  <2>3. PanelsTyped'
    BY <1>1, <1>2, <1>4, <2>2 DEF PanelsInv, PanelsTyped
  <2>4. WindowsKnown' /\ HiddenStrays'
    BY <1>1, <1>4, <1>6, <2>2 DEF PanelsInv, WindowsKnown, HiddenStrays
  <2>5. Pan!ShownEverywhere' /\ Pan!FramesFollowAnimation' /\ Pan!ShownPanelReserves'
    <3>1. Pan!ShownEverywhere'
      BY <1>1, <1>2, <1>4, <2>2 DEF PanelsInv, Pan!ShownEverywhere
    <3>2. Pan!FramesFollowAnimation' /\ Pan!ShownPanelReserves'
      BY <1>1, <2>2 DEF PanelsInv, Pan!FramesFollowAnimation, Pan!ShownPanelReserves
    <3> QED
      BY <3>1, <3>2
  <2>6. Resting'
    <3> SUFFICES ASSUME panel.autohide, ~astray'.margins PROVE Resting'
      BY <2>2 DEF Resting
    <3>1. panel.anim = "none" /\ ~panel.hovered /\ ~astray.margins
      BY <1>4, <1>6, UnmovedRests
    <3>2. /\ panel.at = Pan!Rest("tucked", ~panel.hovered)
          /\ \A x \in Output : panel_wins[x].open => panel_wins[x].margin = Pan!Rest(panel.edge, ~panel.hovered)
      BY <1>6, <3>1 DEF PanelsInv, Resting
    <3> QED
      BY <2>2, <3>1, <3>2 DEF Resting, Pan!Rest
  <2> QED
    BY <2>3, <2>4, <2>5, <2>6 DEF PanelsInv
<1> QED
  BY <1>5, <1>6

\* An output goes, with its window.
LEMMA UnplugKeeps ==
  ASSUME PanelsInv, Pan!Unplug PROVE PanelsInv'
<1>1. PICK m \in outputs :
        /\ outputs' = outputs \ {m} /\ panel_wins' = [panel_wins EXCEPT ![m] = Pan!NoWindow]
        /\ UNCHANGED <<panel_file, animate, last_configs, panel, reserved, panel_drawn, astray>>
  BY DEF Pan!Unplug
<1>2. panel_wins \in Windows /\ outputs \subseteq Output
  BY DEF PanelsInv, PanelsTyped
<1>3. /\ ~Pan!NoWindow.open
      /\ Pan!NoWindow \in [open : BOOLEAN, anchor : Pan!Edge, margin : {"none", "between", "top", "bottom"}]
  BY DEF Pan!NoWindow, Pan!Edge
<1>4. panel_wins' \in Windows /\ \A x \in Output : panel_wins'[x] = IF x = m THEN Pan!NoWindow ELSE panel_wins[x]
  BY <1>1, <1>2, <1>3 DEF Windows
<1>5. PanelsTyped'
  BY <1>1, <1>2, <1>4 DEF PanelsInv, PanelsTyped
<1>6. WindowsKnown' /\ HiddenStrays' /\ Resting'
  BY <1>1, <1>3, <1>4 DEF PanelsInv, WindowsKnown, HiddenStrays, Resting
<1>7. Pan!ShownEverywhere' /\ Pan!FramesFollowAnimation' /\ Pan!ShownPanelReserves'
  BY <1>1, <1>2, <1>4 DEF PanelsInv, Pan!ShownEverywhere, Pan!FramesFollowAnimation, Pan!ShownPanelReserves
<1> QED
  BY <1>5, <1>6, <1>7 DEF PanelsInv

\* Margins change on the windows that are open.
LEMMA MarginsIs ==
  ASSUME PanelsInv, NEW p, NEW margin \in {"none", "between", "top", "bottom"}, Pan!Margins(p, margin)
  PROVE  /\ panel' = p /\ panel_wins' \in Windows
         /\ \A m \in Output : panel_wins'[m].open = panel_wins[m].open
         /\ \A m \in Output : panel_wins'[m].open => panel_wins'[m].margin = margin
<1> DEFINE W == [open : BOOLEAN, anchor : Pan!Edge, margin : {"none", "between", "top", "bottom"}]
<1>1. panel_wins \in [Output -> W]
  BY DEF PanelsInv, PanelsTyped, Windows
<1>2. /\ panel_wins' = [m \in Output |-> IF panel_wins[m].open THEN [panel_wins[m] EXCEPT !.margin = margin]
                                         ELSE Pan!NoWindow]
      /\ panel' = p
  BY DEF Pan!Margins
<1>3. ASSUME NEW w \in W
      PROVE  /\ [w EXCEPT !.margin = margin] \in W /\ [w EXCEPT !.margin = margin].open = w.open
             /\ [w EXCEPT !.margin = margin].margin = margin
  BY <1>3
<1>4. Pan!NoWindow \in W /\ ~Pan!NoWindow.open
  BY DEF Pan!NoWindow, Pan!Edge
<1>5. ASSUME NEW m \in Output
      PROVE  /\ panel_wins'[m] \in W /\ panel_wins'[m].open = panel_wins[m].open
             /\ panel_wins'[m].open => panel_wins'[m].margin = margin
  <2>1. panel_wins[m] \in W /\ panel_wins[m].open \in BOOLEAN
    BY <1>1
  <2>2. panel_wins'[m] = IF panel_wins[m].open THEN [panel_wins[m] EXCEPT !.margin = margin] ELSE Pan!NoWindow
    BY <1>2
  <2>3. CASE panel_wins[m].open
    BY <1>3, <2>1, <2>2, <2>3
  <2>4. CASE ~panel_wins[m].open
    BY <1>4, <2>1, <2>2, <2>4
  <2> QED
    BY <2>3, <2>4
<1>6. panel_wins' \in Windows
  <2>1. panel_wins' = [m \in Output |-> panel_wins'[m]]
    BY <1>2
  <2> QED
    BY <1>5, <2>1 DEF Windows
<1> QED
  BY <1>2, <1>5, <1>6

\* Steps that move the panel where it is.
LEMMA MoveKeeps ==
  ASSUME PanelsInv, panel' \in PanelRecord, panel_wins' \in Windows,
         \A m \in Output : panel_wins'[m].open = panel_wins[m].open,
         UNCHANGED <<panel_file, animate, last_configs, outputs, reserved, panel_drawn>>,
         panel'.entry = panel.entry, panel'.hidden = panel.hidden, panel'.alive = panel.alive,
         panel'.edge = panel.edge, astray' \in [places : BOOLEAN, margins : BOOLEAN],
         astray'.places = astray.places, Pan!FramesFollowAnimation', Resting'
  PROVE  PanelsInv'
<1>1. PanelsTyped'
  BY DEF PanelsInv, PanelsTyped
<1>2. WindowsKnown' /\ HiddenStrays'
  BY DEF PanelsInv, WindowsKnown, HiddenStrays
<1>3. Pan!ShownEverywhere' /\ Pan!ShownPanelReserves'
  BY DEF PanelsInv, PanelsTyped, Pan!ShownEverywhere, Pan!ShownPanelReserves
<1> QED
  BY <1>1, <1>2, <1>3 DEF PanelsInv

\* The fields of a panel that is animated.
LEMMA StartAutohideIs ==
  ASSUME NEW p \in PanelRecord, NEW target \in BOOLEAN
  PROVE  LET q == Pan!StartAutohide(p, target)
         IN  /\ q \in PanelRecord /\ q.entry = p.entry /\ q.hidden = p.hidden /\ q.alive = p.alive
             /\ q.edge = p.edge /\ q.autohide = p.autohide /\ q.hovered = p.hovered /\ q.at = p.at
             /\ \/ /\ (target = p.target /\ p.anim # "none") \/ (p.at = Pan!Rest("tucked", target) /\ p.anim = "none")
                   /\ q = p
                \/ q.target = target /\ q.anim = "running" /\ q.frames
<1>1. CASE (target = p.target /\ p.anim # "none") \/ (p.at = Pan!Rest("tucked", target) /\ p.anim = "none")
  BY <1>1 DEF Pan!StartAutohide
<1>2. CASE ~((target = p.target /\ p.anim # "none") \/ (p.at = Pan!Rest("tucked", target) /\ p.anim = "none"))
  <2> DEFINE r == [p EXCEPT !.target = target, !.anim = "running"]
  <2>1. /\ r \in PanelRecord /\ r.entry = p.entry /\ r.hidden = p.hidden /\ r.alive = p.alive
        /\ r.edge = p.edge /\ r.autohide = p.autohide /\ r.hovered = p.hovered /\ r.at = p.at
        /\ r.target = target /\ r.anim = "running"
    BY DEF PanelRecord
  <2>2. Pan!StartAutohide(p, target) = [r EXCEPT !.frames = r.anim # "none"]
    BY <1>2 DEF Pan!StartAutohide, Pan!Subscribed
  <2> HIDE DEF r
  <2> QED
    BY <2>1, <2>2 DEF PanelRecord
<1> QED
  BY <1>1, <1>2

\* The pointer comes or goes: over what was drawn.
LEMMA PointerKeeps ==
  ASSUME PanelsInv, Pan!Pointer PROVE PanelsInv'
<1>1. PICK tucked \in BOOLEAN :
        /\ IF panel_drawn.autohide THEN Pan!PointerAutohide(tucked) \/ Pan!PointerLate(tucked)
           ELSE Pan!PointerPlain(tucked)
        /\ astray' = [astray EXCEPT !.margins = astray.margins \/ panel_drawn.autohide # panel.autohide]
        /\ UNCHANGED <<panel_file, animate, last_configs, outputs, reserved, panel_drawn>>
  BY DEF Pan!Pointer, Pan!Unmoved
<1>2. /\ panel \in PanelRecord /\ astray \in [places : BOOLEAN, margins : BOOLEAN] /\ panel_wins \in Windows
      /\ panel_drawn.autohide \in BOOLEAN
  BY DEF PanelsInv, PanelsTyped
<1>3. /\ astray' \in [places : BOOLEAN, margins : BOOLEAN] /\ astray'.places = astray.places
      /\ ~astray'.margins => ~astray.margins /\ panel_drawn.autohide = panel.autohide
  BY <1>1, <1>2
<1> DEFINE p == [panel EXCEPT !.hovered = ~tucked]
<1>4. /\ p \in PanelRecord /\ p.entry = panel.entry /\ p.hidden = panel.hidden /\ p.alive = panel.alive
      /\ p.edge = panel.edge /\ p.autohide = panel.autohide /\ p.hovered = ~tucked /\ p.at = panel.at
      /\ p.frames = panel.frames /\ p.anim = panel.anim /\ p.target = panel.target
  BY <1>2 DEF PanelRecord
<1> HIDE DEF p
<1>5. Pan!FramesFollowAnimation
  BY DEF PanelsInv
<1>6. CASE panel_drawn.autohide /\ Pan!PointerAutohide(tucked)
  <2>1. /\ panel.autohide
        /\ IF animate THEN panel' = Pan!StartAutohide(p, tucked) /\ UNCHANGED panel_wins
           ELSE IF panel.anim # "none" THEN panel' = p /\ UNCHANGED panel_wins
           ELSE Pan!Margins([p EXCEPT !.target = tucked, !.at = Pan!Rest("tucked", tucked)], Pan!Rest(panel.edge, tucked))
    BY <1>6 DEF Pan!PointerAutohide, p
  <2>2. CASE animate
    <3>1. panel' = Pan!StartAutohide(p, tucked) /\ UNCHANGED panel_wins
      BY <2>1, <2>2
    <3>2. /\ panel' \in PanelRecord /\ panel'.entry = p.entry /\ panel'.hidden = p.hidden /\ panel'.alive = p.alive
          /\ panel'.edge = p.edge /\ panel'.autohide = p.autohide /\ panel'.hovered = p.hovered /\ panel'.at = p.at
          /\ \/ /\ (tucked = p.target /\ p.anim # "none") \/ (p.at = Pan!Rest("tucked", tucked) /\ p.anim = "none")
                /\ panel' = p
             \/ panel'.target = tucked /\ panel'.anim = "running" /\ panel'.frames
      BY <1>4, <3>1, StartAutohideIs
    <3>3. Pan!FramesFollowAnimation'
      BY <1>4, <1>5, <3>2 DEF Pan!FramesFollowAnimation
    <3>4. Resting'
      <4> SUFFICES ASSUME panel.alive, panel.autohide, ~astray.margins
                   PROVE  /\ panel'.anim # "none" => animate' /\ panel'.target = ~panel'.hovered
                          /\ panel'.anim # "running" =>
                               /\ panel'.at = Pan!Rest("tucked", ~panel'.hovered)
                               /\ \A m \in Output : panel_wins'[m].open =>
                                    panel_wins'[m].margin = Pan!Rest(panel'.edge, ~panel'.hovered)
        BY <1>3, <1>4, <3>2 DEF Resting
      <4>1. /\ panel.anim # "none" => panel.target = ~panel.hovered
            /\ panel.anim # "running" =>
                 /\ panel.at = Pan!Rest("tucked", ~panel.hovered)
                 /\ \A m \in Output : panel_wins[m].open => panel_wins[m].margin = Pan!Rest(panel.edge, ~panel.hovered)
        BY DEF PanelsInv, Resting
      <4>2. CASE panel' = p
        <5>1. panel.anim # "running" => tucked = ~panel.hovered
          BY <1>2, <1>4, <3>2, <4>1, <4>2 DEF Pan!Rest, PanelRecord
        <5>2. panel.anim # "none" => tucked = panel.target
          BY <1>4, <3>2, <4>2, <4>1
        <5> QED
          BY <1>1, <1>4, <2>2, <3>1, <4>1, <4>2, <5>1, <5>2
      <4>3. CASE panel'.target = tucked /\ panel'.anim = "running"
        BY <1>1, <1>4, <2>2, <3>2, <4>3
      <4> QED
        BY <3>2, <4>2, <4>3
    <3> QED
      BY <1>1, <1>3, <1>4, <2>2, <3>1, <3>2, <3>3, <3>4, <1>2, MoveKeeps
  <2>3. CASE ~animate /\ panel.anim # "none"
    <3>1. panel' = p /\ UNCHANGED panel_wins
      BY <2>1, <2>3
    <3>2. Pan!FramesFollowAnimation' /\ Resting'
      BY <1>1, <1>3, <1>4, <1>5, <2>3, <3>1 DEF PanelsInv, Resting, Pan!FramesFollowAnimation
    <3> QED
      BY <1>1, <1>2, <1>3, <1>4, <3>1, <3>2, MoveKeeps
  <2>4. CASE ~animate /\ panel.anim = "none"
    <3> DEFINE q == [p EXCEPT !.target = tucked, !.at = Pan!Rest("tucked", tucked)]
    <3>1. Pan!Margins(q, Pan!Rest(panel.edge, tucked))
      BY <2>1, <2>4
    <3>2. /\ q \in PanelRecord /\ q.entry = p.entry /\ q.hidden = p.hidden /\ q.alive = p.alive
          /\ q.edge = p.edge /\ q.autohide = p.autohide /\ q.hovered = p.hovered
          /\ q.at = Pan!Rest("tucked", tucked) /\ q.anim = p.anim /\ q.frames = p.frames
      BY <1>4 DEF PanelRecord, Pan!Rest
    <3>3. Pan!Rest(panel.edge, tucked) \in {"none", "between", "top", "bottom"}
      BY <1>2 DEF PanelRecord, Pan!Rest, Pan!Edge
    <3> HIDE DEF q
    <3>4. /\ panel' = q /\ panel_wins' \in Windows
          /\ \A m \in Output : panel_wins'[m].open = panel_wins[m].open
          /\ \A m \in Output : panel_wins'[m].open => panel_wins'[m].margin = Pan!Rest(panel.edge, tucked)
      BY <3>1, <3>3, MarginsIs
    <3>5. Pan!FramesFollowAnimation'
      BY <1>4, <1>5, <3>2, <3>4 DEF Pan!FramesFollowAnimation
    <3>6. Resting'
      BY <1>1, <1>4, <2>4, <3>2, <3>4 DEF Resting
    <3> QED
      BY <1>1, <1>2, <1>3, <1>4, <3>2, <3>4, <3>5, <3>6, MoveKeeps
  <2> QED
    BY <2>2, <2>3, <2>4
<1>7. CASE panel_drawn.autohide /\ Pan!PointerLate(tucked)
  <2>1. ~panel.autohide /\ Pan!Margins(panel, Pan!Rest(panel_drawn.edge, tucked))
    BY <1>7 DEF Pan!PointerLate
  <2>2. Pan!Rest(panel_drawn.edge, tucked) \in {"none", "between", "top", "bottom"}
    BY DEF Pan!Rest, Pan!Edge, PanelsInv, PanelsTyped
  <2>3. /\ panel' = panel /\ panel_wins' \in Windows
        /\ \A m \in Output : panel_wins'[m].open = panel_wins[m].open
    BY <2>1, <2>2, MarginsIs
  <2>4. Pan!FramesFollowAnimation' /\ Resting'
    BY <1>5, <2>1, <2>3 DEF Resting, Pan!FramesFollowAnimation
  <2> QED
    BY <1>1, <1>2, <1>3, <2>3, <2>4, MoveKeeps
<1>8. CASE ~panel_drawn.autohide
  <2>1. panel' = p /\ UNCHANGED panel_wins
    BY <1>1, <1>8 DEF Pan!PointerPlain, p
  <2>2. Pan!FramesFollowAnimation'
    BY <1>4, <1>5, <2>1 DEF Pan!FramesFollowAnimation
  <2>3. Resting'
    BY <1>2, <1>3, <1>4, <1>8, <2>1 DEF Resting, PanelRecord
  <2> QED
    BY <1>1, <1>2, <1>3, <1>4, <2>1, <2>2, <2>3, MoveKeeps
<1> QED
  BY <1>1, <1>6, <1>7, <1>8

\* The animation moves, arrives and is over.
LEMMA AnimationKeeps ==
  ASSUME PanelsInv, Pan!Moving \/ Pan!Arrives \/ Pan!Settles PROVE PanelsInv'
<1>1. /\ UNCHANGED <<panel_file, animate, last_configs, outputs, reserved, panel_drawn, astray>>
      /\ panel.alive /\ panel.frames
  BY DEF Pan!Moving, Pan!Arrives, Pan!Settles, Pan!Tick, Pan!Ticks, Pan!Unmoved
<1>2. /\ panel \in PanelRecord /\ astray \in [places : BOOLEAN, margins : BOOLEAN] /\ panel_wins \in Windows
  BY DEF PanelsInv, PanelsTyped
<1>3. Pan!FramesFollowAnimation
  BY DEF PanelsInv
<1>4. CASE Pan!Moving
  <2> DEFINE q == [panel EXCEPT !.at = "between"]
  <2>1. Pan!Margins(q, "between") /\ panel.anim = "running"
    BY <1>4 DEF Pan!Moving
  <2>2. /\ q \in PanelRecord /\ q.entry = panel.entry /\ q.hidden = panel.hidden /\ q.alive = panel.alive
        /\ q.edge = panel.edge /\ q.autohide = panel.autohide /\ q.hovered = panel.hovered
        /\ q.anim = "running" /\ q.frames = panel.frames /\ q.target = panel.target
    BY <1>2, <2>1 DEF PanelRecord
  <2>3. "between" \in {"none", "between", "top", "bottom"}
    OBVIOUS
  <2> HIDE DEF q
  <2>4. /\ panel' = q /\ panel_wins' \in Windows
        /\ \A m \in Output : panel_wins'[m].open = panel_wins[m].open
    BY <2>1, <2>3, MarginsIs
  <2>5. Pan!FramesFollowAnimation' /\ Resting'
    BY <1>1, <1>3, <2>1, <2>2, <2>4 DEF Pan!FramesFollowAnimation, PanelsInv, Resting
  <2> QED
    BY <1>1, <1>2, <2>2, <2>4, <2>5, MoveKeeps
<1>5. CASE Pan!Arrives
  <2> DEFINE q == [panel EXCEPT !.anim = "settling", !.at = Pan!Rest("tucked", panel.target)]
  <2>1. Pan!Margins(q, Pan!Rest(panel.edge, panel.target)) /\ panel.anim = "running"
    BY <1>5 DEF Pan!Arrives
  <2>2. /\ q \in PanelRecord /\ q.entry = panel.entry /\ q.hidden = panel.hidden /\ q.alive = panel.alive
        /\ q.edge = panel.edge /\ q.autohide = panel.autohide /\ q.hovered = panel.hovered
        /\ q.anim = "settling" /\ q.frames = panel.frames /\ q.target = panel.target
        /\ q.at = Pan!Rest("tucked", panel.target)
    BY <1>2, <2>1 DEF PanelRecord, Pan!Rest
  <2>3. Pan!Rest(panel.edge, panel.target) \in {"none", "between", "top", "bottom"}
    BY <1>2 DEF PanelRecord, Pan!Rest, Pan!Edge
  <2> HIDE DEF q
  <2>4. /\ panel' = q /\ panel_wins' \in Windows
        /\ \A m \in Output : panel_wins'[m].open = panel_wins[m].open
        /\ \A m \in Output : panel_wins'[m].open => panel_wins'[m].margin = Pan!Rest(panel.edge, panel.target)
    BY <2>1, <2>3, MarginsIs
  <2>5. Pan!FramesFollowAnimation' /\ Resting'
    BY <1>1, <1>3, <2>1, <2>2, <2>4 DEF Pan!FramesFollowAnimation, PanelsInv, Resting
  <2> QED
    BY <1>1, <1>2, <2>2, <2>4, <2>5, MoveKeeps
<1>6. CASE Pan!Settles
  <2> DEFINE q == [panel EXCEPT !.anim = "none"]
  <2>1. /\ panel.anim = "settling" /\ UNCHANGED panel_wins
        /\ panel' = [q EXCEPT !.frames = q.anim # "none"]
    BY <1>6 DEF Pan!Settles, Pan!Subscribed
  <2>2. /\ q \in PanelRecord /\ q.entry = panel.entry /\ q.hidden = panel.hidden /\ q.alive = panel.alive
        /\ q.edge = panel.edge /\ q.autohide = panel.autohide /\ q.hovered = panel.hovered
        /\ q.anim = "none" /\ q.at = panel.at
    BY <1>2 DEF PanelRecord
  <2> HIDE DEF q
  <2>3. /\ panel' \in PanelRecord /\ panel'.entry = panel.entry /\ panel'.hidden = panel.hidden
        /\ panel'.alive = panel.alive /\ panel'.edge = panel.edge /\ panel'.autohide = panel.autohide
        /\ panel'.hovered = panel.hovered /\ panel'.anim = "none" /\ panel'.at = panel.at /\ ~panel'.frames
    BY <2>1, <2>2 DEF PanelRecord
  <2>4. Pan!FramesFollowAnimation' /\ Resting'
    BY <1>1, <2>1, <2>3 DEF Pan!FramesFollowAnimation, PanelsInv, Resting
  <2> QED
    BY <1>1, <1>2, <2>1, <2>3, <2>4, MoveKeeps
<1> QED
  BY <1>4, <1>5, <1>6

\* Every step of the panel's life.
LEMMA PanelsRunKeeps ==
  ASSUME PanelsInv, Pan!Next PROVE PanelsInv'
<1>1. ASSUME Pan!WatcherReload \/ Pan!CommandReload PROVE PanelsInv'
  <2>1. TRUE \in BOOLEAN /\ FALSE \in BOOLEAN
    OBVIOUS
  <2>2. Pan!Reload(TRUE) \/ Pan!Reload(FALSE)
    BY <1>1 DEF Pan!WatcherReload, Pan!CommandReload
  <2> QED
    BY <2>1, <2>2, ReloadKeeps
<1>2. ASSUME Pan!Hide \/ Pan!Show \/ Pan!Toggle PROVE PanelsInv'
  <2>1. /\ panel.alive /\ UNCHANGED <<panel_file, animate, last_configs, outputs, panel_drawn>>
        /\ Pan!HidePanel \/ Pan!ShowPanel
    BY <1>2 DEF Pan!Hide, Pan!Show, Pan!Toggle, Pan!Command, Pan!Unmoved
  <2> QED
    BY <2>1, HideKeeps, ShowKeeps
<1> QED
  BY <1>1, <1>2, EditKeeps, CreateKeeps, ConfigureKeeps, PlugKeeps, UnplugKeeps, PointerKeeps, AnimationKeeps
     DEF Pan!Next

\* The parts of the invariant that the properties are made of.
LEMMA PanelsGive ==
  ASSUME PanelsInv PROVE Pan!TypeOK /\ PanelsAreWhole
<1>1. Pan!TypeOK
  BY DEF PanelsInv, PanelsTyped, PanelRecord, WindowsKnown, Pan!TypeOK, MaybeEdge
<1>2. Pan!RestsAsHovered
  BY DEF PanelsInv, Resting, Pan!RestsAsHovered
<1> QED
  BY <1>1, <1>2 DEF PanelsInv, PanelsAreWhole

\* The panel of the first configuration.
LEMMA PanelsStart ==
  ASSUME Pan!Init PROVE PanelsInv
<1>1. PICK autohide \in BOOLEAN :
        /\ panel_file = [block |-> TRUE, names |-> {"this"}, edge |-> "top", autohide |-> autohide, animate |-> TRUE]
        /\ animate = TRUE /\ last_configs = {"this"} /\ outputs = {CHOOSE m \in Output : TRUE}
        /\ panel = [Pan!NewPanel("top", autohide) EXCEPT !.entry = TRUE]
        /\ panel_wins = [m \in Output |-> IF m \in outputs THEN Pan!Layer(panel) ELSE Pan!NoWindow]
        /\ reserved = [name |-> "top", event |-> "none"]
        /\ panel_drawn = [here |-> FALSE, autohide |-> autohide, edge |-> "top"]
        /\ astray = [places |-> FALSE, margins |-> FALSE]
  BY DEF Pan!Init
<1> DEFINE p == Pan!NewPanel("top", autohide)
<1>2. /\ p \in PanelRecord /\ p.edge = "top" /\ p.autohide = autohide /\ p.at = Pan!Rest("tucked", autohide)
      /\ p.anim = "none" /\ ~p.hovered /\ ~p.hidden /\ ~p.frames /\ p.alive
  BY NewPanelIs DEF Pan!NewPanel, Pan!Edge
<1>3. panel = [p EXCEPT !.entry = TRUE]
  BY <1>1
<1> HIDE DEF p
<1>4. /\ panel \in PanelRecord /\ panel.edge = "top" /\ panel.autohide = autohide
      /\ panel.at = Pan!Rest("tucked", autohide) /\ panel.anim = "none" /\ ~panel.hovered /\ ~panel.hidden
      /\ ~panel.frames /\ panel.alive /\ panel.entry
  BY <1>2, <1>3 DEF PanelRecord
<1>5. /\ Pan!Layer(panel).open /\ Pan!Layer(panel).margin = Pan!Rest("top", autohide)
      /\ Pan!Layer(panel) \in [open : BOOLEAN, anchor : Pan!Edge, margin : {"none", "between", "top", "bottom"}]
      /\ Pan!NoWindow \in [open : BOOLEAN, anchor : Pan!Edge, margin : {"none", "between", "top", "bottom"}]
      /\ ~Pan!NoWindow.open
  BY <1>4 DEF Pan!Layer, Pan!Rest, Pan!Edge, Pan!NoWindow
<1>6. outputs \subseteq Output
  BY <1>1, ProgressAssumption
<1>7. /\ panel_wins \in Windows
      /\ \A m \in Output : panel_wins[m] = IF m \in outputs THEN Pan!Layer(panel) ELSE Pan!NoWindow
  BY <1>1, <1>5 DEF Windows
<1>8. PanelsTyped
  BY <1>1, <1>4, <1>6, <1>7 DEF PanelsTyped, Pan!Names, Pan!Edge, MaybeEdge
<1>9. WindowsKnown /\ HiddenStrays /\ Resting
  BY <1>4, <1>5, <1>7 DEF WindowsKnown, HiddenStrays, Resting, Pan!Rest
<1>10. Pan!ShownPanelReserves /\ Pan!ShownEverywhere /\ Pan!FramesFollowAnimation
  <2>1. reserved.name = panel.edge
    BY <1>1, <1>4
  <2>2. \A m \in outputs : panel_wins[m].open
    BY <1>5, <1>6, <1>7
  <2> QED
    BY <1>4, <2>1, <2>2 DEF Pan!ShownPanelReserves, Pan!ShownEverywhere, Pan!FramesFollowAnimation, PanelRecord
<1> QED
  BY <1>8, <1>9, <1>10 DEF PanelsInv

\* The panel while another part runs.
LEMMA PanelsStay ==
  ASSUME PanelsInv, UNCHANGED panelVars PROVE PanelsInv'
BY DEF PanelsInv, panelVars, PanelsTyped, WindowsKnown, HiddenStrays, Resting,
   Pan!ShownPanelReserves, Pan!ShownEverywhere, Pan!FramesFollowAnimation

\* No cards yet.
LEMMA CardsStart ==
  ASSUME Cards!Init PROVE CardsInv
<1>1. <<>> \in Seq(Card) /\ <<>> \in Seq({"changed", "closed"}) /\ Len(Cards!Take(<<>>)) = 0
  BY ProgressAssumption DEF Cards!Take, Cards!Min
<1>2. cards = <<>> /\ last_count = 0
  BY DEF Cards!Init
<1>3. last_count \in 0..MaxVisible
  BY <1>2, ProgressAssumption
<1>4. CardsTyped
  <2>1. cards \in Seq(Card) /\ last_items \in Seq(Card) /\ replies \subseteq Card /\ cards_next \in Nat \ {0}
    BY <1>1 DEF Cards!Init
  <2>2. cards_queue \in Seq({"changed", "closed"})
    BY <1>1 DEF Cards!Init
  <2>3. cards_item \in [window : BOOLEAN, entry : BOOLEAN] /\ ~cards_item.window
    BY DEF Cards!Init
  <2>4. cards_drawn \in [closing : BOOLEAN, items : Seq(Card)]
    <3>1. cards_drawn = [closing |-> FALSE, items |-> <<>>]
      BY DEF Cards!Init, Cards!Nothing
    <3> QED
      BY <1>1, <3>1
  <2>5. closing \in BOOLEAN /\ crossed \in BOOLEAN
    BY DEF Cards!Init
  <2> QED
    BY <1>3, <2>1, <2>2, <2>3, <2>4, <2>5 DEF CardsTyped
<1>5. Len(Cards!Take(cards)) = last_count
  BY <1>1, <1>2
<1> QED
  BY <1>2, <1>4, <1>5 DEF CardsInv, CardsCounted

\* The cards while another part runs.
LEMMA CardsStay ==
  ASSUME CardsInv, UNCHANGED cardVars PROVE CardsInv'
BY DEF CardsInv, cardVars, CardsTyped, CardsCounted, UpToDate, Cards!Registered

----------------------------------------------------------------------------
(***************************************************************************)
(* The network service                                                     *)
(***************************************************************************)
MaybeAp == Ap \cup {NoSsid}
MaybeSsid == Net!Ssid \cup {NoSsid}
Wire == {"none", "down", "up"}
Manager ==
  [radio : BOOLEAN, present : SUBSET Ap, late : SUBSET Ap, active : MaybeAp, up : BOOLEAN, eth : Wire,
   saved : SUBSET Net!Ssid]
Findings == [aps : SUBSET Ap, marks : SUBSET Net!Ssid, active : MaybeAp, up : BOOLEAN, eth : Wire]
Word == {"radio", "devices", "device"}
Choice == [selected : MaybeSsid, password : MaybeSsid, info : MaybeSsid]
\* A command has the password of the network it is about, or none.
NetCommand ==
  {c \in [op : {"connect", "disconnect", "wired", "toggle", "scan"}, ssid : MaybeSsid, password : MaybeSsid] :
     c.password \in {NoSsid, c.ssid}}

NetTyped ==
  /\ nm \in Manager /\ known \in Findings
  /\ net_loop \in {"down", "starting", "listening", "connect", "disconnect", "wired", "toggle"}
  /\ signals \subseteq Ap \cup Word /\ saved_ssids \subseteq SUBSET Net!Ssid
  /\ net_cmds \in Seq(NetCommand)
  /\ net_state = Net!Publish(net_state.radio, known) /\ net_state.radio \in BOOLEAN
  /\ net_signal \in {"empty", "written", "drained"} /\ unseen \in BOOLEAN /\ missed \in BOOLEAN

\* A panel that was told of nothing since it looked shows what is published.
NetTold ==
  /\ ~unseen => net_panel = Net!Face
  /\ net_signal = "empty" => ~unseen

\* The menu is drawn with what was chosen in it, and a password fits the choice.
MenuFits ==
  /\ net_menu \in Choice /\ net_menu.password \in {NoSsid, net_menu.selected}
  /\ net_drawn.menu = net_menu
  /\ \A n \in net_drawn.state.networks : n.ssid \in Net!Ssid

\* NetworkManager uses no path twice, and what it is joined to is there.
Paths ==
  /\ nm.late \cap nm.present = {}
  /\ nm.up \/ nm.active # NoSsid => nm.active \in nm.present
  /\ \A p \in Ap : p \in signals => p \notin nm.present /\ p \notin nm.late
  /\ net_loop \in {"down", "starting"} => signals = {}

\* Of what it does not know the loop has word, unless it missed something.
Announced ==
  net_loop # "down" /\ ~missed =>
    /\ net_state.radio # nm.radio => "radio" \in signals
    /\ known.eth # nm.eth \/ known.active # nm.active \/ known.up # nm.up => "device" \in signals \/ "devices" \in signals
    /\ \A p \in nm.present : p \notin known.aps => "device" \in signals
    /\ \A p \in known.aps : p \notin nm.present => p \in signals

NetInv == NetTyped /\ NetTold /\ MenuFits /\ Paths /\ Announced

\* A record with another value in one field.
LEMMA RadioAlone ==
  ASSUME NEW a, NEW b, NEW e, NEW n, NEW w, NEW c
  PROVE  [[radio |-> a, eth |-> e, networks |-> n, wifi |-> w, connected |-> c] EXCEPT !.radio = b] =
            [radio |-> b, eth |-> e, networks |-> n, wifi |-> w, connected |-> c]
OBVIOUS

\* What is published, of what was found.
LEMMA PublishIs ==
  ASSUME NEW radio \in BOOLEAN, NEW k \in Findings
  PROVE  LET s == Net!Publish(radio, k)
         IN  /\ s.radio = radio /\ s.eth = k.eth
             /\ s.wifi = IF k.active \in k.aps /\ k.up THEN SsidOf[k.active] ELSE NoSsid
             /\ {n.ssid : n \in s.networks} = {SsidOf[p] : p \in k.aps}
             /\ \A n \in s.networks : n.ssid \in Net!Ssid
             /\ \A r \in BOOLEAN : [s EXCEPT !.radio = r] = Net!Publish(r, k)
<1> DEFINE s == Net!Publish(radio, k)
           names == {SsidOf[p] : p \in k.aps}
           row(x) == [ssid |-> x, in_use |-> Net!Best(k.aps, k.active, x) = k.active, saved |-> x \in k.marks]
<1>1. s.radio = radio /\ s.eth = k.eth /\ s.networks = {row(x) : x \in names}
  BY DEF Net!Publish
<1>2. s.wifi = IF k.active \in k.aps /\ k.up THEN SsidOf[k.active] ELSE NoSsid
  BY DEF Net!Publish
<1>3. \A r \in BOOLEAN : [s EXCEPT !.radio = r] = Net!Publish(r, k)
  <2> DEFINE p == Net!Publish(TRUE, k)
  <2>1. \A r \in BOOLEAN : Net!Publish(r, k) =
          [radio |-> r, eth |-> p.eth, networks |-> p.networks, wifi |-> p.wifi, connected |-> p.connected]
    BY DEF Net!Publish
  <2> HIDE DEF p
  <2> QED
    BY <2>1, RadioAlone
<1>4. \A x : row(x).ssid = x
  OBVIOUS
<1>5. names \subseteq Net!Ssid
  BY DEF Net!Ssid, Findings
<1> HIDE DEF s, row, names
<1>6. {n.ssid : n \in s.networks} = names
  BY <1>1, <1>4
<1>7. \A n \in s.networks : n.ssid \in Net!Ssid
  BY <1>1, <1>4, <1>5
<1> QED
  BY <1>1, <1>2, <1>3, <1>6, <1>7 DEF s, names

\* What is published is told.
LEMMA NetTells ==
  ASSUME NetInv, Net!Bump \/ UNCHANGED <<net_state, net_signal, unseen>>, UNCHANGED net_panel
  PROVE  NetTold' /\ net_signal' \in {"empty", "written", "drained"} /\ unseen' \in BOOLEAN
<1>1. NetTold'
  BY DEF NetInv, NetTold, Net!Bump, Net!Face
<1> QED
  BY <1>1 DEF NetInv, NetTyped, Net!Bump

\* Steps of the service, which leave the menu alone.
LEMMA ServiceKeeps ==
  ASSUME NetInv, Net!Bump \/ UNCHANGED <<net_state, net_signal, unseen>>,
         nm' \in Manager, known' \in Findings,
         net_loop' \in {"down", "starting", "listening", "connect", "disconnect", "wired", "toggle"},
         signals' \subseteq Ap \cup Word, saved_ssids' \subseteq SUBSET Net!Ssid, net_cmds' \in Seq(NetCommand),
         NEW radio \in BOOLEAN, net_state' = Net!Publish(radio, known'), missed' \in BOOLEAN,
         UNCHANGED <<net_panel, net_menu, net_drawn>>,
         Paths', Announced'
  PROVE  NetInv'
<1>1. NetTold' /\ net_signal' \in {"empty", "written", "drained"} /\ unseen' \in BOOLEAN
  BY NetTells
<1>2. net_state'.radio = radio
  BY PublishIs
<1>3. NetTyped'
  BY <1>1, <1>2 DEF NetTyped
<1>4. MenuFits'
  BY DEF NetInv, MenuFits
<1> QED
  BY <1>1, <1>3, <1>4 DEF NetInv

\* The saved names, from the cache or from NetworkManager.
LEMMA LoadSavedIs ==
  ASSUME NetInv PROVE Net!LoadSaved \in SUBSET Net!Ssid
BY DEF NetInv, NetTyped, Manager, Net!LoadSaved

\* The state, in the words of the proofs.
LEMMA NetIs ==
  ASSUME NetInv
  PROVE  /\ nm \in Manager /\ known \in Findings /\ signals \subseteq Ap \cup Word
         /\ saved_ssids \subseteq SUBSET Net!Ssid /\ net_cmds \in Seq(NetCommand)
         /\ net_state.radio \in BOOLEAN /\ net_state = Net!Publish(net_state.radio, known) /\ missed \in BOOLEAN
         /\ net_loop \in {"down", "starting", "listening", "connect", "disconnect", "wired", "toggle"}
         /\ nm.present \in SUBSET Ap /\ nm.active \in MaybeAp /\ nm.up \in BOOLEAN /\ nm.eth \in Wire
         /\ nm.saved \in SUBSET Net!Ssid /\ nm.radio \in BOOLEAN /\ known.aps \in SUBSET Ap
BY DEF NetInv, NetTyped, Manager, Findings

\* The loop starts, subscribes, and is lost.
LEMMA NetLifeKeeps ==
  ASSUME NetInv, Net!Start \/ Net!Subscribe \/ Net!Lose PROVE NetInv'
<1>1. /\ nm \in Manager /\ known \in Findings /\ signals \subseteq Ap \cup Word
      /\ saved_ssids \subseteq SUBSET Net!Ssid /\ net_cmds \in Seq(NetCommand)
      /\ net_state.radio \in BOOLEAN /\ net_state = Net!Publish(net_state.radio, known) /\ missed \in BOOLEAN
      /\ nm.present \in SUBSET Ap /\ nm.active \in MaybeAp /\ nm.up \in BOOLEAN /\ nm.eth \in Wire /\ nm.radio \in BOOLEAN
  BY NetIs
<1>2. Paths /\ Announced
  BY DEF NetInv
<1>3. CASE Net!Start
  <2>1. /\ net_loop = "down" /\ net_loop' = "starting"
        /\ known' = [aps |-> nm.present, marks |-> Net!LoadSaved, active |-> nm.active, up |-> nm.up, eth |-> nm.eth]
        /\ saved_ssids' = {Net!LoadSaved} /\ net_state' = Net!Publish(nm.radio, known')
        /\ missed' = FALSE /\ Net!Bump
        /\ UNCHANGED <<nm, signals, net_cmds, net_panel, net_menu, net_drawn>>
    BY <1>3 DEF Net!Start, Net!shown
  <2>2. known' \in Findings /\ saved_ssids' \subseteq SUBSET Net!Ssid
    BY <1>1, <2>1, LoadSavedIs DEF Findings
  <2>3. signals = {} /\ Paths'
    BY <1>2, <2>1 DEF Paths
  <2>4. net_state'.radio = nm.radio
    BY <1>1, <2>1, <2>2, PublishIs
  <2>5. Announced'
    BY <2>1, <2>4 DEF Announced
  <2> QED
    BY <1>1, <2>1, <2>2, <2>3, <2>5, ServiceKeeps
<1>4. CASE Net!Subscribe
  <2>1. /\ net_loop = "starting" /\ net_loop' = "listening" /\ signals' = {}
        /\ UNCHANGED <<nm, known, saved_ssids, net_state, net_cmds, net_signal, unseen, missed, net_panel, net_menu, net_drawn>>
    BY <1>4 DEF Net!Subscribe, Net!shown
  <2>2. signals = {} /\ Paths'
    BY <1>2, <2>1 DEF Paths
  <2>3. Announced'
    BY <1>2, <2>1, <2>2 DEF Announced
  <2>4. net_state' = Net!Publish(net_state.radio, known')
    BY <1>1, <2>1
  <2> QED
    BY <1>1, <2>1, <2>2, <2>3, <2>4, ServiceKeeps
<1>5. CASE Net!Lose
  <2>1. /\ net_loop' = "down" /\ signals' = {} /\ missed' = TRUE
        /\ UNCHANGED <<nm, known, saved_ssids, net_state, net_cmds, net_signal, unseen, net_panel, net_menu, net_drawn>>
    BY <1>5 DEF Net!Lose, Net!shown
  <2>2. Paths' /\ Announced'
    BY <1>2, <2>1 DEF Paths, Announced
  <2>3. net_state' = Net!Publish(net_state.radio, known')
    BY <1>1, <2>1
  <2> QED
    BY <1>1, <2>1, <2>2, <2>3, ServiceKeeps
<1> QED
  BY <1>3, <1>4, <1>5

\* The loop handles a signal: it reads again what the signal is about.
LEMMA OnSignalKeeps ==
  ASSUME NetInv, NEW sig \in signals, Net!OnSignal(sig) PROVE NetInv'
<1>1. /\ nm \in Manager /\ known \in Findings /\ signals \subseteq Ap \cup Word
      /\ saved_ssids \subseteq SUBSET Net!Ssid /\ net_cmds \in Seq(NetCommand)
      /\ net_state.radio \in BOOLEAN /\ net_state = Net!Publish(net_state.radio, known) /\ missed \in BOOLEAN
      /\ nm.present \in SUBSET Ap /\ nm.active \in MaybeAp /\ nm.up \in BOOLEAN /\ nm.eth \in Wire /\ nm.radio \in BOOLEAN
      /\ known.aps \in SUBSET Ap
  BY NetIs
<1>2. Paths /\ Announced
  BY DEF NetInv
<1>3. /\ net_loop = "listening" /\ signals' = signals \ {sig}
      /\ CASE sig = "radio" -> Net!RefreshRadio /\ UNCHANGED <<known, saved_ssids>>
           [] sig = "devices" -> Net!Refresh(TRUE, Net!LoadSaved) /\ Net!Bump
           [] sig = "device" -> Net!Refresh(FALSE, Net!LoadSaved) /\ Net!Bump
           [] OTHER -> /\ known' = [known EXCEPT !.aps = known.aps \ {sig}]
                       /\ net_state' = Net!Publish(net_state.radio, known') /\ Net!Bump
                       /\ UNCHANGED saved_ssids
      /\ UNCHANGED <<nm, net_loop, net_cmds, missed, net_panel, net_menu, net_drawn>>
  BY DEF Net!OnSignal, Net!shown
<1>4. Paths' /\ signals' \subseteq Ap \cup Word
  BY <1>1, <1>2, <1>3 DEF Paths
<1>5. Ap \cap Word = {}
  BY ProgressAssumption DEF Word
<1>6. CASE sig = "radio"
  <2>1. Net!RefreshRadio /\ UNCHANGED <<known, saved_ssids>>
    BY <1>3, <1>6
  <2>2. net_state' = Net!Publish(nm.radio, known') /\ (Net!Bump \/ UNCHANGED <<net_state, net_signal, unseen>>)
    <3>1. CASE nm.radio # net_state.radio
      <4>1. net_state' = [net_state EXCEPT !.radio = nm.radio] /\ Net!Bump
        BY <2>1, <3>1 DEF Net!RefreshRadio
      <4> QED
        BY <1>1, <2>1, <4>1, PublishIs
    <3>2. CASE nm.radio = net_state.radio
      BY <1>1, <2>1, <3>2 DEF Net!RefreshRadio
    <3> QED
      BY <3>1, <3>2
  <2>3. net_state'.radio = nm.radio
    BY <1>1, <2>1, <2>2, PublishIs
  <2>4. \A p \in known.aps : p # sig
    BY <1>1, <1>5, <1>6 DEF Word
  <2>5. Announced'
    BY <1>2, <1>3, <1>6, <2>1, <2>3, <2>4 DEF Announced
  <2> QED
    BY <1>1, <1>3, <1>4, <2>1, <2>2, <2>5, ServiceKeeps
<1>7. ASSUME NEW all \in BOOLEAN, sig = (IF all THEN "devices" ELSE "device"), Net!Refresh(all, Net!LoadSaved), Net!Bump
      PROVE  NetInv'
  <2>1. /\ known' = [aps |-> known.aps \cup (IF all /\ known.aps # {} THEN {} ELSE nm.present),
                     marks |-> Net!LoadSaved, active |-> nm.active, up |-> nm.up, eth |-> nm.eth]
        /\ saved_ssids' = {Net!LoadSaved} /\ net_state' = Net!Publish(net_state.radio, known')
    BY <1>7 DEF Net!Refresh, Net!Refreshed
  <2>2. known' \in Findings /\ saved_ssids' \subseteq SUBSET Net!Ssid
    BY <1>1, <2>1, LoadSavedIs DEF Findings
  <2>3. net_state'.radio = net_state.radio
    BY <1>1, <2>1, <2>2, PublishIs
  <2>4. /\ known'.aps = known.aps \cup (IF all /\ known.aps # {} THEN {} ELSE nm.present)
        /\ known'.active = nm.active /\ known'.up = nm.up /\ known'.eth = nm.eth
    BY <2>1
  <2>5. Announced'
    <3> SUFFICES ASSUME ~missed PROVE Announced'
      BY <1>3 DEF Announced
    <3>1. net_loop # "down" /\ ~missed /\ net_loop' # "down" /\ ~missed'
      BY <1>3
    <3>2. net_state'.radio # nm'.radio => "radio" \in signals'
      BY <1>2, <1>3, <1>7, <2>3, <3>1 DEF Announced
    <3>3. \A p \in nm'.present : p \notin known'.aps => "device" \in signals'
      <4> SUFFICES ASSUME NEW p \in nm.present, p \notin known'.aps PROVE "device" \in signals'
        BY <1>3
      <4>1. all /\ p \notin known.aps
        BY <2>4
      <4> QED
        BY <1>2, <1>3, <1>7, <3>1, <4>1 DEF Announced
    <3>4. \A p \in known'.aps : p \notin nm'.present => p \in signals'
      <4> SUFFICES ASSUME NEW p \in known'.aps, p \notin nm.present PROVE p \in signals'
        BY <1>3
      <4>1. p \in known.aps /\ p \in Ap
        BY <1>1, <2>4
      <4>2. p \in signals /\ p # sig
        BY <1>2, <1>5, <1>7, <3>1, <4>1 DEF Announced, Word
      <4> QED
        BY <1>3, <4>2
    <3> QED
      BY <1>3, <2>4, <3>2, <3>3, <3>4 DEF Announced
  <2> QED
    BY <1>1, <1>3, <1>4, <1>7, <2>1, <2>2, <2>5, ServiceKeeps
<1>8. CASE sig \in Ap
  <2>1. sig \notin {"radio", "devices", "device"}
    BY <1>5, <1>8 DEF Word
  <2>2. /\ known' = [known EXCEPT !.aps = known.aps \ {sig}]
        /\ net_state' = Net!Publish(net_state.radio, known') /\ Net!Bump /\ UNCHANGED saved_ssids
    BY <1>3, <2>1
  <2>3. /\ known' \in Findings /\ known'.aps = known.aps \ {sig}
        /\ known'.active = known.active /\ known'.up = known.up /\ known'.eth = known.eth
    BY <1>1, <2>2 DEF Findings
  <2>4. net_state'.radio = net_state.radio
    BY <1>1, <2>2, <2>3, PublishIs
  <2>5. sig \notin nm.present
    BY <1>2, <1>8 DEF Paths
  <2>6. Announced'
    BY <1>2, <1>3, <2>1, <2>3, <2>4, <2>5 DEF Announced
  <2> QED
    BY <1>1, <1>3, <1>4, <2>2, <2>3, <2>6, ServiceKeeps
<1>9. CASE sig = "devices"
  <2>1. Net!Refresh(TRUE, Net!LoadSaved) /\ Net!Bump /\ TRUE \in BOOLEAN
    BY <1>3, <1>9
  <2>2. sig = (IF TRUE THEN "devices" ELSE "device")
    BY <1>9
  <2> QED
    BY <1>7, <2>1, <2>2
<1>10. CASE sig = "device"
  <2>1. Net!Refresh(FALSE, Net!LoadSaved) /\ Net!Bump /\ FALSE \in BOOLEAN
    BY <1>3, <1>10
  <2>2. sig = (IF FALSE THEN "devices" ELSE "device")
    BY <1>10
  <2> QED
    BY <1>7, <2>1, <2>2
<1> QED
  BY <1>1, <1>6, <1>8, <1>9, <1>10 DEF Word

\* A command begins.
LEMMA NetTakeKeeps ==
  ASSUME NetInv, Net!TakeCmd \/ Net!ScanOver PROVE NetInv'
<1>1. /\ nm \in Manager /\ known \in Findings /\ signals \subseteq Ap \cup Word
      /\ saved_ssids \subseteq SUBSET Net!Ssid /\ net_cmds \in Seq(NetCommand)
      /\ net_state.radio \in BOOLEAN /\ net_state = Net!Publish(net_state.radio, known) /\ missed \in BOOLEAN
  BY NetIs
<1>2. Paths /\ Announced
  BY DEF NetInv
<1>3. /\ net_loop = "listening" /\ Net!Bump
      /\ UNCHANGED <<nm, signals, known, saved_ssids, net_state, missed, net_panel, net_menu, net_drawn>>
  BY DEF Net!TakeCmd, Net!ScanOver, Net!shown
<1>4. /\ net_cmds' \in Seq(NetCommand)
      /\ net_loop' \in {"listening", "connect", "disconnect", "wired", "toggle"}
  <2>1. CASE Net!TakeCmd
    <3>1. /\ net_cmds # <<>> /\ net_cmds' = Tail(net_cmds)
          /\ net_loop' = IF Head(net_cmds).op = "scan" THEN net_loop ELSE Head(net_cmds).op
      BY <2>1 DEF Net!TakeCmd
    <3>2. Head(net_cmds) \in NetCommand /\ Tail(net_cmds) \in Seq(NetCommand)
      BY <1>1, <3>1
    <3>3. Head(net_cmds).op \in {"connect", "disconnect", "wired", "toggle", "scan"}
      BY <3>2 DEF NetCommand
    <3> QED
      BY <1>3, <3>1, <3>2, <3>3
  <2>2. CASE Net!ScanOver
    BY <1>1, <1>3, <2>2 DEF Net!ScanOver
  <2> QED
    BY <2>1, <2>2
<1>5. Paths' /\ Announced'
  BY <1>2, <1>3, <1>4 DEF Paths, Announced
<1>6. net_state' = Net!Publish(net_state.radio, known')
  BY <1>1, <1>3
<1> QED
  BY <1>1, <1>3, <1>4, <1>5, <1>6, ServiceKeeps

\* What NetworkManager makes of a command.
LEMMA OutcomeIs ==
  ASSUME NetInv, NEW op \in {"connect", "disconnect", "wired", "toggle"}, NEW m \in Net!Outcome(op)
  PROVE  /\ m \in Manager /\ m.present = nm.present /\ m.late = nm.late
         /\ m.up \/ m.active # NoSsid => m.active \in m.present
         /\ op # "toggle" => m.radio = nm.radio
         /\ op = "toggle" => m.active = nm.active /\ m.up = nm.up /\ m.eth = nm.eth
<1>1. nm \in Manager /\ nm.present \in SUBSET Ap /\ nm.saved \in SUBSET Net!Ssid
  BY NetIs
<1>2. nm.up \/ nm.active # NoSsid => nm.active \in nm.present
  BY DEF NetInv, Paths
<1>3. CASE m = nm
  BY <1>1, <1>2, <1>3
<1>4. CASE op = "connect" /\ m # nm
  <2>1. PICK p \in nm.present : m = [nm EXCEPT !.active = p, !.up = TRUE, !.saved = nm.saved \cup {SsidOf[p]}]
    BY <1>4 DEF Net!Outcome
  <2>2. p \in Ap /\ SsidOf[p] \in Net!Ssid
    BY <1>1, <2>1 DEF Net!Ssid
  <2>3. nm.saved \cup {SsidOf[p]} \in SUBSET Net!Ssid /\ p \in MaybeAp
    BY <1>1, <2>2 DEF MaybeAp
  <2> QED
    BY <1>1, <1>4, <2>1, <2>3 DEF Manager
<1>5. CASE op = "disconnect" /\ m # nm
  <2>1. m = [nm EXCEPT !.active = NoSsid, !.up = FALSE]
    BY <1>5 DEF Net!Outcome
  <2> QED
    BY <1>1, <1>5, <2>1 DEF Manager, MaybeAp
<1>6. CASE op = "wired" /\ m # nm
  <2>1. m = [nm EXCEPT !.eth = CASE nm.eth = "none" -> "none" [] nm.eth = "up" -> "down" [] OTHER -> "up"]
    BY <1>6 DEF Net!Outcome
  <2> QED
    BY <1>1, <1>2, <1>6, <2>1 DEF Manager, Wire
<1>7. CASE op = "toggle" /\ m # nm
  <2>1. m = [nm EXCEPT !.radio = ~nm.radio]
    BY <1>7 DEF Net!Outcome
  <2> QED
    BY <1>1, <1>2, <1>7, <2>1 DEF Manager
<1> QED
  BY <1>3, <1>4, <1>5, <1>6, <1>7

\* NetworkManager has answered a command, and everything it changes is read again.
LEMMA FinishKeeps ==
  ASSUME NetInv, Net!FinishCmd PROVE NetInv'
<1>1. /\ nm \in Manager /\ known \in Findings /\ signals \subseteq Ap \cup Word
      /\ saved_ssids \subseteq SUBSET Net!Ssid /\ net_cmds \in Seq(NetCommand)
      /\ net_state.radio \in BOOLEAN /\ net_state = Net!Publish(net_state.radio, known) /\ missed \in BOOLEAN
      /\ nm.present \in SUBSET Ap /\ known.aps \in SUBSET Ap
  BY NetIs
<1>2. Paths /\ Announced
  BY DEF NetInv
<1>3. /\ net_loop \in {"connect", "disconnect", "wired", "toggle"} /\ net_loop' = "listening"
      /\ nm' \in Net!Outcome(net_loop) /\ Net!Bump
      /\ UNCHANGED <<net_cmds, missed, net_panel, net_menu, net_drawn>>
  BY DEF Net!FinishCmd, Net!shown
<1>4. /\ nm' \in Manager /\ nm'.present = nm.present /\ nm'.late = nm.late
      /\ nm'.up \/ nm'.active # NoSsid => nm'.active \in nm'.present
      /\ net_loop # "toggle" => nm'.radio = nm.radio
      /\ net_loop = "toggle" => nm'.active = nm.active /\ nm'.up = nm.up /\ nm'.eth = nm.eth
  BY <1>3, OutcomeIs
<1>5. CASE net_loop = "toggle"
  <2>1. /\ net_state' = [net_state EXCEPT !.radio = nm'.radio]
        /\ UNCHANGED <<known, saved_ssids, signals>>
    BY <1>5 DEF Net!FinishCmd
  <2>2. nm'.radio \in BOOLEAN
    BY <1>4 DEF Manager
  <2>3. net_state' = Net!Publish(nm'.radio, known')
    BY <1>1, <2>1, <2>2, PublishIs
  <2>4. net_state'.radio = nm'.radio
    BY <1>1, <2>1, <2>2, <2>3, PublishIs
  <2>5. Paths'
    BY <1>2, <1>3, <1>4, <2>1 DEF Paths
  <2>6. Announced'
    BY <1>2, <1>3, <1>4, <1>5, <2>1, <2>4 DEF Announced
  <2> QED
    BY <1>1, <1>3, <1>4, <2>1, <2>2, <2>3, <2>5, <2>6, ServiceKeeps
<1>6. CASE net_loop # "toggle"
  <2> DEFINE cache == IF net_loop = "wired" THEN Net!LoadSaved ELSE nm'.saved
             aps == IF known.aps # {} THEN known.aps ELSE nm'.present
  <2>1. /\ known' = [aps |-> aps, marks |-> cache, active |-> nm'.active, up |-> nm'.up, eth |-> nm'.eth]
        /\ saved_ssids' = {cache} /\ net_state' = Net!Publish(net_state.radio, known')
        /\ signals' = signals \cup {"device"}
    BY <1>6 DEF Net!FinishCmd
  <2>2. /\ cache \in SUBSET Net!Ssid /\ aps \in SUBSET Ap /\ nm'.active \in MaybeAp /\ nm'.up \in BOOLEAN
        /\ nm'.eth \in Wire
    BY <1>1, <1>4, LoadSavedIs DEF Manager
  <2> HIDE DEF cache
  <2>3. known' \in Findings /\ saved_ssids' \subseteq SUBSET Net!Ssid /\ signals' \subseteq Ap \cup Word
    BY <1>1, <2>1, <2>2 DEF Findings, Word
  <2>4. net_state'.radio = net_state.radio
    BY <1>1, <2>1, <2>3, PublishIs
  <2>5. Paths'
    <3>1. "device" \notin Ap
      BY ProgressAssumption
    <3> QED
      BY <1>2, <1>3, <1>4, <2>1, <3>1 DEF Paths
  <2>6. known'.aps = aps /\ known'.active = nm'.active /\ known'.up = nm'.up /\ known'.eth = nm'.eth
    BY <2>1
  <2>7. Announced'
    BY <1>2, <1>3, <1>4, <1>6, <2>1, <2>4, <2>6 DEF Announced
  <2> QED
    BY <1>1, <1>3, <1>4, <2>1, <2>3, <2>5, <2>7, ServiceKeeps
<1> QED
  BY <1>5, <1>6

\* NetworkManager changes: what is left of the invariant to see is that the signal
\* is about what changed.
LEMMA NmKeeps ==
  ASSUME NetInv, NEW next \in Manager, NEW sig \in Ap \cup Word, Net!NmChanges(next, sig),
         next.late \cap next.present = {},
         next.up \/ next.active # NoSsid => next.active \in next.present,
         next.radio # nm.radio => sig = "radio",
         next.eth # nm.eth \/ next.active # nm.active \/ next.up # nm.up => sig \in {"device", "devices"},
         \A p \in next.present : p \notin nm.present => sig = "device" /\ p \in nm.late,
         \A p \in nm.present : p \notin next.present => sig = p,
         \A p \in next.late : p \in nm.late,
         sig \in Ap => sig \notin next.present /\ sig \notin next.late
  PROVE  NetInv'
<1>1. /\ nm \in Manager /\ known \in Findings /\ signals \subseteq Ap \cup Word
      /\ saved_ssids \subseteq SUBSET Net!Ssid /\ net_cmds \in Seq(NetCommand)
      /\ net_state.radio \in BOOLEAN /\ net_state = Net!Publish(net_state.radio, known) /\ missed \in BOOLEAN
      /\ net_loop \in {"down", "starting", "listening", "connect", "disconnect", "wired", "toggle"}
      /\ nm.present \in SUBSET Ap /\ known.aps \in SUBSET Ap
  BY NetIs
<1>2. Paths /\ Announced
  BY DEF NetInv
<1>3. /\ nm' = next
      /\ signals' = IF net_loop \in {"down", "starting"} THEN {} ELSE signals \cup {sig}
      /\ missed' = (missed \/ net_loop = "starting")
      /\ UNCHANGED <<net_loop, known, saved_ssids, net_state, net_cmds, net_signal, unseen, net_panel, net_menu, net_drawn>>
  BY DEF Net!NmChanges, Net!shown
<1>4. next.present \in SUBSET Ap
  BY DEF Manager
<1>5. Paths'
  <2>1. \A p \in Ap : p \in signals' => p \notin next.present /\ p \notin next.late
    <3> SUFFICES ASSUME NEW p \in Ap, p \in signals' PROVE p \notin next.present /\ p \notin next.late
      OBVIOUS
    <3>1. CASE p = sig
      BY <3>1
    <3>2. CASE p # sig
      <4>1. p \notin nm.present /\ p \notin nm.late
        BY <1>2, <1>3, <3>2 DEF Paths
      <4> QED
        BY <4>1
    <3> QED
      BY <3>1, <3>2
  <2> QED
    BY <1>3, <2>1 DEF Paths
<1>6. Announced'
  <2> SUFFICES ASSUME net_loop # "down", ~missed' PROVE Announced'
    BY <1>3 DEF Announced
  <2>1. ~missed /\ signals' = signals \cup {sig}
    BY <1>3
  <2>2. net_state.radio # next.radio => "radio" \in signals'
    BY <1>2, <2>1 DEF Announced
  <2>3. known.eth # next.eth \/ known.active # next.active \/ known.up # next.up =>
          "device" \in signals' \/ "devices" \in signals'
    BY <1>2, <2>1 DEF Announced
  <2>4. \A p \in next.present : p \notin known.aps => "device" \in signals'
    BY <1>2, <2>1 DEF Announced
  <2>5. \A p \in known.aps : p \notin next.present => p \in signals'
    BY <1>2, <2>1 DEF Announced
  <2> QED
    BY <1>3, <2>2, <2>3, <2>4, <2>5 DEF Announced
<1>7. missed' \in BOOLEAN /\ signals' \subseteq Ap \cup Word
  BY <1>1, <1>3
<1>8. net_state' = Net!Publish(net_state.radio, known')
  BY <1>1, <1>3
<1> QED
  BY <1>1, <1>3, <1>5, <1>6, <1>7, <1>8, ServiceKeeps

\* Every change of NetworkManager announces itself with the right signal.
LEMMA WorldKeeps ==
  ASSUME NetInv, Net!World PROVE NetInv'
<1>1. /\ nm \in Manager /\ nm.present \in SUBSET Ap /\ nm.late \in SUBSET Ap /\ nm.active \in MaybeAp
      /\ nm.saved \in SUBSET Net!Ssid /\ nm.radio \in BOOLEAN
  BY NetIs DEF Manager
<1>2. /\ nm.late \cap nm.present = {} /\ (nm.up \/ nm.active # NoSsid => nm.active \in nm.present)
  BY DEF NetInv, Paths
<1>3. "radio" \in Word /\ "devices" \in Word /\ "device" \in Word /\ Ap \cap Word = {}
  BY ProgressAssumption DEF Word
<1>4. ASSUME Net!RadioToggled PROVE NetInv'
  <2> DEFINE next == [nm EXCEPT !.radio = ~nm.radio]
  <2>1. /\ next \in Manager /\ next.present = nm.present /\ next.late = nm.late /\ next.active = nm.active
        /\ next.up = nm.up /\ next.eth = nm.eth
    BY <1>1 DEF Manager
  <2>2. Net!NmChanges(next, "radio")
    BY <1>4 DEF Net!RadioToggled
  <2> HIDE DEF next
  <2> QED
    BY <1>1, <1>2, <1>3, <2>1, <2>2, NmKeeps
<1>5. ASSUME Net!Appears PROVE NetInv'
  <2>1. PICK p \in nm.late : Net!NmChanges([nm EXCEPT !.present = nm.present \cup {p}, !.late = nm.late \ {p}], "device")
    BY <1>5 DEF Net!Appears
  <2> DEFINE next == [nm EXCEPT !.present = nm.present \cup {p}, !.late = nm.late \ {p}]
  <2>2. nm.present \cup {p} \in SUBSET Ap /\ nm.late \ {p} \in SUBSET Ap
    BY <1>1
  <2>3. /\ next \in Manager /\ next.present = nm.present \cup {p} /\ next.late = nm.late \ {p}
        /\ next.active = nm.active /\ next.up = nm.up /\ next.eth = nm.eth /\ next.radio = nm.radio
    BY <1>1, <2>2 DEF Manager
  <2>4. Net!NmChanges(next, "device")
    BY <2>1
  <2> HIDE DEF next
  <2> QED
    BY <1>1, <1>2, <1>3, <2>3, <2>4, NmKeeps
<1>6. ASSUME Net!Vanishes PROVE NetInv'
  <2>1. PICK p \in nm.present \ {nm.active} : Net!NmChanges([nm EXCEPT !.present = nm.present \ {p}], p)
    BY <1>6 DEF Net!Vanishes
  <2> DEFINE next == [nm EXCEPT !.present = nm.present \ {p}]
  <2>2. nm.present \ {p} \in SUBSET Ap /\ p \in Ap
    BY <1>1
  <2>3. /\ next \in Manager /\ next.present = nm.present \ {p} /\ next.late = nm.late
        /\ next.active = nm.active /\ next.up = nm.up /\ next.eth = nm.eth /\ next.radio = nm.radio
    BY <1>1, <2>2 DEF Manager
  <2>4. Net!NmChanges(next, p)
    BY <2>1
  <2> HIDE DEF next
  <2> QED
    BY <1>1, <1>2, <1>3, <2>1, <2>2, <2>3, <2>4, NmKeeps
<1>7. ASSUME Net!Drops PROVE NetInv'
  <2> DEFINE next == [nm EXCEPT !.active = NoSsid, !.up = FALSE]
  <2>1. /\ next \in Manager /\ next.present = nm.present /\ next.late = nm.late /\ next.active = NoSsid
        /\ next.up = FALSE /\ next.eth = nm.eth /\ next.radio = nm.radio
    BY <1>1 DEF Manager, MaybeAp
  <2>2. Net!NmChanges(next, "device")
    BY <1>7 DEF Net!Drops
  <2> HIDE DEF next
  <2> QED
    BY <1>1, <1>2, <1>3, <2>1, <2>2, NmKeeps
<1>8. ASSUME Net!Plugged PROVE NetInv'
  <2>1. PICK e \in Wire : Net!NmChanges([nm EXCEPT !.eth = e], "devices")
    BY <1>8 DEF Net!Plugged, Wire
  <2> DEFINE next == [nm EXCEPT !.eth = e]
  <2>2. /\ next \in Manager /\ next.present = nm.present /\ next.late = nm.late /\ next.active = nm.active
        /\ next.up = nm.up /\ next.radio = nm.radio
    BY <1>1 DEF Manager
  <2>3. Net!NmChanges(next, "devices")
    BY <2>1
  <2> HIDE DEF next
  <2> QED
    BY <1>1, <1>2, <1>3, <2>2, <2>3, NmKeeps
<1>9. ASSUME Net!Forgotten PROVE NetInv'
  <2>1. PICK s \in nm.saved : Net!NmChanges([nm EXCEPT !.saved = nm.saved \ {s}], "device")
    BY <1>9 DEF Net!Forgotten
  <2> DEFINE next == [nm EXCEPT !.saved = nm.saved \ {s}]
  <2>2. nm.saved \ {s} \in SUBSET Net!Ssid
    BY <1>1
  <2>3. /\ next \in Manager /\ next.present = nm.present /\ next.late = nm.late /\ next.active = nm.active
        /\ next.up = nm.up /\ next.eth = nm.eth /\ next.radio = nm.radio
    BY <1>1, <2>2 DEF Manager
  <2>4. Net!NmChanges(next, "device")
    BY <2>1
  <2> HIDE DEF next
  <2> QED
    BY <1>1, <1>2, <1>3, <2>3, <2>4, NmKeeps
<1> QED
  BY <1>4, <1>5, <1>6, <1>7, <1>8, <1>9 DEF Net!World

\* What the menu offers, as it was drawn: a password for the network that is chosen.
LEMMA NetOffers ==
  ASSUME NetInv, NEW i \in Net!Offers(net_drawn)
  PROVE  /\ i.ssid \in MaybeSsid /\ i.password \in MaybeSsid
         /\ i.what \in {"connect", "disconnect", "wired", "toggle", "scan", "info", "back", "edit", "select", "password"}
         /\ i.what # "password" => i.password \in {NoSsid, i.ssid}
         /\ i.what = "password" => i.password = net_menu.selected
<1>1. /\ net_drawn.menu = net_menu /\ net_menu.password \in {NoSsid, net_menu.selected}
      /\ net_menu.password \in MaybeSsid /\ net_menu.selected \in MaybeSsid
      /\ \A n \in net_drawn.state.networks : n.ssid \in Net!Ssid
  BY DEF NetInv, MenuFits, Choice
<1>2. CASE i \in Net!InfoRows \cup Net!ToggleRow \cup Net!ScanRow(net_drawn) \cup Net!EthRow(net_drawn)
  <2>1. \E w \in {"disconnect", "edit", "back", "toggle", "scan", "wired"} :
          i = [what |-> w, ssid |-> NoSsid, password |-> NoSsid]
    BY <1>2 DEF Net!InfoRows, Net!ToggleRow, Net!ScanRow, Net!EthRow, Net!Item
  <2> QED
    BY <2>1 DEF MaybeSsid
<1>3. ASSUME NEW n \in net_drawn.state.networks, i \in {Net!ApRow(n)} \cup Net!PasswordRow(net_drawn, n)
      PROVE  \/ \E w \in {"info", "connect", "select"} : i = [what |-> w, ssid |-> n.ssid, password |-> NoSsid]
             \/ /\ net_menu.selected = n.ssid
                /\ \/ i = [what |-> "password", ssid |-> n.ssid, password |-> n.ssid]
                   \/ i = [what |-> "connect", ssid |-> n.ssid, password |-> net_menu.password]
  <2>1. CASE i = Net!ApRow(n)
    BY <2>1 DEF Net!ApRow, Net!Item
  <2>2. CASE i \in Net!PasswordRow(net_drawn, n)
    BY <1>1, <2>2 DEF Net!PasswordRow, Net!Item
  <2> QED
    BY <1>3, <2>1, <2>2
<1>4. CASE \E n \in net_drawn.state.networks : i \in {Net!ApRow(n)} \cup Net!PasswordRow(net_drawn, n)
  <2>1. PICK n \in net_drawn.state.networks : i \in {Net!ApRow(n)} \cup Net!PasswordRow(net_drawn, n)
    BY <1>4
  <2>2. n.ssid \in MaybeSsid /\ NoSsid \in MaybeSsid
    BY <1>1 DEF MaybeSsid
  <2> QED
    BY <1>1, <1>3, <2>1, <2>2
<1>5. \/ i \in Net!InfoRows \cup Net!ToggleRow \cup Net!ScanRow(net_drawn) \cup Net!EthRow(net_drawn)
      \/ \E n \in net_drawn.state.networks : i \in {Net!ApRow(n)} \cup Net!PasswordRow(net_drawn, n)
  BY DEF Net!Offers
<1> QED
  BY <1>2, <1>4, <1>5

\* What is published names networks that there are.
LEMMA StateIs ==
  ASSUME NetInv PROVE \A n \in net_state.networks : n.ssid \in Net!Ssid
BY NetIs, PublishIs

\* A click in the menu, with the password that was typed.
LEMMA NetClickKeeps ==
  ASSUME NetInv, NEW i, Net!Click(i) PROVE NetInv'
<1>1. /\ i \in Net!Offers(net_drawn)
      /\ net_cmds' = IF i.what \in {"connect", "disconnect", "wired", "toggle", "scan"}
                     THEN Append(net_cmds, [op |-> i.what, ssid |-> i.ssid, password |-> i.password]) ELSE net_cmds
      /\ net_menu' = CASE i.what \in {"disconnect", "wired"} -> Net!NoMenu
                       [] i.what = "info" -> [Net!NoMenu EXCEPT !.info = i.ssid]
                       [] i.what = "back" -> [net_menu EXCEPT !.info = NoSsid]
                       [] i.what = "select" -> [net_menu EXCEPT !.selected = i.ssid, !.password = NoSsid]
                       [] i.what = "password" -> [net_menu EXCEPT !.password = i.password]
                       [] OTHER -> net_menu
      /\ net_drawn' = [Net!Drawn EXCEPT !.menu = net_menu']
      /\ UNCHANGED <<nm, net_loop, signals, known, saved_ssids, net_state, net_panel, net_signal, unseen, missed>>
  BY DEF Net!Click, Net!service, Net!NetCmd
<1>2. /\ i.ssid \in MaybeSsid /\ i.password \in MaybeSsid
      /\ i.what \in {"connect", "disconnect", "wired", "toggle", "scan", "info", "back", "edit", "select", "password"}
      /\ i.what # "password" => i.password \in {NoSsid, i.ssid}
      /\ i.what = "password" => i.password = net_menu.selected
  BY <1>1, NetOffers
<1>3. net_menu \in Choice /\ net_menu.password \in {NoSsid, net_menu.selected} /\ net_cmds \in Seq(NetCommand)
  BY DEF NetInv, NetTyped, MenuFits
<1>4. net_cmds' \in Seq(NetCommand)
  <2>1. CASE i.what \in {"connect", "disconnect", "wired", "toggle", "scan"}
    <3> DEFINE c == [op |-> i.what, ssid |-> i.ssid, password |-> i.password]
    <3>1. c \in NetCommand
      BY <1>2, <2>1 DEF NetCommand
    <3> HIDE DEF c
    <3>2. net_cmds' = Append(net_cmds, c)
      BY <1>1, <2>1 DEF c
    <3> QED
      BY <1>3, <3>1, <3>2
  <2>2. CASE i.what \notin {"connect", "disconnect", "wired", "toggle", "scan"}
    BY <1>1, <1>3, <2>2
  <2> QED
    BY <2>1, <2>2
<1>5. net_menu' \in Choice /\ net_menu'.password \in {NoSsid, net_menu'.selected}
  <2>1. Net!NoMenu = [selected |-> NoSsid, password |-> NoSsid, info |-> NoSsid] /\ NoSsid \in MaybeSsid
    BY DEF Net!NoMenu, MaybeSsid
  <2>2. CASE i.what \in {"disconnect", "wired"}
    BY <1>1, <2>1, <2>2 DEF Choice
  <2>3. CASE i.what = "info"
    <3>1. net_menu' = [Net!NoMenu EXCEPT !.info = i.ssid]
      BY <1>1, <2>3
    <3> QED
      BY <1>2, <2>1, <3>1 DEF Choice
  <2>4. CASE i.what = "back"
    <3>1. net_menu' = [net_menu EXCEPT !.info = NoSsid]
      BY <1>1, <2>4
    <3> QED
      BY <1>3, <2>1, <3>1 DEF Choice
  <2>5. CASE i.what = "select"
    <3>1. net_menu' = [net_menu EXCEPT !.selected = i.ssid, !.password = NoSsid]
      BY <1>1, <2>5
    <3> QED
      BY <1>2, <1>3, <2>1, <3>1 DEF Choice
  <2>6. CASE i.what = "password"
    <3>1. net_menu' = [net_menu EXCEPT !.password = i.password]
      BY <1>1, <2>6
    <3> QED
      BY <1>2, <1>3, <2>6, <3>1 DEF Choice
  <2>7. CASE i.what \notin {"disconnect", "wired", "info", "back", "select", "password"}
    BY <1>1, <1>3, <2>7
  <2> QED
    BY <1>2, <2>2, <2>3, <2>4, <2>5, <2>6, <2>7
<1>6. MenuFits'
  <2>1. net_drawn' = [state |-> net_state, scanning |-> scanning, menu |-> net_menu']
    BY <1>1 DEF Net!Drawn
  <2>2. net_drawn'.menu = net_menu' /\ net_drawn'.state.networks = net_state.networks
    BY <2>1
  <2> QED
    BY <1>5, <2>2, StateIs DEF MenuFits
<1>7. NetTold' /\ Paths' /\ Announced'
  <2>1. NetTold'
    BY <1>1, NetTells
  <2>2. Paths' /\ Announced'
    BY <1>1 DEF NetInv, Paths, Announced
  <2> QED
    BY <2>1, <2>2
<1>8. NetTyped'
  BY <1>1, <1>4 DEF NetInv, NetTyped
<1> QED
  BY <1>6, <1>7, <1>8 DEF NetInv

\* The panel empties the pipe, then looks.
LEMMA NetShellKeeps ==
  ASSUME NetInv, Net!Shell PROVE NetInv'
<1>1. UNCHANGED <<nm, net_loop, signals, known, saved_ssids, net_state, net_cmds, net_menu, missed>>
  BY DEF Net!Shell, Net!Drain, Net!Look, Net!service, Net!shown
<1>2. NetTyped' /\ NetTold'
  BY <1>1 DEF Net!Shell, Net!Drain, Net!Look, Net!shown, NetInv, NetTyped, NetTold, Net!Face
<1>3. MenuFits'
  <2>1. net_drawn' = net_drawn \/ net_drawn' = [state |-> net_state, scanning |-> scanning, menu |-> net_menu]
    BY DEF Net!Shell, Net!Drain, Net!Look, Net!shown, Net!Drawn
  <2>2. CASE net_drawn' = net_drawn
    BY <1>1, <2>2 DEF NetInv, MenuFits
  <2>3. CASE net_drawn' = [state |-> net_state, scanning |-> scanning, menu |-> net_menu]
    <3>1. net_drawn'.menu = net_menu /\ net_drawn'.state.networks = net_state.networks
      BY <2>3
    <3> QED
      BY <1>1, <3>1, StateIs DEF NetInv, MenuFits
  <2> QED
    BY <2>1, <2>2, <2>3
<1>4. Paths' /\ Announced'
  BY <1>1 DEF NetInv, Paths, Announced
<1> QED
  BY <1>2, <1>3, <1>4 DEF NetInv

\* Every step of the network service, its world and its menu.
LEMMA NetworkRunKeeps ==
  ASSUME NetInv, Net!Next PROVE NetInv'
BY NetLifeKeeps, OnSignalKeeps, NetTakeKeeps, FinishKeeps, WorldKeeps, NetClickKeeps, NetShellKeeps
   DEF Net!Next, Net!Loop

\* Nothing is known yet, and the panel says so.
LEMMA NetworkStart ==
  ASSUME Net!Init PROVE NetInv
<1>1. /\ nm = [radio |-> TRUE, present |-> Ap \ Late, late |-> Late, active |-> NoSsid, up |-> FALSE, eth |-> "down",
               saved |-> {}]
      /\ net_loop = "down" /\ signals = {} /\ saved_ssids = {} /\ net_cmds = <<>>
      /\ known = [aps |-> {}, marks |-> {}, active |-> NoSsid, up |-> FALSE, eth |-> "none"]
      /\ net_state = Net!Publish(TRUE, known)
      /\ net_menu = Net!NoMenu /\ net_drawn = [state |-> net_state, scanning |-> scanning, menu |-> net_menu]
      /\ net_panel = Net!Face /\ net_signal = "empty" /\ unseen = FALSE /\ missed = TRUE
  BY DEF Net!Init, Net!Drawn
<1>2. nm \in Manager /\ known \in Findings
  BY <1>1, ProgressAssumption DEF Manager, Findings, Wire, MaybeAp
<1>3. net_state.radio = TRUE /\ \A n \in net_state.networks : n.ssid \in Net!Ssid
  BY <1>1, <1>2, PublishIs
<1>4. NetTyped
  <2>1. <<>> \in Seq(NetCommand)
    OBVIOUS
  <2> QED
    BY <1>1, <1>2, <1>3, <2>1 DEF NetTyped
<1>5. NetTold /\ Announced
  BY <1>1 DEF NetTold, Announced
<1>6. MenuFits
  <2>1. net_menu = [selected |-> NoSsid, password |-> NoSsid, info |-> NoSsid] /\ NoSsid \in MaybeSsid
    BY <1>1 DEF Net!NoMenu, MaybeSsid
  <2>2. net_menu \in Choice /\ net_menu.password \in {NoSsid, net_menu.selected}
    BY <2>1 DEF Choice
  <2>3. net_drawn.menu = net_menu /\ net_drawn.state.networks = net_state.networks
    BY <1>1
  <2> QED
    BY <1>3, <2>2, <2>3 DEF MenuFits
<1>7. Paths
  BY <1>1 DEF Paths
<1> QED
  BY <1>4, <1>5, <1>6, <1>7 DEF NetInv

\* The network while another part runs.
LEMMA NetworkStay ==
  ASSUME NetInv, UNCHANGED netVars PROVE NetInv'
BY DEF NetInv, netVars, NetTyped, NetTold, MenuFits, Paths, Announced, Net!Face, Net!Publish

\* What the run checks of the network.
LEMMA NetworkGives ==
  ASSUME NetInv PROVE Net!TypeOK /\ Net!PanelFresh /\ Net!MirrorFollows /\ Net!PasswordFits
<1>1. /\ known \in Findings /\ net_cmds \in Seq(NetCommand) /\ net_state.radio \in BOOLEAN
      /\ net_state = Net!Publish(net_state.radio, known)
  BY NetIs
<1>2. Net!TypeOK
  BY DEF NetInv, NetTyped, Findings, Word, Net!TypeOK
<1>3. Net!PanelFresh
  BY DEF NetInv, NetTold, Net!PanelFresh
<1>4. Net!MirrorFollows
  <2> SUFFICES ASSUME net_loop = "listening", signals = {}, ~missed
               PROVE  /\ net_state.radio = nm.radio /\ net_state.eth = nm.eth
                      /\ {n.ssid : n \in net_state.networks} = {SsidOf[p] : p \in nm.present}
                      /\ net_state.wifi = IF nm.up THEN SsidOf[nm.active] ELSE NoSsid
    BY DEF Net!MirrorFollows
  <2>1. /\ net_state.eth = known.eth
        /\ net_state.wifi = IF known.active \in known.aps /\ known.up THEN SsidOf[known.active] ELSE NoSsid
        /\ {n.ssid : n \in net_state.networks} = {SsidOf[p] : p \in known.aps}
    <3>1. PICK radio \in BOOLEAN : net_state = Net!Publish(radio, known)
      BY <1>1
    <3>2. known \in Findings
      BY <1>1
    <3> QED
      BY <3>1, <3>2, PublishIs
  <2>2. /\ net_state.radio = nm.radio /\ known.eth = nm.eth /\ known.active = nm.active /\ known.up = nm.up
        /\ \A p \in nm.present : p \in known.aps
        /\ \A p \in known.aps : p \in nm.present
    BY DEF NetInv, Announced
  <2>3. known.aps = nm.present
    BY <2>2
  <2>4. nm.up => nm.active \in nm.present
    BY DEF NetInv, Paths
  <2> QED
    BY <2>1, <2>2, <2>3, <2>4
<1>5. Net!PasswordFits
  <2>1. \A k \in DOMAIN net_cmds : net_cmds[k] \in NetCommand
    BY <1>1
  <2> QED
    BY <2>1 DEF Net!PasswordFits, NetInv, MenuFits, NetCommand
<1> QED
  BY <1>2, <1>3, <1>4, <1>5

----------------------------------------------------------------------------
(***************************************************************************)
(* The Bluetooth service                                                   *)
(***************************************************************************)
MaybeDevice == Device \cup {NoDevice}
Objects ==
  [adapter : BOOLEAN, powered : BOOLEAN, discovering : BOOLEAN, discoverable : BOOLEAN,
   devices : [Device -> Bt!DeviceState], trusted : SUBSET Device]
\* Commands that are not about the adapter name a device.
BtCommand ==
  {c \in [op : {"power", "scan", "discoverable", "connect", "disconnect", "pair", "remove", "trust"},
          addr : MaybeDevice, on : BOOLEAN] :
     c.op \notin {"power", "scan", "discoverable"} => c.addr \in Device}
Attempt == {"connect", "pair", "again"}
BtTask ==
  {t \in [id : Int, cmd : BtCommand, at : Attempt \cup {"call", "read", "publish"}, snap : Objects \cup {NoDevice}] :
     /\ t.at = "publish" => t.snap \in Objects
     /\ t.at \in Attempt => t.cmd.op = "connect"}

BtTyped ==
  /\ bluez \in Objects /\ bt_state \in Objects
  /\ bt_loop \in {"down", "select", "refresh"} /\ adapter_path \in BOOLEAN
  /\ bt_loop = "refresh" => bt_snapshot \in Objects
  /\ tasks \subseteq BtTask /\ bt_cmds \in Seq(BtCommand) /\ bt_count \in Nat
  /\ bt_menu \in [confirming : MaybeDevice, connecting : MaybeDevice]
  /\ bt_drawn \in [state : Objects, menu : [confirming : MaybeDevice, connecting : MaybeDevice]]
  /\ bt_signal \in {"empty", "written", "drained"} /\ bt_unseen \in BOOLEAN

\* A panel that was told of nothing since it looked shows what is published.
BtTold ==
  /\ ~bt_unseen => bt_panel = Bt!Face
  /\ bt_signal = "empty" => ~bt_unseen

BtInv == BtTyped /\ BtTold /\ Bt!ConnectingIsReal

\* A snapshot of BlueZ's objects.
LEMMA SnapshotIs ==
  ASSUME NEW b \in Objects PROVE Bt!Snapshot(b) \in Objects
BY DEF Bt!Snapshot, Objects

\* What BlueZ makes of a command.
LEMMA AskedIs ==
  ASSUME BtInv, NEW c \in BtCommand PROVE Bt!Asked(c) \in Objects
<1>1. bluez \in Objects /\ bt_state.powered \in BOOLEAN /\ bt_state.discoverable \in BOOLEAN /\ c.on \in BOOLEAN
  BY DEF BtInv, BtTyped, Objects, BtCommand
<1>2. ASSUME NEW d \in Device, NEW s \in Bt!DeviceState PROVE Bt!With(d, s) \in Objects
  <2>1. [bluez.devices EXCEPT ![d] = s] \in [Device -> Bt!DeviceState]
    BY <1>1 DEF Objects
  <2> QED
    BY <1>1, <2>1 DEF Bt!With, Objects
<1>3. CASE c.op \in {"power", "scan", "discoverable"}
  BY <1>1, <1>3 DEF Bt!Asked, Objects
<1>4. CASE c.op \notin {"power", "scan", "discoverable"}
  <2>1. c.addr \in Device
    BY <1>4 DEF BtCommand
  <2> DEFINE w(s) == Bt!With(c.addr, s)
  <2>2. w("connected") \in Objects /\ w("paired") \in Objects /\ w("near") \in Objects
    BY <1>2, <2>1 DEF Bt!DeviceState
  <2>3. /\ Bt!Asked(c) = CASE c.op = "connect" -> w("connected")
                           [] c.op = "disconnect" -> w("paired")
                           [] c.op = "pair" -> [w("paired") EXCEPT !.trusted = w("paired").trusted \cup {c.addr}]
                           [] c.op = "trust" -> [bluez EXCEPT !.trusted = IF c.on THEN bluez.trusted \cup {c.addr}
                                                                          ELSE bluez.trusted \ {c.addr}]
                           [] OTHER -> [w("near") EXCEPT !.trusted = w("near").trusted \ {c.addr}]
    BY <1>4 DEF Bt!Asked
  <2> HIDE DEF w
  <2> QED
    BY <1>1, <2>1, <2>2, <2>3 DEF Objects
<1> QED
  BY <1>3, <1>4

\* What is published is told.
LEMMA BtTells ==
  ASSUME BtInv, Bt!Bump \/ UNCHANGED <<bt_state, bt_signal, bt_unseen>>, UNCHANGED bt_panel
  PROVE  BtTold'
BY DEF BtInv, BtTold, Bt!Bump, Bt!Face

\* Steps of the loop, which no task and no menu knows of.
LEMMA BtLoopKeeps ==
  ASSUME BtInv, Bt!Start \/ Bt!OnSignal \/ Bt!Tick \/ Bt!Publish PROVE BtInv'
<1>1. /\ bluez \in Objects /\ bt_state \in Objects /\ Bt!Snapshot(bluez) \in Objects /\ adapter_path \in BOOLEAN
      /\ bluez.adapter \in BOOLEAN
  BY SnapshotIs DEF BtInv, BtTyped, Objects
<1>2. /\ UNCHANGED <<bluez, tasks, bt_menu, bt_cmds, bt_drawn, bt_panel, bt_count>>
      /\ Bt!Bump \/ UNCHANGED <<bt_state, bt_signal, bt_unseen>>
  BY DEF Bt!Start, Bt!OnSignal, Bt!Tick, Bt!Read, Bt!Publish, Bt!shell, Bt!pipe
<1>3. /\ bt_state' \in Objects /\ bt_loop' \in {"down", "select", "refresh"} /\ adapter_path' \in BOOLEAN
      /\ bt_loop' = "refresh" => bt_snapshot' \in Objects
  <2>1. CASE Bt!Start
    BY <1>1, <2>1 DEF Bt!Start
  <2>2. CASE Bt!OnSignal \/ Bt!Tick
    BY <1>1, <2>2 DEF Bt!OnSignal, Bt!Tick, Bt!Read, Bt!pipe
  <2>3. CASE Bt!Publish
    <3>1. bt_snapshot \in Objects /\ bt_snapshot.adapter \in BOOLEAN
      BY <2>3 DEF Bt!Publish, BtInv, BtTyped, Objects
    <3> QED
      BY <1>1, <2>3, <3>1 DEF Bt!Publish
  <2> QED
    BY <2>1, <2>2, <2>3
<1>4. BtTold'
  BY <1>2, BtTells
<1>5. Bt!ConnectingIsReal'
  BY <1>2 DEF BtInv, Bt!ConnectingIsReal
<1>6. BtTyped'
  <2>1. bt_signal' \in {"empty", "written", "drained"} /\ bt_unseen' \in BOOLEAN
    BY <1>2 DEF BtInv, BtTyped, Bt!Bump
  <2> QED
    BY <1>2, <1>3, <2>1 DEF BtInv, BtTyped
<1> QED
  BY <1>4, <1>5, <1>6 DEF BtInv

\* A command becomes a task.
LEMMA SpawnKeeps ==
  ASSUME BtInv, Bt!Spawn PROVE BtInv'
<1> DEFINE t == [id |-> bt_count - Len(bt_cmds), cmd |-> Head(bt_cmds),
                 at |-> IF adapter_path THEN "call" ELSE "read", snap |-> NoDevice]
<1>1. /\ bt_cmds # <<>> /\ bt_cmds' = Tail(bt_cmds) /\ tasks' = tasks \cup {t}
      /\ UNCHANGED <<bluez, bt_loop, adapter_path, bt_dirty, bt_snapshot, bt_state, bt_menu, bt_drawn, bt_panel,
                     bt_signal, bt_unseen, bt_count>>
  BY DEF Bt!Spawn, Bt!loop, Bt!pipe
<1>2. bt_cmds \in Seq(BtCommand) /\ bt_count \in Nat /\ tasks \subseteq BtTask
  BY DEF BtInv, BtTyped
<1>3. Head(bt_cmds) \in BtCommand /\ Tail(bt_cmds) \in Seq(BtCommand) /\ bt_count - Len(bt_cmds) \in Int
  BY <1>1, <1>2
<1>4. t \in BtTask
  <2>1. /\ t \in [id : Int, cmd : BtCommand, at : Attempt \cup {"call", "read", "publish"}, snap : Objects \cup {NoDevice}]
        /\ t.at \in {"call", "read"}
    BY <1>3
  <2> HIDE DEF t
  <2> QED
    BY <2>1 DEF BtTask, Attempt
<1> HIDE DEF t
<1>5. BtTyped'
  BY <1>1, <1>2, <1>3, <1>4 DEF BtInv, BtTyped
<1>6. Bt!ConnectingIsReal'
  BY <1>1 DEF BtInv, Bt!ConnectingIsReal
<1>7. BtTold'
  BY <1>1, BtTells
<1> QED
  BY <1>5, <1>6, <1>7 DEF BtInv

\* A task goes on, and an attempt that goes on is still one.
LEMMA TaskGoes ==
  ASSUME BtInv, NEW t \in tasks, NEW u \in BtTask, tasks' = (tasks \ {t}) \cup {u},
         bt_menu' \in [confirming : MaybeDevice, connecting : MaybeDevice],
         \/ bt_menu'.connecting = NoDevice
         \/ u.at \in Attempt
         \/ t.at \notin Attempt /\ UNCHANGED bt_menu,
         bluez' \in Objects,
         UNCHANGED <<bt_loop, adapter_path, bt_snapshot, bt_state, bt_cmds, bt_drawn, bt_panel, bt_signal,
                     bt_unseen, bt_count>>
  PROVE  BtInv'
<1>1. BtTyped'
  BY DEF BtInv, BtTyped
<1>2. BtTold'
  BY BtTells
<1>3. Bt!ConnectingIsReal'
  BY DEF BtInv, Bt!ConnectingIsReal, Attempt
<1> QED
  BY <1>1, <1>2, <1>3 DEF BtInv

\* A task elsewhere in its work.
LEMMA TaskAt ==
  ASSUME NEW t \in BtTask, NEW at \in Attempt \cup {"call", "read"}, at \in Attempt => t.cmd.op = "connect"
  PROVE  [t EXCEPT !.at = at] \in BtTask /\ [t EXCEPT !.at = at].at = at
<1> DEFINE u == [t EXCEPT !.at = at]
<1>1. /\ u \in [id : Int, cmd : BtCommand, at : Attempt \cup {"call", "read", "publish"}, snap : Objects \cup {NoDevice}]
      /\ u.at = at /\ u.cmd = t.cmd /\ u.snap = t.snap
  BY DEF BtTask
<1> HIDE DEF u
<1>2. at # "publish"
  BY DEF Attempt
<1>3. u \in BtTask
  BY <1>1, <1>2 DEF BtTask
<1> QED
  BY <1>1, <1>3 DEF u

\* Every step of a task.
LEMMA TaskKeeps ==
  ASSUME BtInv, NEW t \in tasks, Bt!Task(t) PROVE BtInv'
<1>1. /\ t \in BtTask /\ t.cmd \in BtCommand /\ bluez \in Objects /\ t.cmd.addr \in MaybeDevice
      /\ t.at \in Attempt => t.cmd.op = "connect" /\ t.cmd.addr \in Device
      /\ bt_menu \in [confirming : MaybeDevice, connecting : MaybeDevice]
  BY DEF BtInv, BtTyped, BtTask, BtCommand
<1>2. ASSUME NEW c \in BtCommand, NEW ok \in BOOLEAN, Bt!Answer(c, ok) PROVE bluez' \in Objects
  BY <1>1, <1>2, AskedIs DEF Bt!Answer
<1>3. ASSUME Bt!ConnectBegins(t) PROVE BtInv'
  <2> DEFINE u == [t EXCEPT !.at = "connect"]
  <2>1. /\ t.cmd.op = "connect" /\ tasks' = (tasks \ {t}) \cup {u}
        /\ bt_menu' = [bt_menu EXCEPT !.connecting = t.cmd.addr]
        /\ UNCHANGED <<bluez, bt_loop, adapter_path, bt_snapshot, bt_state, bt_cmds, bt_drawn, bt_panel, bt_signal,
                       bt_unseen, bt_count>>
    BY <1>3 DEF Bt!ConnectBegins, Bt!Goes, Bt!loop, Bt!shell, Bt!pipe
  <2>2. "connect" \in Attempt \cup {"call", "read"} /\ "connect" \in Attempt
    BY DEF Attempt
  <2>3. u \in BtTask /\ u.at = "connect"
    BY <1>1, <2>1, <2>2, TaskAt
  <2>4. bt_menu' \in [confirming : MaybeDevice, connecting : MaybeDevice]
    BY <1>1, <2>1
  <2> HIDE DEF u
  <2> QED
    BY <1>1, <2>1, <2>2, <2>3, <2>4, TaskGoes
<1>4. ASSUME NEW ok \in BOOLEAN, Bt!Call(t, ok) PROVE BtInv'
  <2> DEFINE u == [t EXCEPT !.at = "read"]
  <2>1. /\ t.at = "call" /\ Bt!Answer(t.cmd, ok) /\ tasks' = (tasks \ {t}) \cup {u}
        /\ UNCHANGED <<bt_menu, bt_loop, adapter_path, bt_snapshot, bt_state, bt_cmds, bt_drawn, bt_panel, bt_signal,
                       bt_unseen, bt_count>>
    BY <1>4 DEF Bt!Call, Bt!Goes, Bt!shell, Bt!pipe
  <2>2. "read" \in Attempt \cup {"call", "read"} /\ "read" \notin Attempt /\ t.at \notin Attempt
    BY <2>1 DEF Attempt
  <2>3. u \in BtTask
    BY <1>1, <2>2, TaskAt
  <2>4. bluez' \in Objects
    BY <1>1, <1>2, <2>1
  <2> HIDE DEF u
  <2> QED
    BY <1>1, <2>1, <2>2, <2>3, <2>4, TaskGoes
<1>5. ASSUME NEW ok \in BOOLEAN, Bt!ConnectEnds(t, ok) PROVE BtInv'
  <2>1. /\ t.at \in {"connect", "again"} /\ Bt!Answer(t.cmd, ok)
        /\ \/ Bt!Goes(t, "pair") /\ UNCHANGED bt_menu
           \/ Bt!Goes(t, "read") /\ bt_menu' = [bt_menu EXCEPT !.connecting = NoDevice]
        /\ UNCHANGED <<bt_loop, adapter_path, bt_snapshot, bt_state, bt_cmds, bt_drawn, bt_panel, bt_signal,
                       bt_unseen, bt_count>>
    BY <1>5 DEF Bt!ConnectEnds, Bt!shell, Bt!pipe
  <2>2. bluez' \in Objects
    BY <1>1, <1>2, <2>1
  <2>3. /\ t.at \in Attempt /\ "pair" \in Attempt \cup {"call", "read"} /\ "pair" \in Attempt
        /\ "read" \in Attempt \cup {"call", "read"} /\ "read" \notin Attempt
    BY <2>1 DEF Attempt
  <2>4. ASSUME Bt!Goes(t, "pair"), UNCHANGED bt_menu PROVE BtInv'
    <3> DEFINE u == [t EXCEPT !.at = "pair"]
    <3>1. u \in BtTask /\ u.at = "pair"
      BY <1>1, <2>3, TaskAt
    <3>2. tasks' = (tasks \ {t}) \cup {u}
      BY <2>4 DEF Bt!Goes
    <3> HIDE DEF u
    <3> QED
      BY <1>1, <2>1, <2>2, <2>3, <2>4, <3>1, <3>2, TaskGoes
  <2>5. ASSUME Bt!Goes(t, "read"), bt_menu' = [bt_menu EXCEPT !.connecting = NoDevice] PROVE BtInv'
    <3> DEFINE u == [t EXCEPT !.at = "read"]
    <3>1. u \in BtTask
      BY <1>1, <2>3, TaskAt
    <3>2. tasks' = (tasks \ {t}) \cup {u}
      BY <2>5 DEF Bt!Goes
    <3>3. bt_menu' \in [confirming : MaybeDevice, connecting : MaybeDevice] /\ bt_menu'.connecting = NoDevice
      BY <1>1, <2>5 DEF MaybeDevice
    <3> HIDE DEF u
    <3> QED
      BY <2>1, <2>2, <3>1, <3>2, <3>3, TaskGoes
  <2> QED
    BY <2>1, <2>4, <2>5
<1>6. ASSUME NEW ok \in BOOLEAN, Bt!ConnectPairs(t, ok) PROVE BtInv'
  <2> DEFINE u == [t EXCEPT !.at = "again"]
             c == [op |-> "pair", addr |-> t.cmd.addr, on |-> FALSE]
  <2>1. /\ t.at = "pair" /\ Bt!Answer(c, ok) /\ tasks' = (tasks \ {t}) \cup {u}
        /\ UNCHANGED <<bt_menu, bt_loop, adapter_path, bt_snapshot, bt_state, bt_cmds, bt_drawn, bt_panel, bt_signal,
                       bt_unseen, bt_count>>
    BY <1>6 DEF Bt!ConnectPairs, Bt!Goes, Bt!shell, Bt!pipe, Bt!BtCmd
  <2>2. t.at \in Attempt /\ "again" \in Attempt \cup {"call", "read"} /\ "again" \in Attempt
    BY <2>1 DEF Attempt
  <2>3. u \in BtTask /\ u.at = "again"
    BY <1>1, <2>2, TaskAt
  <2>4. c \in BtCommand
    BY <1>1, <2>2 DEF BtCommand
  <2>5. bluez' \in Objects
    BY <1>2, <2>1, <2>4
  <2> HIDE DEF u, c
  <2> QED
    BY <1>1, <2>1, <2>2, <2>3, <2>5, TaskGoes
<1>7. ASSUME Bt!TaskReads(t) PROVE BtInv'
  <2> DEFINE u == [t EXCEPT !.at = "publish", !.snap = Bt!Snapshot(bluez)]
  <2>1. /\ t.at = "read" /\ tasks' = (tasks \ {t}) \cup {u}
        /\ UNCHANGED <<bluez, bt_menu, bt_loop, adapter_path, bt_snapshot, bt_state, bt_cmds, bt_drawn, bt_panel,
                       bt_signal, bt_unseen, bt_count>>
    BY <1>7 DEF Bt!TaskReads, Bt!loop, Bt!shell, Bt!pipe
  <2>2. Bt!Snapshot(bluez) \in Objects
    BY <1>1, SnapshotIs
  <2>3. /\ u \in [id : Int, cmd : BtCommand, at : Attempt \cup {"call", "read", "publish"}, snap : Objects \cup {NoDevice}]
        /\ u.at = "publish" /\ u.snap \in Objects
    BY <1>1, <2>2 DEF BtTask
  <2> HIDE DEF u
  <2>4. u \in BtTask /\ t.at \notin Attempt
    BY <2>1, <2>3 DEF BtTask, Attempt
  <2> QED
    BY <1>1, <2>1, <2>4, TaskGoes
<1>8. ASSUME Bt!TaskPublishes(t) PROVE BtInv'
  <2>1. /\ t.at = "publish" /\ tasks' = tasks \ {t} /\ bt_state' = t.snap /\ Bt!Bump
        /\ UNCHANGED <<bluez, bt_menu, bt_loop, adapter_path, bt_snapshot, bt_cmds, bt_drawn, bt_panel, bt_count>>
    BY <1>8 DEF Bt!TaskPublishes, Bt!loop, Bt!shell
  <2>2. t.snap \in Objects
    BY <1>1, <2>1 DEF BtTask
  <2>3. BtTyped'
    BY <2>1, <2>2 DEF BtInv, BtTyped, Bt!Bump
  <2>4. BtTold'
    BY <2>1, BtTells
  <2>5. Bt!ConnectingIsReal'
    BY <2>1 DEF BtInv, Bt!ConnectingIsReal
  <2> QED
    BY <2>3, <2>4, <2>5 DEF BtInv
<1> QED
  BY <1>3, <1>4, <1>5, <1>6, <1>7, <1>8 DEF Bt!Task

\* What the menu offers, as it was drawn.
LEMMA BtOffers ==
  ASSUME BtInv, NEW c \in Bt!Offers(bt_drawn), c.op \notin {"confirm", "cancel"}
  PROVE  c \in BtCommand
<1>1. /\ bt_drawn.state \in Objects /\ bt_drawn.state.discovering \in BOOLEAN
  BY DEF BtInv, BtTyped, Objects
<1>2. CASE c \in Bt!ToggleRow \cup Bt!DiscoverableRow \cup Bt!ScanRow(bt_drawn)
  <2>1. \E op \in {"power", "scan", "discoverable"}, on \in BOOLEAN : c = [op |-> op, addr |-> NoDevice, on |-> on]
    BY <1>1, <1>2 DEF Bt!ToggleRow, Bt!DiscoverableRow, Bt!ScanRow, Bt!BtCmd
  <2> QED
    BY <2>1 DEF BtCommand, MaybeDevice
<1>3. CASE \E a \in Device : c \in Bt!DeviceRow(bt_drawn, a)
  <2>1. PICK a \in Device : c \in Bt!DeviceRow(bt_drawn, a)
    BY <1>3
  <2>2. \E op \in {"connect", "disconnect", "pair", "remove", "trust"}, on \in BOOLEAN : c = [op |-> op, addr |-> a, on |-> on]
    <3>1. \E op \in {"connect", "disconnect", "pair", "remove", "trust", "confirm", "cancel"}, on \in BOOLEAN :
            c = [op |-> op, addr |-> a, on |-> on]
      BY <2>1 DEF Bt!DeviceRow, Bt!BtCmd
    <3> QED
      BY <3>1
  <2> QED
    BY <2>2 DEF BtCommand, MaybeDevice
<1>4. \/ c \in Bt!ToggleRow \cup Bt!DiscoverableRow \cup Bt!ScanRow(bt_drawn)
      \/ \E a \in Device : c \in Bt!DeviceRow(bt_drawn, a)
  BY DEF Bt!Offers
<1> QED
  BY <1>2, <1>3, <1>4

\* The commands that are asked for, and what the menu asks back.
LEMMA BtAskKeeps ==
  ASSUME BtInv, bt_cmds' \in Seq(BtCommand), bt_count' \in Nat,
         NEW d \in MaybeDevice, bt_menu' = [bt_menu EXCEPT !.confirming = d],
         bt_drawn' \in {bt_drawn, [state |-> bt_state, menu |-> bt_menu']},
         UNCHANGED <<bluez, bt_loop, adapter_path, bt_snapshot, tasks, bt_state, bt_panel, bt_signal, bt_unseen>>
  PROVE  BtInv'
<1>1. /\ bt_menu' \in [confirming : MaybeDevice, connecting : MaybeDevice]
      /\ bt_menu'.connecting = bt_menu.connecting
  BY DEF BtInv, BtTyped
<1>2. bt_drawn' \in [state : Objects, menu : [confirming : MaybeDevice, connecting : MaybeDevice]]
  BY <1>1 DEF BtInv, BtTyped
<1>3. BtTyped'
  BY <1>1, <1>2 DEF BtInv, BtTyped
<1>4. BtTold'
  BY BtTells
<1>5. Bt!ConnectingIsReal'
  BY <1>1 DEF BtInv, Bt!ConnectingIsReal
<1> QED
  BY <1>3, <1>4, <1>5 DEF BtInv

\* A click in the menu.
LEMMA BtClickKeeps ==
  ASSUME BtInv, NEW c, Bt!Click(c) PROVE BtInv'
<1>1. /\ c \in Bt!Offers(bt_drawn) /\ bt_count' = bt_count + 1
      /\ bt_cmds' = IF c.op \in {"confirm", "cancel"} THEN bt_cmds ELSE Append(bt_cmds, c)
      /\ bt_menu' = [bt_menu EXCEPT !.confirming = IF c.op = "confirm" THEN c.addr
                                                   ELSE IF c.op \in {"cancel", "remove"} THEN NoDevice
                                                   ELSE bt_menu.confirming]
      /\ bt_drawn' = [state |-> bt_state, menu |-> bt_menu']
      /\ UNCHANGED <<bluez, bt_loop, adapter_path, bt_snapshot, tasks, bt_state, bt_panel, bt_signal, bt_unseen>>
  BY DEF Bt!Click, Bt!Counted, Bt!Drawn, Bt!loop, Bt!pipe
<1>2. bt_cmds \in Seq(BtCommand) /\ bt_count \in Nat /\ bt_menu.confirming \in MaybeDevice
  BY DEF BtInv, BtTyped
<1>3. bt_cmds' \in Seq(BtCommand) /\ bt_count' \in Nat
  BY <1>1, <1>2, BtOffers
<1> DEFINE d == IF c.op = "confirm" THEN c.addr
                ELSE IF c.op \in {"cancel", "remove"} THEN NoDevice ELSE bt_menu.confirming
<1>4. d \in MaybeDevice
  <2>1. c.op = "confirm" => c.addr \in Device
    <3> SUFFICES ASSUME c.op = "confirm" PROVE c.addr \in Device
      OBVIOUS
    <3>1. c \notin Bt!ToggleRow \cup Bt!DiscoverableRow \cup Bt!ScanRow(bt_drawn)
      BY DEF Bt!ToggleRow, Bt!DiscoverableRow, Bt!ScanRow, Bt!BtCmd
    <3>2. PICK a \in Device : c \in Bt!DeviceRow(bt_drawn, a)
      BY <1>1, <3>1 DEF Bt!Offers
    <3>3. c.addr = a
      BY <3>2 DEF Bt!DeviceRow, Bt!BtCmd
    <3> QED
      BY <3>2, <3>3
  <2> QED
    BY <1>2, <2>1 DEF MaybeDevice
<1> HIDE DEF d
<1>5. bt_menu' = [bt_menu EXCEPT !.confirming = d]
  BY <1>1 DEF d
<1> QED
  BY <1>1, <1>3, <1>4, <1>5, BtAskKeeps

\* A command of others.
LEMMA ForegroundKeeps ==
  ASSUME BtInv, NEW op \in ForegroundOp, NEW a \in Device, Bt!Foreground(op, a) PROVE BtInv'
<1>1. /\ bt_count' = bt_count + 1
      /\ bt_cmds' = CASE op = "confirm" -> bt_cmds
                      [] op = "scan" -> Append(bt_cmds, [op |-> "scan", addr |-> NoDevice, on |-> ~bt_state.discovering])
                      [] op = "power" -> Append(bt_cmds, [op |-> "power", addr |-> NoDevice, on |-> FALSE])
                      [] OTHER -> Append(bt_cmds, [op |-> op, addr |-> a, on |-> op = "trust"])
      /\ bt_menu' = [bt_menu EXCEPT !.confirming = IF op = "confirm" THEN IF bt_menu.confirming = a THEN NoDevice ELSE a
                                                   ELSE IF op = "remove" THEN NoDevice ELSE bt_menu.confirming]
      /\ UNCHANGED <<bluez, bt_loop, adapter_path, bt_snapshot, tasks, bt_state, bt_drawn, bt_panel, bt_signal, bt_unseen>>
  BY DEF Bt!Foreground, Bt!Counted, Bt!loop, Bt!pipe, Bt!BtCmd
<1>2. /\ bt_cmds \in Seq(BtCommand) /\ bt_count \in Nat /\ bt_menu.confirming \in MaybeDevice
      /\ bt_state.discovering \in BOOLEAN
  BY DEF BtInv, BtTyped, Objects
<1>3. op \in {"power", "scan", "connect", "disconnect", "pair", "remove", "confirm", "trust"}
  BY ProgressAssumption
<1>4. bt_cmds' \in Seq(BtCommand)
  <2>1. CASE op = "confirm"
    BY <1>1, <1>2, <2>1
  <2>2. CASE op # "confirm"
    <3>1. \E c \in BtCommand : bt_cmds' = Append(bt_cmds, c)
      <4> DEFINE c == IF op = "scan" THEN [op |-> "scan", addr |-> NoDevice, on |-> ~bt_state.discovering]
                      ELSE IF op = "power" THEN [op |-> "power", addr |-> NoDevice, on |-> FALSE]
                      ELSE [op |-> op, addr |-> a, on |-> op = "trust"]
      <4>1. c \in BtCommand
        BY <1>3, <2>2 DEF BtCommand, MaybeDevice
      <4>2. bt_cmds' = Append(bt_cmds, c)
        BY <1>1, <2>2
      <4> HIDE DEF c
      <4> QED
        BY <4>1, <4>2
    <3> QED
      BY <1>2, <3>1
  <2> QED
    BY <2>1, <2>2
<1> DEFINE d == IF op = "confirm" THEN IF bt_menu.confirming = a THEN NoDevice ELSE a
                ELSE IF op = "remove" THEN NoDevice ELSE bt_menu.confirming
<1>5. d \in MaybeDevice /\ bt_count' \in Nat
  BY <1>1, <1>2 DEF MaybeDevice
<1>6. bt_menu' = [bt_menu EXCEPT !.confirming = d]
  BY <1>1
<1> HIDE DEF d
<1> QED
  BY <1>1, <1>4, <1>5, <1>6, BtAskKeeps

\* Every step of the Bluetooth service, its tasks, BlueZ and the menu.
LEMMA BluetoothRunKeeps ==
  ASSUME BtInv, Bt!Next PROVE BtInv'
<1>1. ASSUME Bt!Drain \/ Bt!Look PROVE BtInv'
  <2>1. UNCHANGED <<bluez, bt_loop, adapter_path, bt_snapshot, tasks, bt_state, bt_menu, bt_cmds, bt_drawn, bt_count>>
    BY <1>1 DEF Bt!Drain, Bt!Look, Bt!loop, Bt!shell
  <2>2. BtTyped' /\ BtTold'
    BY <1>1, <2>1 DEF Bt!Drain, Bt!Look, Bt!shell, BtInv, BtTyped, BtTold, Bt!Face
  <2>3. Bt!ConnectingIsReal'
    BY <2>1 DEF BtInv, Bt!ConnectingIsReal
  <2> QED
    BY <2>2, <2>3 DEF BtInv
<1>2. ASSUME Bt!BluezChanges PROVE BtInv'
  <2>1. /\ UNCHANGED <<bt_loop, adapter_path, bt_snapshot, tasks, bt_state, bt_menu, bt_cmds, bt_drawn, bt_panel,
                       bt_signal, bt_unseen>>
        /\ bt_count' = bt_count + 1
    BY <1>2 DEF Bt!BluezChanges, Bt!Counted, Bt!shell, Bt!pipe
  <2>2. bluez \in Objects /\ bt_count \in Nat
    BY DEF BtInv, BtTyped
  <2>3. bluez' \in Objects
    <3>1. CASE bluez' = [bluez EXCEPT !.adapter = ~bluez.adapter]
      BY <2>2, <3>1 DEF Objects
    <3>2. ASSUME NEW a \in Device, NEW s \in Bt!DeviceState, bluez' = Bt!With(a, s) PROVE bluez' \in Objects
      <4>1. [bluez.devices EXCEPT ![a] = s] \in [Device -> Bt!DeviceState]
        BY <2>2 DEF Objects
      <4> QED
        BY <2>2, <3>2, <4>1 DEF Bt!With, Objects
    <3> QED
      BY <1>2, <3>1, <3>2 DEF Bt!BluezChanges
  <2>4. BtTyped' /\ BtTold' /\ Bt!ConnectingIsReal'
    <3>1. BtTyped'
      BY <2>1, <2>2, <2>3 DEF BtInv, BtTyped
    <3>2. BtTold'
      BY <2>1, BtTells
    <3>3. Bt!ConnectingIsReal'
      BY <2>1 DEF BtInv, Bt!ConnectingIsReal
    <3> QED
      BY <3>1, <3>2, <3>3
  <2> QED
    BY <2>4 DEF BtInv
<1> QED
  BY <1>1, <1>2, BtLoopKeeps, SpawnKeeps, TaskKeeps, BtClickKeeps, ForegroundKeeps DEF Bt!Next, Bt!Loop

\* Nothing is known yet, and the panel says so.
LEMMA BluetoothStart ==
  ASSUME Bt!Init PROVE BtInv
<1>1. /\ bluez \in [adapter : {TRUE}, powered : {TRUE}, discovering : {FALSE}, discoverable : {FALSE},
                    devices : [Device -> {"near"}], trusted : {{}}]
      /\ bt_state = [adapter |-> FALSE, powered |-> FALSE, discovering |-> FALSE, discoverable |-> FALSE,
                     devices |-> [d \in Device |-> "gone"], trusted |-> {}]
      /\ bt_menu = [confirming |-> NoDevice, connecting |-> NoDevice]
      /\ bt_drawn = [state |-> bt_state, menu |-> bt_menu]
  BY DEF Bt!Init, Bt!Drawn
<1>2. bluez \in Objects /\ bt_state \in Objects
  <2>1. \A f \in [Device -> {"near"}] : f \in [Device -> Bt!DeviceState]
    BY DEF Bt!DeviceState
  <2>2. [d \in Device |-> "gone"] \in [Device -> Bt!DeviceState]
    BY DEF Bt!DeviceState
  <2> QED
    BY <1>1, <2>1, <2>2 DEF Objects
<1>3. bt_menu \in [confirming : MaybeDevice, connecting : MaybeDevice] /\ bt_menu.connecting = NoDevice
  BY <1>1 DEF MaybeDevice
<1>4. bt_drawn \in [state : Objects, menu : [confirming : MaybeDevice, connecting : MaybeDevice]]
  BY <1>1, <1>2, <1>3
<1>5. <<>> \in Seq(BtCommand)
  OBVIOUS
<1>6. BtTyped
  BY <1>2, <1>3, <1>4, <1>5 DEF Bt!Init, BtTyped
<1>7. BtTold /\ Bt!ConnectingIsReal
  BY <1>3 DEF Bt!Init, BtTold, Bt!ConnectingIsReal
<1> QED
  BY <1>6, <1>7 DEF BtInv

\* Bluetooth while another part runs.
LEMMA BluetoothStay ==
  ASSUME BtInv, UNCHANGED btVars PROVE BtInv'
BY DEF BtInv, btVars, BtTyped, BtTold, Bt!Face, Bt!ConnectingIsReal

\* What the run checks of Bluetooth.
LEMMA BluetoothGives ==
  ASSUME BtInv PROVE Bt!TypeOK /\ Bt!PanelFresh /\ Bt!ConnectingIsReal
<1>1. Bt!TypeOK
  BY DEF BtInv, BtTyped, Objects, BtTask, Attempt, MaybeDevice, Bt!TypeOK
<1>2. Bt!PanelFresh
  BY DEF BtInv, BtTold, Bt!PanelFresh
<1> QED
  BY <1>1, <1>2 DEF BtInv

----------------------------------------------------------------------------
(***************************************************************************)
(* The power service                                                       *)
(***************************************************************************)
PowerCommand == [op : {"set", "step"}, arg : Int]
Battery == [brightness : Pow!Level, charge : Charge, profile : Profile]

PowerTyped ==
  /\ power \in Battery /\ power_state \in Battery
  /\ proxies \in [charge : Charge, profile : Profile]
  /\ power_loop \in {"down", "starting", "listening", "refresh"} /\ news \subseteq {"signal", "uevent"}
  /\ power_cmds \in Seq(PowerCommand)
  /\ power_signal \in {"empty", "written", "drained"} /\ power_unseen \in BOOLEAN

\* A panel that was told of nothing since it looked shows what is published.
PowerTold ==
  /\ ~power_unseen => power_panel = Pow!Face
  /\ power_signal = "empty" => ~power_unseen

PowerInv == PowerTyped /\ PowerTold /\ Pow!StepsAddUp

\* Commands keep to the levels, and never turn the screen off.
LEMMA AfterIsLevel ==
  ASSUME NEW c \in PowerCommand, NEW b \in Pow!Level
  PROVE  Pow!After(c, b) \in Pow!Level
<1>1. MaxBrightness \in Nat \ {0} /\ b \in Int /\ c.arg \in Int
  BY ProgressAssumption DEF Pow!Level, PowerCommand
<1>2. ASSUME NEW n \in Int PROVE Pow!Clamp(n) \in Pow!Level
  <2>1. \E x \in {MaxBrightness, n} : \A y \in {MaxBrightness, n} : x <= y
    BY <1>1
  <2> DEFINE low == Pow!Min({MaxBrightness, n})
  <2>2. low \in {MaxBrightness, n} /\ low <= MaxBrightness
    BY <2>1 DEF Pow!Min
  <2> HIDE DEF low
  <2>3. \E x \in {1, low} : \A y \in {1, low} : x >= y
    BY <1>1, <2>2
  <2>4. Pow!Max({1, low}) \in {1, low} /\ Pow!Max({1, low}) >= 1
    BY <1>1, <2>2, <2>3 DEF Pow!Max
  <2>5. Pow!Clamp(n) = Pow!Max({1, low})
    BY DEF Pow!Clamp, low
  <2> QED
    BY <1>1, <2>2, <2>4, <2>5 DEF Pow!Level
<1>3. b + c.arg \in Int
  BY <1>1
<1>4. Pow!After(c, b) \in {Pow!Clamp(c.arg), Pow!Clamp(b + c.arg), b}
  BY DEF Pow!After
<1> QED
  BY <1>1, <1>2, <1>3, <1>4

\* What is published is told, and what is not published has not changed: the panel
\* can always tell.
LEMMA PowerTells ==
  ASSUME PowerInv, Pow!Bump \/ UNCHANGED <<power_state, power_panel, power_signal, power_unseen>>,
         UNCHANGED power_panel
  PROVE  PowerTold'
BY DEF PowerInv, PowerTold, Pow!Bump, Pow!Face

\* Steps that neither change the brightness nor touch a command.
LEMMA NothingAsked ==
  ASSUME PowerInv, power'.brightness = power.brightness, UNCHANGED <<power_cmds, intended>>
  PROVE  Pow!StepsAddUp'
BY DEF PowerInv, Pow!StepsAddUp, Pow!Lead

\* What the loop reads.
LEMMA ReadingIs ==
  ASSUME PowerInv PROVE Pow!Reading \in Battery
BY DEF PowerInv, PowerTyped, Battery, Pow!Reading

\* The readings of the loop.
LEMMA PowerReadKeeps ==
  ASSUME PowerInv, power_state' \in Battery, Pow!Bump \/ UNCHANGED <<power_state, power_signal, power_unseen>>,
         power_loop' \in {"down", "starting", "listening", "refresh"}, news' \subseteq {"signal", "uevent"},
         proxies' \in [charge : Charge, profile : Profile],
         UNCHANGED <<power, power_cmds, power_panel, intended>>
  PROVE  PowerInv'
<1>1. PowerTyped'
  BY DEF PowerInv, PowerTyped, Pow!Bump
<1>2. PowerTold'
  BY PowerTells
<1>3. Pow!StepsAddUp'
  BY NothingAsked
<1> QED
  BY <1>1, <1>2, <1>3 DEF PowerInv

\* A click adds a command at the end.
LEMMA PowerClickKeeps ==
  ASSUME PowerInv, NEW c, Pow!Click(c) PROVE PowerInv'
<1>1. /\ c \in Pow!Offers
      /\ power_cmds' = IF Pow!Carries(c) THEN Append(power_cmds, c) ELSE power_cmds
      /\ intended' = Pow!After(c, intended)
      /\ UNCHANGED <<power, proxies, power_loop, news, power_state, power_panel, power_signal, power_unseen>>
  BY DEF Pow!Click, Pow!pipe
<1>2. power_cmds \in Seq(PowerCommand)
  BY DEF PowerInv, PowerTyped
<1>3. CASE Pow!Carries(c)
  <2>1. c \in PowerCommand
    <3>1. c \in Pow!Slider \/ c \in Pow!Buttons
      BY <1>1, <1>3 DEF Pow!Offers, Pow!Pills, Pow!Carries, Pow!PowerCmd
    <3>2. CASE c \in Pow!Slider
      <4>1. PICK v \in 1..MaxBrightness : c = [op |-> "set", arg |-> v]
        BY <3>2 DEF Pow!Slider, Pow!PowerCmd
      <4> QED
        BY <4>1 DEF PowerCommand
    <3>3. CASE c \in Pow!Buttons
      <4>1. c = [op |-> "step", arg |-> -1] \/ c = [op |-> "step", arg |-> 1]
        BY <3>3 DEF Pow!Buttons, Pow!PowerCmd
      <4> QED
        BY <4>1 DEF PowerCommand
    <3> QED
      BY <3>1, <3>2, <3>3
  <2>2. power_cmds' = Append(power_cmds, c)
    BY <1>1, <1>3
  <2> DEFINE n == Len(power_cmds)
  <2>3. /\ power_cmds' \in Seq(PowerCommand) /\ Len(power_cmds') = n + 1 /\ n \in Nat
        /\ \A i \in 1..n : power_cmds'[i] = power_cmds[i]
        /\ power_cmds'[n + 1] = c /\ DOMAIN power_cmds' = 1..(n + 1) /\ DOMAIN power_cmds = 1..n
    BY <1>2, <2>1, <2>2
  <2>4. PICK r \in [0..n -> Pow!Level] :
          /\ r[0] = power.brightness /\ r[n] = intended
          /\ \A i \in DOMAIN power_cmds : r[i] = Pow!After(power_cmds[i], r[i - 1])
    BY DEF PowerInv, Pow!StepsAddUp, Pow!Lead
  <2> HIDE DEF n
  <2> DEFINE q == [i \in 0..(n + 1) |-> IF i = n + 1 THEN Pow!After(c, r[n]) ELSE r[i]]
  <2>5. r[n] \in Pow!Level
    BY <2>3, <2>4
  <2>6. Pow!After(c, r[n]) \in Pow!Level
    BY <2>1, <2>5, AfterIsLevel
  <2>7. q \in [0..(n + 1) -> Pow!Level]
    BY <2>3, <2>4, <2>6
  <2>8. q[0] = power.brightness /\ q[n + 1] = intended'
    BY <1>1, <2>3, <2>4
  <2>9. ASSUME NEW i \in 1..(n + 1) PROVE q[i] = Pow!After(power_cmds'[i], q[i - 1])
    <3>1. CASE i = n + 1
      BY <2>3, <3>1
    <3>2. CASE i # n + 1
      <4>1. i \in 1..n /\ i - 1 \in 0..n
        BY <2>3, <3>2
      <4>2. q[i] = r[i] /\ q[i - 1] = r[i - 1]
        BY <2>3, <4>1
      <4> QED
        BY <2>3, <2>4, <4>1, <4>2
    <3> QED
      BY <3>1, <3>2
  <2> HIDE DEF q
  <2>10. Pow!StepsAddUp'
    BY <1>1, <2>3, <2>7, <2>8, <2>9 DEF Pow!StepsAddUp, Pow!Lead
  <2>11. PowerTold'
    BY <1>1, PowerTells
  <2>12. PowerTyped'
    BY <1>1, <2>3 DEF PowerInv, PowerTyped
  <2> QED
    BY <2>10, <2>11, <2>12 DEF PowerInv
<1>4. CASE ~Pow!Carries(c)
  <2>1. power_cmds' = power_cmds /\ intended' = intended
    BY <1>1, <1>4 DEF Pow!After, Pow!Carries
  <2>2. PowerTold' /\ Pow!StepsAddUp'
    BY <1>1, <2>1, PowerTells, NothingAsked
  <2>3. PowerTyped'
    BY <1>1, <2>1 DEF PowerInv, PowerTyped
  <2> QED
    BY <2>2, <2>3 DEF PowerInv
<1> QED
  BY <1>3, <1>4

\* The loop carries the first command out.
LEMMA PowerTakeKeeps ==
  ASSUME PowerInv, Pow!TakeCmd PROVE PowerInv'
<1> DEFINE c == Head(power_cmds)
           b == Pow!After(c, power.brightness)
           n == Len(power_cmds)
<1>1. /\ power_cmds # <<>> /\ power_cmds' = Tail(power_cmds) /\ power_loop' = "refresh"
      /\ power' = [power EXCEPT !.brightness = b]
      /\ news' = news \cup (IF b # power.brightness THEN {"uevent"} ELSE {})
      /\ UNCHANGED <<proxies, power_state, power_panel, power_signal, power_unseen, intended>>
  BY DEF Pow!TakeCmd, Pow!pipe
<1>2. power_cmds \in Seq(PowerCommand) /\ power \in Battery /\ power.brightness \in Pow!Level
  BY DEF PowerInv, PowerTyped, Battery
<1>3. /\ c \in PowerCommand /\ c = power_cmds[1] /\ n \in Nat \ {0} /\ Tail(power_cmds) \in Seq(PowerCommand)
      /\ Len(Tail(power_cmds)) = n - 1 /\ DOMAIN Tail(power_cmds) = 1..(n - 1) /\ DOMAIN power_cmds = 1..n
      /\ \A i \in 1..(n - 1) : Tail(power_cmds)[i] = power_cmds[i + 1]
  BY <1>1, <1>2
<1>4. PICK r \in [0..n -> Pow!Level] :
        /\ r[0] = power.brightness /\ r[n] = intended
        /\ \A i \in DOMAIN power_cmds : r[i] = Pow!After(power_cmds[i], r[i - 1])
  BY DEF PowerInv, Pow!StepsAddUp, Pow!Lead
<1>5. r[1] = b /\ b \in Pow!Level
  <2>1. 1 \in DOMAIN power_cmds /\ 1 \in 0..n /\ 1 - 1 = 0
    BY <1>3
  <2>2. r[1] = Pow!After(power_cmds[1], r[0])
    BY <1>4, <2>1
  <2> QED
    BY <1>3, <1>4, <2>1, <2>2
<1> HIDE DEF c, b, n
<1>6. power' \in Battery /\ power'.brightness = b
  BY <1>1, <1>2, <1>5 DEF Battery
<1> DEFINE q == [i \in 0..(n - 1) |-> r[i + 1]]
<1>7. q \in [0..(n - 1) -> Pow!Level] /\ q[0] = b /\ q[n - 1] = intended
  BY <1>3, <1>4, <1>5
<1>8. ASSUME NEW i \in 1..(n - 1) PROVE q[i] = Pow!After(power_cmds'[i], q[i - 1])
  <2>1. i + 1 \in DOMAIN power_cmds /\ (i + 1) - 1 = i /\ i \in 0..(n - 1) /\ i - 1 \in 0..(n - 1) /\ (i - 1) + 1 = i
    BY <1>3
  <2>2. r[i + 1] = Pow!After(power_cmds[i + 1], r[i])
    BY <1>4, <2>1
  <2>3. q[i] = r[i + 1] /\ q[i - 1] = r[i]
    BY <2>1
  <2> QED
    BY <1>1, <1>3, <2>2, <2>3
<1> HIDE DEF q
<1>9. Pow!StepsAddUp'
  BY <1>1, <1>3, <1>6, <1>7, <1>8 DEF Pow!StepsAddUp, Pow!Lead
<1>10. PowerTold'
  BY <1>1, PowerTells
<1>11. PowerTyped'
  BY <1>1, <1>3, <1>6 DEF PowerInv, PowerTyped
<1> QED
  BY <1>9, <1>10, <1>11 DEF PowerInv

\* Every step of the power service, its world and its menu.
LEMMA PowerRunKeeps ==
  ASSUME PowerInv, Pow!Next PROVE PowerInv'
<1>1. /\ power \in Battery /\ power_state \in Battery /\ proxies \in [charge : Charge, profile : Profile]
      /\ news \subseteq {"signal", "uevent"} /\ power_loop \in {"down", "starting", "listening", "refresh"}
      /\ power.brightness \in Pow!Level /\ power.charge \in Charge /\ power.profile \in Profile
  BY DEF PowerInv, PowerTyped, Battery
<1>2. ASSUME Pow!RefreshBrightness
      PROVE  power_state' \in Battery /\ (Pow!Bump \/ UNCHANGED <<power_state, power_signal, power_unseen>>)
  BY <1>1, <1>2 DEF Pow!RefreshBrightness, Pow!pipe, Battery
<1>3. ASSUME NEW always \in BOOLEAN, Pow!RefreshAll(always)
      PROVE  power_state' \in Battery /\ (Pow!Bump \/ UNCHANGED <<power_state, power_signal, power_unseen>>)
  BY <1>3, ReadingIs DEF Pow!RefreshAll, Pow!pipe
<1>4. ASSUME Pow!Start PROVE PowerInv'
  <2>1. /\ power_state' \in Battery /\ Pow!Bump /\ power_loop' = "starting"
        /\ proxies' \in [charge : Charge, profile : Profile]
        /\ UNCHANGED <<power, news, power_cmds, power_panel, intended>>
    BY <1>1, <1>4 DEF Pow!Start, Battery
  <2> QED
    BY <1>1, <2>1, PowerReadKeeps
<1>5. ASSUME Pow!OpenUevents \/ Pow!ProxiesLearn PROVE PowerInv'
  <2>1. /\ power_loop' \in {"down", "starting", "listening", "refresh"}
        /\ proxies' \in [charge : Charge, profile : Profile]
        /\ UNCHANGED <<power, news, power_state, power_cmds, power_panel, power_signal, power_unseen, intended>>
    BY <1>1, <1>5 DEF Pow!OpenUevents, Pow!ProxiesLearn, Pow!pipe
  <2> QED
    BY <1>1, <2>1, PowerReadKeeps
<1>6. ASSUME Pow!OnSignal \/ Pow!OnUevent \/ Pow!Poll \/ Pow!FinishCmd PROVE PowerInv'
  <2>1. TRUE \in BOOLEAN /\ FALSE \in BOOLEAN
    OBVIOUS
  <2>2. /\ Pow!RefreshBrightness \/ Pow!RefreshAll(TRUE) \/ Pow!RefreshAll(FALSE)
        /\ news' \subseteq {"signal", "uevent"} /\ power_loop' \in {"down", "starting", "listening", "refresh"}
        /\ UNCHANGED <<power, proxies, power_cmds, power_panel, intended>>
    BY <1>1, <1>6 DEF Pow!OnSignal, Pow!OnUevent, Pow!Poll, Pow!FinishCmd
  <2>3. power_state' \in Battery /\ (Pow!Bump \/ UNCHANGED <<power_state, power_signal, power_unseen>>)
    BY <1>2, <1>3, <2>1, <2>2
  <2> QED
    BY <1>1, <2>2, <2>3, PowerReadKeeps
<1>7. ASSUME Pow!Drain \/ Pow!Look PROVE PowerInv'
  <2>1. UNCHANGED <<power, proxies, power_loop, news, power_state, power_cmds, intended>>
    BY <1>7 DEF Pow!Drain, Pow!Look
  <2>2. Pow!StepsAddUp'
    BY <2>1, NothingAsked
  <2>3. PowerTyped' /\ PowerTold'
    BY <1>7, <2>1 DEF Pow!Drain, Pow!Look, PowerInv, PowerTyped, PowerTold, Pow!Face
  <2> QED
    BY <2>2, <2>3 DEF PowerInv
<1>8. ASSUME Pow!BrightnessChanges PROVE PowerInv'
  <2>1. PICK b \in Pow!Level : /\ power' = [power EXCEPT !.brightness = b]
                               /\ intended' \in {end \in Pow!Level : Pow!Lead(b, end)}
    BY <1>8 DEF Pow!BrightnessChanges
  <2>2. /\ news' \subseteq {"signal", "uevent"}
        /\ UNCHANGED <<proxies, power_loop, power_state, power_cmds, power_panel, power_signal, power_unseen>>
    BY <1>1, <1>8 DEF Pow!BrightnessChanges, Pow!pipe
  <2>3. power' \in Battery /\ power'.brightness = b /\ Pow!Lead(b, intended')
    BY <1>1, <2>1 DEF Battery
  <2>4. Pow!StepsAddUp'
    BY <2>2, <2>3 DEF Pow!StepsAddUp, Pow!Lead
  <2>5. PowerTold'
    BY <2>2, PowerTells
  <2>6. PowerTyped'
    BY <2>2, <2>3 DEF PowerInv, PowerTyped
  <2> QED
    BY <2>4, <2>5, <2>6 DEF PowerInv
<1>9. ASSUME Pow!DaemonChanges PROVE PowerInv'
  <2>1. PICK c \in Charge, p \in Profile : power' = [power EXCEPT !.charge = c, !.profile = p]
    BY <1>9 DEF Pow!DaemonChanges
  <2>2. /\ news' \subseteq {"signal", "uevent"}
        /\ UNCHANGED <<proxies, power_loop, power_state, power_cmds, power_panel, power_signal, power_unseen, intended>>
    BY <1>1, <1>9 DEF Pow!DaemonChanges, Pow!pipe
  <2>3. power' \in Battery /\ power'.brightness = power.brightness
    BY <1>1, <2>1 DEF Battery
  <2>4. Pow!StepsAddUp' /\ PowerTold'
    BY <2>2, <2>3, PowerTells, NothingAsked
  <2>5. PowerTyped'
    BY <2>2, <2>3 DEF PowerInv, PowerTyped
  <2> QED
    BY <2>4, <2>5 DEF PowerInv
<1> QED
  BY <1>4, <1>5, <1>6, <1>7, <1>8, <1>9, PowerTakeKeeps, PowerClickKeeps DEF Pow!Next, Pow!Loop, Pow!Shell

\* The brightness is what is asked for before anything is.
LEMMA PowerStart ==
  ASSUME Pow!Init PROVE PowerInv
<1>1. /\ power \in [brightness : Pow!Level, charge : {CHOOSE c \in Charge : TRUE}, profile : {CHOOSE p \in Profile : TRUE}]
      /\ proxies = [charge |-> power.charge, profile |-> power.profile]
      /\ power_loop = "down" /\ news = {} /\ power_cmds = <<>>
      /\ power_state = [power EXCEPT !.brightness = 0]
      /\ power_panel = Pow!Face
      /\ power_signal = "empty" /\ power_unseen = FALSE
      /\ intended = power.brightness
  BY DEF Pow!Init
<1>2. (CHOOSE c \in Charge : TRUE) \in Charge /\ (CHOOSE p \in Profile : TRUE) \in Profile /\ 0 \in Pow!Level
  BY ProgressAssumption DEF Pow!Level
<1>3. power \in Battery
  BY <1>1, <1>2 DEF Battery
<1>4. power_state \in Battery /\ proxies \in [charge : Charge, profile : Profile]
  BY <1>1, <1>2, <1>3 DEF Battery
<1>5. PowerTyped
  <2>1. <<>> \in Seq(PowerCommand)
    OBVIOUS
  <2> QED
    BY <1>1, <1>3, <1>4, <2>1 DEF PowerTyped
<1>6. Pow!StepsAddUp
  <2> DEFINE r == [i \in 0..0 |-> power.brightness]
  <2>1. power.brightness \in Pow!Level /\ Len(power_cmds) = 0 /\ DOMAIN power_cmds = {}
    BY <1>1, <1>3 DEF Battery
  <2>2. r \in [0..0 -> Pow!Level] /\ r[0] = power.brightness
    BY <2>1
  <2> HIDE DEF r
  <2> QED
    BY <1>1, <2>1, <2>2 DEF Pow!StepsAddUp, Pow!Lead
<1> QED
  BY <1>1, <1>5, <1>6 DEF PowerInv, PowerTold

\* Power while another part runs.
LEMMA PowerStay ==
  ASSUME PowerInv, UNCHANGED powerVars PROVE PowerInv'
BY DEF PowerInv, powerVars, PowerTyped, PowerTold, Pow!Face, Pow!StepsAddUp, Pow!Lead

\* What the run checks of power.
LEMMA PowerGives ==
  ASSUME PowerInv PROVE Pow!TypeOK /\ Pow!PanelFresh /\ Pow!StepsAddUp
BY DEF PowerInv, PowerTyped, PowerTold, Battery, Pow!TypeOK, Pow!PanelFresh

----------------------------------------------------------------------------
(***************************************************************************)
(* All the parts                                                           *)
(***************************************************************************)
PartsInv ==
  part \in Parts /\ Services /\ NetInv /\ BtInv /\ PowerInv /\ CardsInv /\ PanelsInv

\* The parts as they are started.
LEMMA PartsStart == PartsInit => PartsInv
BY InitServices, NetworkStart, BluetoothStart, PowerStart, CardsStart, PanelsStart DEF PartsInit, PartsInv

\* A part runs, and the others stay as they are.
LEMMA PartsKeep == PartsInv /\ [PartsNext]_partsVars => PartsInv'
<1> SUFFICES ASSUME PartsInv, [PartsNext]_partsVars PROVE PartsInv'
  OBVIOUS
<1>1. part \in Parts /\ Services /\ NetInv /\ BtInv /\ PowerInv /\ CardsInv /\ PanelsInv
  BY DEF PartsInv
<1>2. /\ part' = part
      /\ Next \/ UNCHANGED vars
      /\ Net!Next \/ UNCHANGED netVars
      /\ Bt!Next \/ UNCHANGED btVars
      /\ Pow!Next \/ UNCHANGED powerVars
      /\ Cards!Next \/ UNCHANGED cardVars
      /\ Pan!Next \/ UNCHANGED panelVars
  BY DEF PartsNext, PartsInit, partsVars, PluginServicesRun, NetworkRuns, BluetoothRuns, PowerRuns, CardsRun, PanelsRun
<1>3. Services'
  BY <1>1, <1>2, NextServices
<1>4. NetInv'
  BY <1>1, <1>2, NetworkRunKeeps, NetworkStay
<1>5. BtInv'
  BY <1>1, <1>2, BluetoothRunKeeps, BluetoothStay
<1>6. PowerInv'
  BY <1>1, <1>2, PowerRunKeeps, PowerStay
<1>7. CardsInv'
  BY <1>1, <1>2, CardsRunKeeps, CardsStay
<1>8. PanelsInv'
  BY <1>1, <1>2, PanelsRunKeeps, PanelsStay
<1> QED
  BY <1>1, <1>2, <1>3, <1>4, <1>5, <1>6, <1>7, <1>8 DEF PartsInv

\* The invariant of all the parts.
THEOREM PartsHold == PartsSpec => []PartsInv
BY PartsStart, PartsKeep, PTL DEF PartsSpec

\* Every variable of every part has its type, and a card's window its entry.
THEOREM PartsTypeCorrect == PartsSpec => []PartsTypeOK
<1>1. PartsInv => PartsTypeOK
  BY NetworkGives, BluetoothGives, PowerGives, CardsGive, PanelsGive DEF PartsInv, Services, PartsTypeOK
<1> QED
  BY <1>1, PartsHold, PTL

\* Nothing that a service publishes is lost on its panel (services/src/util.rs and the
\* on_event of the components), and a loop that listens, has handled what it was told
\* and missed nothing mirrors NetworkManager.
THEOREM PanelsFollowServices == PartsSpec => []PanelsFollow
<1>1. PartsInv => PanelsFollow
  BY NetworkGives, BluetoothGives, PowerGives DEF PartsInv, PanelsFollow
<1> QED
  BY <1>1, PartsHold, PTL

\* Passwords go to the network they were typed for, steps of the brightness add up and
\* the menu says "connecting" of an attempt that is under way.
THEOREM CommandsAlwaysFit == PartsSpec => []CommandsFit
<1>1. PartsInv => CommandsFit
  BY NetworkGives, BluetoothGives, PowerGives DEF PartsInv, CommandsFit
<1> QED
  BY <1>1, PartsHold, PTL

\* Cards that everybody has heard of have their window, unless it was taken from them.
THEOREM CardsKeepTheirWindow == PartsSpec => []CardsHaveWindow
<1>1. PartsInv => CardsHaveWindow
  BY CardsGive DEF PartsInv, CardsHaveWindow
<1> QED
  BY <1>1, PartsHold, PTL

\* A panel that is shown keeps its place and its windows, and at rest is where the
\* pointer says.
THEOREM PanelsStayWhole == PartsSpec => []PanelsAreWhole
<1>1. PartsInv => PanelsAreWhole
  BY PanelsGive DEF PartsInv
<1> QED
  BY <1>1, PartsHold, PTL
=============================================================================
