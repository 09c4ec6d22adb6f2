------------------------ MODULE NotificationsProofs ------------------------
(***************************************************************************)
(* What Notifications promises for any number of notifications, requests   *)
(* and remembered ids: at any point between two awaits of the daemon and   *)
(* between the two halves of the application's push().                     *)
(*                                                                         *)
(* The first part is about retain(): what a sequence without an id holds.  *)
(* Then one inductive invariant, Shown, ties the cards, the list, the ids  *)
(* given out so far and the counters to each other; and a second one,      *)
(* TimeoutIsPending with what the command loop has in hand, follows a      *)
(* timeout through its hops.                                               *)
(***************************************************************************)
EXTENDS Notifications, FiniteSetTheorems, SequenceTheorems, WellFoundedInduction, TLAPS

----------------------------------------------------------------------------
(***************************************************************************)
(* retain()                                                                *)
(***************************************************************************)
\* A set of numbers that is not empty has a least one.
LEMMA LeastNumber ==
  ASSUME NEW T \in SUBSET Nat, T # {}
  PROVE  \E x \in T : \A y \in T : ~(y < x)
<1>1. \E x \in T : \A y \in T : <<y, x>> \notin OpToRel(<, Nat)
  BY NatLessThanWellFounded, WFMin
<1> QED
  BY <1>1 DEF OpToRel

\* One more position, one more that stays or not.
LEMMA StayingNext ==
  ASSUME NEW s, NEW id, NEW i \in Nat
  PROVE  /\ Staying(s, id, i) \in Nat
         /\ Staying(s, id, 0) = 0
         /\ s[i + 1].id # id => Staying(s, id, i + 1) = Staying(s, id, i) + 1
         /\ s[i + 1].id = id => Staying(s, id, i + 1) = Staying(s, id, i)
<1> DEFINE K(n) == {j \in 1..n : s[j].id # id}
<1>1. \A n \in Nat : IsFiniteSet(K(n))
  <2> SUFFICES ASSUME NEW n \in Nat PROVE IsFiniteSet(K(n))
    OBVIOUS
  <2>1. IsFiniteSet(1..n) /\ K(n) \in SUBSET (1..n)
    BY FS_Interval
  <2> HIDE DEF K
  <2> QED
    BY <2>1, FS_Subset
<1>2. \A n \in Nat : Staying(s, id, n) = Cardinality(K(n))
  BY DEF Staying
<1>3. K(0) = {}
  OBVIOUS
<1>4. s[i + 1].id # id => K(i + 1) = K(i) \cup {i + 1} /\ i + 1 \notin K(i)
  OBVIOUS
<1>5. s[i + 1].id = id => K(i + 1) = K(i)
  OBVIOUS
<1> HIDE DEF K
<1>6. Cardinality(K(i)) \in Nat /\ Cardinality(K(0)) = 0
  BY <1>1, <1>3, FS_CardinalityType, FS_EmptySet
<1>7. i + 1 \notin K(i) => Cardinality(K(i) \cup {i + 1}) = Cardinality(K(i)) + 1
  BY <1>1, FS_AddElement
<1> QED
  BY <1>2, <1>4, <1>5, <1>6, <1>7

\* The count of those that stay never falls.
LEMMA StayingGrows ==
  ASSUME NEW s, NEW id, NEW i \in Nat, NEW j \in Nat, i <= j
  PROVE  Staying(s, id, i) <= Staying(s, id, j)
<1> DEFINE K(n) == {m \in 1..n : s[m].id # id}
<1>1. IsFiniteSet(1..j) /\ K(j) \in SUBSET (1..j) /\ K(i) \in SUBSET K(j)
  BY FS_Interval
<1>2. Staying(s, id, i) = Cardinality(K(i)) /\ Staying(s, id, j) = Cardinality(K(j))
  BY DEF Staying
<1> HIDE DEF K
<1>3. IsFiniteSet(K(j))
  BY <1>1, FS_Subset
<1> QED
  BY <1>1, <1>2, <1>3, FS_Subset

\* Two that stay come to different places.
LEMMA PlacesDiffer ==
  ASSUME NEW s, NEW id, NEW i \in Nat, NEW j \in Nat, i < j, s[j].id # id
  PROVE  Staying(s, id, i) < Staying(s, id, j)
<1>1. j - 1 \in Nat /\ i <= j - 1 /\ (j - 1) + 1 = j
  OBVIOUS
<1>2. Staying(s, id, i) <= Staying(s, id, j - 1)
  BY <1>1, StayingGrows
<1>3. Staying(s, id, j) = Staying(s, id, j - 1) + 1
  BY <1>1, StayingNext
<1> QED
  BY <1>1, <1>2, <1>3, StayingNext

\* Every place is taken.
LEMMA PlaceTaken ==
  ASSUME NEW s, NEW id, NEW n \in Nat, NEW k \in 1..Staying(s, id, n)
  PROVE  \E i \in 1..n : s[i].id # id /\ Staying(s, id, i) = k
<1> DEFINE T == {i \in Nat : k <= Staying(s, id, i)}
<1>1. n \in T /\ T \in SUBSET Nat
  BY StayingNext
<1>2. PICK i \in T : \A y \in T : ~(y < i)
  BY <1>1, LeastNumber
<1>3. i \in Nat /\ k <= Staying(s, id, i) /\ i <= n /\ i # 0
  BY <1>1, <1>2, StayingNext
<1>4. i - 1 \in Nat /\ (i - 1) + 1 = i /\ i \in 1..n
  BY <1>3
<1>5. ~(k <= Staying(s, id, i - 1))
  BY <1>2, <1>4
<1>6. Staying(s, id, i - 1) \in Nat /\ Staying(s, id, i) \in Nat /\ k \in Nat
  BY <1>3, <1>4, StayingNext
<1>7. s[i].id # id /\ Staying(s, id, i) = Staying(s, id, i - 1) + 1
  BY <1>3, <1>4, <1>5, <1>6, StayingNext
<1>8. Staying(s, id, i) = k
  BY <1>3, <1>5, <1>6, <1>7
<1> QED
  BY <1>4, <1>7, <1>8

\* Nothing comes twice.
Once(s) == \A i, j \in DOMAIN s : s[i].id = s[j].id => i = j

\* What retain() leaves: those with another id, in a sequence of the same kind,
\* and none twice that was not there twice.
LEMMA WithoutIs ==
  ASSUME NEW S, NEW s \in Seq(S), NEW id
  PROVE  /\ Without(s, id) \in Seq(S)
         /\ ToSet(Without(s, id)) = {n \in ToSet(s) : n.id # id}
         /\ Once(s) => Once(Without(s, id))
<1> DEFINE N == Staying(s, id, Len(s))
           At(k) == CHOOSE i \in DOMAIN s : s[i].id # id /\ Staying(s, id, i) = k
           w == [k \in 1..N |-> s[At(k)]]
<1>1. Without(s, id) = w
  BY DEF Without
<1>2. Len(s) \in Nat /\ DOMAIN s = 1..Len(s) /\ N \in Nat /\ \A i \in DOMAIN s : s[i] \in S
  BY StayingNext
<1>3. ASSUME NEW k \in 1..N PROVE At(k) \in DOMAIN s /\ s[At(k)].id # id /\ Staying(s, id, At(k)) = k
  <2>1. \E i \in DOMAIN s : s[i].id # id /\ Staying(s, id, i) = k
    BY <1>2, PlaceTaken
  <2> QED
    BY <2>1
<1>4. ASSUME NEW i \in DOMAIN s, s[i].id # id
      PROVE  Staying(s, id, i) \in 1..N /\ At(Staying(s, id, i)) = i
  <2> DEFINE k == Staying(s, id, i)
  <2>1. i \in Nat /\ i >= 1 /\ i <= Len(s) /\ 0 < i
    BY <1>2
  <2>2. k \in Nat /\ Staying(s, id, 0) = 0 /\ k <= N /\ Staying(s, id, 0) < k
    BY <1>2, <1>4, <2>1, StayingNext, StayingGrows, PlacesDiffer
  <2>3. k \in 1..N
    BY <1>2, <2>2
  <2>4. At(k) \in DOMAIN s /\ s[At(k)].id # id /\ Staying(s, id, At(k)) = k
    BY <1>3, <2>3
  <2> HIDE DEF At
  <2>5. ~(At(k) < i) /\ ~(i < At(k))
    BY <1>2, <1>4, <2>1, <2>2, <2>4, PlacesDiffer
  <2> QED
    BY <1>2, <2>1, <2>3, <2>4, <2>5
<1> HIDE DEF At, N
<1>5. DOMAIN w = 1..N /\ Len(w) = N /\ \A k \in 1..N : w[k] = s[At(k)]
  BY <1>2
<1>6. w \in Seq(S)
  <2>1. w \in [1..N -> S]
    BY <1>2, <1>3
  <2> QED
    BY <1>2, <2>1
<1>7. ToSet(w) = {n \in ToSet(s) : n.id # id}
  <2>1. ASSUME NEW n \in ToSet(w) PROVE n \in ToSet(s) /\ n.id # id
    BY <1>3, <1>5 DEF ToSet
  <2>2. ASSUME NEW n \in ToSet(s), n.id # id PROVE n \in ToSet(w)
    <3>1. PICK i \in DOMAIN s : s[i] = n
      BY DEF ToSet
    <3>2. Staying(s, id, i) \in 1..N /\ w[Staying(s, id, i)] = n
      BY <1>4, <1>5, <2>2, <3>1
    <3> QED
      BY <1>5, <3>2 DEF ToSet
  <2> QED
    BY <2>1, <2>2
<1>8. ASSUME Once(s) PROVE Once(w)
  <2> SUFFICES ASSUME NEW k \in 1..N, NEW l \in 1..N, s[At(k)].id = s[At(l)].id PROVE k = l
    BY <1>5 DEF Once
  <2>1. At(k) = At(l)
    BY <1>3, <1>8 DEF Once
  <2> QED
    BY <1>3, <2>1
<1> QED
  BY <1>1, <1>6, <1>7, <1>8

----------------------------------------------------------------------------
(***************************************************************************)
(* Sequences                                                               *)
(***************************************************************************)
\* A notification with a new id comes first, or last.
LEMMA FrontIs ==
  ASSUME NEW S, NEW n \in S, NEW s \in Seq(S), Once(s), \A m \in ToSet(s) : m.id # n.id
  PROVE  /\ <<n>> \o s \in Seq(S)
         /\ ToSet(<<n>> \o s) = {n} \cup ToSet(s)
         /\ Once(<<n>> \o s)
<1> DEFINE t == <<n>> \o s
<1>1. /\ t \in Seq(S) /\ Len(s) \in Nat /\ DOMAIN s = 1..Len(s) /\ DOMAIN t = 1..(Len(s) + 1)
      /\ t[1] = n /\ \A i \in DOMAIN s : i + 1 \in DOMAIN t /\ t[i + 1] = s[i]
      /\ \A i \in DOMAIN t : i = 1 \/ (i - 1 \in DOMAIN s /\ t[i] = s[i - 1])
  OBVIOUS
<1> HIDE DEF t
<1>2. \A i \in DOMAIN s : s[i].id # n.id
  BY DEF ToSet
<1>3. ToSet(t) = {n} \cup ToSet(s)
  BY <1>1 DEF ToSet
<1>4. Once(t)
  <2> SUFFICES ASSUME NEW i \in DOMAIN t, NEW j \in DOMAIN t, t[i].id = t[j].id PROVE i = j
    BY DEF Once
  <2>1. CASE i = 1 \/ j = 1
    BY <1>1, <1>2, <2>1
  <2>2. CASE i # 1 /\ j # 1
    <3>1. i - 1 = j - 1 /\ i \in Nat /\ j \in Nat
      BY <1>1, <2>2 DEF Once
    <3> QED
      BY <3>1
  <2> QED
    BY <2>1, <2>2
<1> QED
  BY <1>1, <1>3, <1>4 DEF t

LEMMA BackIs ==
  ASSUME NEW S, NEW n \in S, NEW s \in Seq(S), Once(s), \A m \in ToSet(s) : m.id # n.id
  PROVE  /\ Append(s, n) \in Seq(S)
         /\ ToSet(Append(s, n)) = ToSet(s) \cup {n}
         /\ Once(Append(s, n))
<1> DEFINE t == Append(s, n)
<1>1. /\ t \in Seq(S) /\ Len(s) \in Nat /\ DOMAIN s = 1..Len(s) /\ DOMAIN t = 1..(Len(s) + 1)
      /\ t[Len(s) + 1] = n /\ \A i \in DOMAIN s : i \in DOMAIN t /\ t[i] = s[i]
      /\ \A i \in DOMAIN t : i = Len(s) + 1 \/ (i \in DOMAIN s /\ t[i] = s[i])
  OBVIOUS
<1> HIDE DEF t
<1>2. \A i \in DOMAIN s : s[i].id # n.id
  BY DEF ToSet
<1>3. ToSet(t) = ToSet(s) \cup {n}
  BY <1>1 DEF ToSet
<1>4. Once(t)
  BY <1>1, <1>2 DEF Once
<1> QED
  BY <1>1, <1>3, <1>4 DEF t

\* What is added to a queue, and taken from it.
LEMMA AppendedIs ==
  ASSUME NEW S, NEW s \in Seq(S), NEW x
  PROVE  ToSet(Append(s, x)) = ToSet(s) \cup {x}
<1>1. /\ Len(s) \in Nat /\ DOMAIN s = 1..Len(s) /\ DOMAIN Append(s, x) = 1..(Len(s) + 1)
      /\ Append(s, x)[Len(s) + 1] = x /\ \A i \in DOMAIN s : Append(s, x)[i] = s[i]
  OBVIOUS
<1> QED
  BY <1>1 DEF ToSet

LEMMA HeadAndTail ==
  ASSUME NEW S, NEW s \in Seq(S), s # <<>>
  PROVE  ToSet(s) = {Head(s)} \cup ToSet(Tail(s)) /\ Head(s) \in S /\ Tail(s) \in Seq(S)
<1>1. /\ Len(s) \in Nat /\ DOMAIN s = 1..Len(s) /\ 1 \in DOMAIN s /\ Head(s) = s[1]
      /\ DOMAIN Tail(s) = 1..(Len(s) - 1)
      /\ \A i \in DOMAIN Tail(s) : i + 1 \in DOMAIN s /\ Tail(s)[i] = s[i + 1]
      /\ \A i \in DOMAIN s : i = 1 \/ i - 1 \in DOMAIN Tail(s)
      /\ \A i \in DOMAIN s : (i - 1) + 1 = i
  OBVIOUS
<1>2. ToSet(s) = {Head(s)} \cup ToSet(Tail(s))
  BY <1>1 DEF ToSet
<1> QED
  BY <1>2

\* What is in a sequence is finite.
LEMMA HeldFinite ==
  ASSUME NEW S, NEW s \in Seq(S)
  PROVE  IsFiniteSet(ToSet(s))
<1>1. Len(s) \in Nat /\ DOMAIN s = 1..Len(s) /\ s \in [1..Len(s) -> ToSet(s)]
  BY DEF ToSet
<1>2. \A x \in ToSet(s) : \E i \in 1..Len(s) : s[i] = x
  BY <1>1 DEF ToSet
<1>3. s \in Surjection(1..Len(s), ToSet(s))
  BY <1>1, <1>2 DEF Surjection
<1>4. IsFiniteSet(1..Len(s))
  BY <1>1, FS_Interval
<1> QED
  BY <1>3, <1>4, FS_Surjection

----------------------------------------------------------------------------
(***************************************************************************)
(* The invariant                                                           *)
(***************************************************************************)
\* An id that a client may know: remembered, or given out by the daemon or the
\* shell.
Given(id) == id \in OldIds \cup 1..(next_id - 1) \cup (LocalBase + 1)..(next_local - 1)

\* Ids are given out no faster than notifications are made, and no notification
\* is counted twice.
Numbers ==
  /\ (next_id - 1) + (next_local - (LocalBase + 1)) <= serial
  /\ unread_count <= serial
  /\ \A n \in ToSet(history) : n.serial <= serial /\ Given(n.id)

\* A command about a notification names it, and a request for a timer its time.
Request ==
  {c \in [op : Op, id : Id \cup {0}, at : 0..MaxPushes] :
     /\ c.id = 0 => c.op \in {"ClearAll", "ToggleDnd"}
     /\ c.op = "ExpireAfter" => c.at # 0}

\* The command loop waits with empty hands.
InHand == ~loop.busy => loop.emit = <<>> /\ loop.drop = {}

Shown == TypeOK /\ CardsAreCurrent /\ Numbers /\ cmds \in Seq(Request) /\ InHand

News == {n \in ToSet(history) : n.serial > looked}

\* What is new in the list can be counted.
LEMMA NewsFinite == TypeOK => IsFiniteSet(News) /\ Cardinality(News) \in Nat
<1> SUFFICES ASSUME TypeOK PROVE IsFiniteSet(News) /\ Cardinality(News) \in Nat
  OBVIOUS
<1>1. IsFiniteSet(ToSet(history))
  BY HeldFinite DEF TypeOK
<1>2. News \in SUBSET ToSet(history)
  BY DEF News
<1>3. IsFiniteSet(News)
  BY <1>1, <1>2, FS_Subset
<1> QED
  BY <1>3, FS_CardinalityType

\* Requests are commands.
LEMMA RequestsTyped ==
  ASSUME NEW s \in Seq(Request)
  PROVE  s \in Seq([op : Op, id : Id \cup {0}, at : 0..MaxPushes])
<1>1. Request \subseteq [op : Op, id : Id \cup {0}, at : 0..MaxPushes]
  BY DEF Request
<1> QED
  BY <1>1, SeqMonotonic

\* One more element adds one at most.
LEMMA OneMore ==
  ASSUME NEW S, NEW x, IsFiniteSet(S)
  PROVE  IsFiniteSet(S \cup {x}) /\ Cardinality(S \cup {x}) <= Cardinality(S) + 1
<1>1. Cardinality(S) \in Nat
  BY FS_CardinalityType
<1>2. CASE x \in S
  <2> DEFINE T == S \cup {x}
  <2>1. T = S
    BY <1>2
  <2> HIDE DEF T
  <2>2. IsFiniteSet(T) /\ Cardinality(T) <= Cardinality(S) + 1
    BY <1>1, <2>1
  <2> QED
    BY <2>2 DEF T
<1>3. CASE x \notin S
  BY <1>1, <1>3, FS_AddElement
<1> QED
  BY <1>2, <1>3

\* Steps that show nothing new, and may take something away.
LEMMA ShownFewer ==
  ASSUME Shown, TypeOK', cmds' \in Seq(Request), InHand',
         UNCHANGED <<next_id, next_local, serial, looked>>,
         Once(history'), Once(popups'),
         ToSet(popups') \subseteq ToSet(history'), ToSet(history') \subseteq ToSet(history),
         unread_count' = unread_count \/ (unread_count' = 0 /\ history' = <<>>),
         dnd' => \A id \in IdsIn(popups') : id > LocalBase
  PROVE  Shown'
<1>1. unread_count' <= unread_count /\ TypeOK
  BY DEF Shown, TypeOK
<1>2. Numbers'
  BY <1>1 DEF Shown, Numbers, Given, TypeOK
<1>3. NothingUncounted'
  <2>1. News' \in SUBSET News
    BY DEF News
  <2>2. IsFiniteSet(News) /\ Cardinality(News) \in Nat /\ Cardinality(News) <= unread_count
    BY <1>1, NewsFinite DEF News, Shown, CardsAreCurrent, NothingUncounted
  <2>3. CASE unread_count' = unread_count
    <3>1. Cardinality(News') <= Cardinality(News)
      BY <2>1, <2>2, FS_Subset
    <3>2. Cardinality(News') \in Nat
      BY <2>1, <2>2, FS_Subset, FS_CardinalityType
    <3> QED
      BY <1>1, <2>2, <2>3, <3>1, <3>2 DEF News, NothingUncounted, TypeOK
  <2>4. CASE unread_count' = 0 /\ history' = <<>>
    <3>1. News' = {}
      BY <2>4 DEF News, ToSet
    <3>2. Cardinality(News') = 0
      BY <3>1, FS_EmptySet
    <3> QED
      BY <2>4, <3>2 DEF News, NothingUncounted
  <2> QED
    BY <2>3, <2>4
<1>4. QuietUnderDnd'
  BY DEF QuietUnderDnd
<1>5. CardsAreCurrent'
  BY <1>3, <1>4 DEF CardsAreCurrent, Once
<1> QED
  BY <1>2, <1>5 DEF Shown

\* Steps that touch no card and no id.
LEMMA ShownQuiet ==
  ASSUME Shown, TypeOK', cmds' \in Seq(Request), InHand',
         UNCHANGED <<shared, next_id, next_local, serial, looked>>
  PROVE  Shown'
<1>1. Once(history) /\ Once(popups) /\ ToSet(popups) \subseteq ToSet(history) /\ QuietUnderDnd
  BY DEF Shown, CardsAreCurrent, Once
<1>2. UNCHANGED <<dnd, history, popups, unread_count>>
  BY DEF shared
<1> QED
  BY <1>1, <1>2, ShownFewer DEF QuietUnderDnd

\* What push() leaves on the screen and in the list.  Under dnd a card of the shell
\* may go up that was being pushed when dnd came on, and nothing that is on the
\* screen is replaced in the list alone.
LEMMA PushCards ==
  ASSUME Shown, NEW id \in Id, NEW quiet \in BOOLEAN, NEW timed \in BOOLEAN,
         Push(id, quiet, timed), serial < MaxPushes, UNCHANGED <<dnd, looked>>,
         quiet => id \notin IdsIn(popups),
         dnd => quiet \/ id > LocalBase
  PROVE  /\ history' \in Seq(Note) /\ popups' \in Seq(Note)
         /\ \A n \in ToSet(history') : n \in ToSet(history) \/ (n.id = id /\ n.serial = serial + 1)
         /\ CardsAreCurrent'
<1> DEFINE n == [id |-> id, serial |-> serial + 1]
           h == Without(history, id)
           p == Without(popups, id)
<1>1. /\ history' = <<n>> \o h
      /\ popups' = IF quiet THEN popups ELSE Append(p, n)
      /\ unread_count' = unread_count + 1
  BY DEF Push, Counted, Replaced
<1>2. /\ TypeOK /\ history \in Seq(Note) /\ popups \in Seq(Note) /\ unread_count \in Nat /\ serial \in Nat
  BY NotificationAssumption DEF Shown, TypeOK
<1>3. n \in Note /\ n.id = id /\ n.serial = serial + 1
  BY <1>2, NotificationAssumption DEF Note
<1> HIDE DEF n
<1>4. Once(history) /\ Once(popups) /\ ToSet(popups) \subseteq ToSet(history) /\ QuietUnderDnd
  BY DEF Shown, CardsAreCurrent, Once
<1>5. /\ h \in Seq(Note) /\ ToSet(h) = {m \in ToSet(history) : m.id # id} /\ Once(h)
      /\ p \in Seq(Note) /\ ToSet(p) = {m \in ToSet(popups) : m.id # id} /\ Once(p)
  BY <1>2, <1>4, WithoutIs
<1> HIDE DEF h, p
<1>6. history' \in Seq(Note) /\ ToSet(history') = {n} \cup ToSet(h) /\ Once(history')
  BY <1>1, <1>3, <1>5, FrontIs
<1>7. /\ popups' \in Seq(Note) /\ Once(popups') /\ ToSet(popups') \subseteq ToSet(history')
      /\ \A m \in ToSet(popups') : m \in ToSet(popups) \/ (m = n /\ ~quiet)
  <2>1. CASE quiet
    <3>1. \A m \in ToSet(popups) : m.id # id
      BY <2>1 DEF IdsIn
    <3> QED
      BY <1>1, <1>2, <1>4, <1>5, <1>6, <2>1, <3>1
  <2>2. CASE ~quiet
    <3>1. popups' = Append(p, n)
      BY <1>1, <2>2
    <3>2. popups' \in Seq(Note) /\ ToSet(popups') = ToSet(p) \cup {n} /\ Once(popups')
      BY <1>3, <1>5, <3>1, BackIs
    <3> QED
      BY <1>4, <1>5, <1>6, <2>2, <3>2
  <2> QED
    BY <2>1, <2>2
<1>8. QuietUnderDnd'
  BY <1>3, <1>4, <1>7 DEF QuietUnderDnd, IdsIn
<1>9. NothingUncounted'
  <2>1. News' \in SUBSET (News \cup {n})
    BY <1>5, <1>6 DEF News
  <2>2. IsFiniteSet(News) /\ Cardinality(News) \in Nat /\ Cardinality(News) <= unread_count
    BY <1>2, NewsFinite DEF News, Shown, CardsAreCurrent, NothingUncounted
  <2>3. IsFiniteSet(News \cup {n}) /\ Cardinality(News \cup {n}) <= Cardinality(News) + 1
    BY <2>2, OneMore
  <2>4. /\ IsFiniteSet(News') /\ Cardinality(News') <= Cardinality(News \cup {n})
        /\ Cardinality(News') \in Nat /\ Cardinality(News \cup {n}) \in Nat
    BY <2>1, <2>3, FS_Subset, FS_CardinalityType
  <2>5. Cardinality(News') <= unread_count'
    BY <1>1, <1>2, <2>2, <2>3, <2>4
  <2> QED
    BY <2>5 DEF News, NothingUncounted
<1>10. CardsAreCurrent'
  BY <1>6, <1>7, <1>8, <1>9 DEF CardsAreCurrent, Once
<1> QED
  BY <1>3, <1>5, <1>6, <1>7, <1>10

\* The rest of push(): the counters and the request for a timer.
LEMMA PushRest ==
  ASSUME Shown, NEW id \in Id, NEW quiet \in BOOLEAN, NEW timed \in BOOLEAN,
         Push(id, quiet, timed), serial < MaxPushes
  PROVE  /\ cmds' \in Seq(Request)
         /\ unread_count' = unread_count + 1 /\ serial' = serial + 1 /\ signalled' = TRUE
         /\ awaiting' \subseteq Id /\ serial' \in 0..MaxPushes /\ looked \in 0..serial'
<1>1. serial \in Nat /\ serial + 1 \in 1..MaxPushes /\ looked \in 0..serial /\ awaiting \subseteq Id
  BY NotificationAssumption DEF Shown, TypeOK
<1>2. 0 \notin Id
  BY NotificationAssumption DEF Id
<1>3. Cmd("ExpireAfter", id, serial + 1) \in Request
  BY <1>1, <1>2 DEF Cmd, Request, Op
<1>4. cmds' \in Seq(Request)
  BY <1>3 DEF Push, Shown
<1>5. awaiting' \subseteq Id
  BY <1>1 DEF Push
<1> QED
  BY <1>1, <1>4, <1>5 DEF Push, Counted

\* notify(): an id that is fresh, or that was given to somebody before.
LEMMA NotifyShown ==
  ASSUME Shown, NEW r \in {0} \cup Replaceable, Notify(r)
  PROVE  Shown'
<1> DEFINE id == IF r # 0 THEN r ELSE next_id
<1>1. /\ serial < MaxPushes
      /\ next_id' = IF r # 0 THEN next_id ELSE next_id + 1
      /\ Push(id, dnd, TRUE)
      /\ UNCHANGED <<dnd, daemon, next_local, pushing, looked, asked>>
  BY DEF Notify, FreshId
<1>2. /\ TypeOK /\ serial \in Nat /\ MaxPushes \in Nat /\ LocalBase \in Nat /\ MaxPushes <= LocalBase
      /\ next_id \in Nat \ {0} /\ next_local \in Nat /\ next_local >= LocalBase + 1
      /\ OldIds \subseteq 1..LocalBase /\ dnd \in BOOLEAN /\ unread_count \in Nat
  BY NotificationAssumption DEF Shown, TypeOK
<1>3. (next_id - 1) + (next_local - (LocalBase + 1)) <= serial /\ unread_count <= serial
  BY DEF Shown, Numbers
<1>4. id \in 1..LocalBase
  BY <1>1, <1>2, <1>3 DEF Replaceable
<1>5. id \in Id
  BY <1>2, <1>4 DEF Id
<1>6. dnd => id \notin IdsIn(popups)
  BY <1>2, <1>4 DEF Shown, CardsAreCurrent, QuietUnderDnd
<1>7. /\ history' \in Seq(Note) /\ popups' \in Seq(Note)
      /\ \A n \in ToSet(history') : n \in ToSet(history) \/ (n.id = id /\ n.serial = serial + 1)
      /\ CardsAreCurrent'
  BY <1>1, <1>2, <1>5, <1>6, PushCards
<1>8. /\ cmds' \in Seq(Request)
      /\ unread_count' = unread_count + 1 /\ serial' = serial + 1 /\ signalled' = TRUE
      /\ awaiting' \subseteq Id /\ serial' \in 0..MaxPushes /\ looked \in 0..serial'
  BY <1>1, <1>2, <1>5, PushRest
<1>9. /\ next_id' \in 1..(MaxPushes + 1) /\ unread_count' \in 0..MaxPushes
      /\ (next_id' - 1) + (next_local' - (LocalBase + 1)) <= serial' /\ unread_count' <= serial'
  BY <1>1, <1>2, <1>3, <1>8
<1>10. TypeOK'
  BY <1>1, <1>2, <1>7, <1>8, <1>9, RequestsTyped DEF TypeOK, daemon
<1>11. Numbers'
  <2>1. \A j : Given(j) => Given(j)'
    BY <1>1, <1>2 DEF Given
  <2>2. \A j : j = id => Given(j)'
    BY <1>1, <1>2 DEF Given, Replaceable
  <2>3. \A n \in ToSet(history) : n.serial <= serial /\ Given(n.id) /\ n.serial \in Nat
    <3>1. \A n \in ToSet(history) : n \in Note
      BY <1>2 DEF TypeOK, ToSet
    <3> QED
      BY <3>1 DEF Shown, Numbers, Note
  <2>4. ASSUME NEW n \in ToSet(history') PROVE n.serial <= serial' /\ Given(n.id)'
    BY <1>2, <1>7, <1>8, <2>1, <2>2, <2>3
  <2> QED
    BY <1>9, <2>4 DEF Numbers
<1>12. InHand'
  BY <1>1 DEF Shown, InHand, daemon
<1> QED
  BY <1>7, <1>8, <1>10, <1>11, <1>12 DEF Shown

\* The second half of the application's push(), with the dnd flag read in the first.
LEMMA PushLocalShown ==
  ASSUME Shown, NEW timed \in BOOLEAN, PushLocal(timed)
  PROVE  Shown'
<1> DEFINE quiet == pushing = "quiet"
<1>1. /\ serial < MaxPushes /\ next_local' = next_local + 1 /\ pushing' = "no"
      /\ Push(next_local, quiet, timed)
      /\ UNCHANGED <<dnd, daemon, next_id, looked, asked>>
  BY DEF PushLocal
<1>2. /\ TypeOK /\ serial \in Nat /\ MaxPushes \in Nat /\ LocalBase \in Nat /\ MaxPushes <= LocalBase
      /\ next_id \in Nat \ {0} /\ next_local \in Nat /\ next_local >= LocalBase + 1
      /\ OldIds \subseteq 1..LocalBase /\ dnd \in BOOLEAN /\ unread_count \in Nat
  BY NotificationAssumption DEF Shown, TypeOK
<1>3. (next_id - 1) + (next_local - (LocalBase + 1)) <= serial /\ unread_count <= serial
  BY DEF Shown, Numbers
<1>4. next_local \in Id /\ next_local > LocalBase /\ next_local' \in (LocalBase + 1)..(LocalBase + MaxPushes + 1)
  BY <1>1, <1>2, <1>3 DEF Id
<1>5. ~Given(next_local)
  BY <1>1, <1>2, <1>3 DEF Given
<1>6. next_local \notin IdsIn(popups)
  BY <1>5 DEF Shown, CardsAreCurrent, Numbers, IdsIn
<1>7. /\ history' \in Seq(Note) /\ popups' \in Seq(Note)
      /\ \A n \in ToSet(history') : n \in ToSet(history) \/ (n.id = next_local /\ n.serial = serial + 1)
      /\ CardsAreCurrent'
  BY <1>1, <1>4, <1>6, PushCards
<1>8. /\ cmds' \in Seq(Request)
      /\ unread_count' = unread_count + 1 /\ serial' = serial + 1 /\ signalled' = TRUE
      /\ awaiting' \subseteq Id /\ serial' \in 0..MaxPushes /\ looked \in 0..serial'
  BY <1>1, <1>4, PushRest
<1>9. /\ unread_count' \in 0..MaxPushes
      /\ (next_id' - 1) + (next_local' - (LocalBase + 1)) <= serial' /\ unread_count' <= serial'
  BY <1>1, <1>2, <1>3, <1>8
<1>10. TypeOK'
  BY <1>1, <1>2, <1>4, <1>7, <1>8, <1>9, RequestsTyped DEF TypeOK, daemon
<1>11. Numbers'
  <2>1. \A j : Given(j) => Given(j)'
    BY <1>1, <1>2 DEF Given
  <2>2. \A j : j = next_local => Given(j)'
    BY <1>1, <1>2 DEF Given
  <2>3. \A n \in ToSet(history) : n.serial <= serial /\ Given(n.id) /\ n.serial \in Nat
    <3>1. \A n \in ToSet(history) : n \in Note
      BY <1>2 DEF TypeOK, ToSet
    <3> QED
      BY <3>1 DEF Shown, Numbers, Note
  <2>4. ASSUME NEW n \in ToSet(history') PROVE n.serial <= serial' /\ Given(n.id)'
    BY <1>2, <1>7, <1>8, <2>1, <2>2, <2>3
  <2> QED
    BY <1>9, <2>4 DEF Numbers
<1>12. InHand'
  BY <1>1 DEF Shown, InHand, daemon
<1> QED
  BY <1>7, <1>8, <1>10, <1>11, <1>12 DEF Shown

\* Requests of clients and the user, and of a sleeping task.
LEMMA AskShown ==
  ASSUME Shown, cmds' \in Seq(Request), asked' \in 0..MaxAsked, timers' \subseteq timers,
         UNCHANGED <<shared, service, failures, loop, ids, log, signalled>>
  PROVE  Shown'
<1>1. TypeOK'
  BY RequestsTyped DEF Shown, TypeOK, shared, ids, log
<1>2. InHand'
  BY DEF Shown, InHand
<1> QED
  BY <1>1, <1>2, ShownQuiet DEF ids, log

\* A command for a notification that was given an id.
LEMMA CommandIs ==
  ASSUME NEW op \in Op \ {"ExpireAfter"}, NEW id \in Id
  PROVE  Cmd(op, id, 0) \in Request
<1>1. 0 \notin Id /\ MaxPushes \in Nat
  BY NotificationAssumption DEF Id
<1> QED
  BY <1>1 DEF Cmd, Request

\* Clicks, by one way or both, and what clients ask to be closed.
LEMMA ClickShown ==
  ASSUME Shown, NEW id \in Id,
         Dismiss(id) \/ Invoke(id) \/ CloseNotification(id) \/ \E op \in {"ClearAll", "ToggleDnd"} : Command(op)
  PROVE  Shown'
<1>1. asked' \in 0..MaxAsked
  BY NotificationAssumption DEF Dismiss, Invoke, CloseNotification, Command, Click, Ask, Shown, TypeOK
<1>2. cmds \in Seq(Request)
  BY DEF Shown
<1>3. cmds' \in Seq(Request)
  <2>1. ASSUME Dismiss(id) PROVE cmds' \in Seq(Request)
    <3>1. Cmd("DismissHistory", id, 0) \in Request /\ Cmd("DismissPopup", id, 0) \in Request
      BY CommandIs DEF Op
    <3> QED
      BY <1>2, <2>1, <3>1 DEF Dismiss, Click
  <2>2. ASSUME Invoke(id) PROVE cmds' \in Seq(Request)
    <3>1. Cmd("InvokeAction", id, 0) \in Request
      BY CommandIs DEF Op
    <3> QED
      BY <1>2, <2>2, <3>1 DEF Invoke, Click
  <2>3. ASSUME CloseNotification(id) PROVE cmds' \in Seq(Request)
    <3>1. Cmd("CloseNotification", id, 0) \in Request
      BY CommandIs DEF Op
    <3> QED
      BY <1>2, <2>3, <3>1 DEF CloseNotification
  <2>4. ASSUME NEW op \in {"ClearAll", "ToggleDnd"}, Command(op) PROVE cmds' \in Seq(Request)
    <3>1. Cmd(op, 0, 0) \in Request
      BY NotificationAssumption DEF Cmd, Request, Op
    <3> QED
      BY <1>2, <2>4, <3>1 DEF Command
  <2> QED
    BY <2>1, <2>2, <2>3, <2>4
<1>4. UNCHANGED <<shared, timers, service, failures, loop, ids, log, signalled>>
  BY DEF Dismiss, Invoke, CloseNotification, Command, daemon
<1> QED
  BY <1>1, <1>3, <1>4, AskShown

\* What the loop may have in hand.
Hand == [busy : BOOLEAN, emit : Seq(Signal), drop : SUBSET Id]

\* What the command loop emits are signals.
LEMMA SignalsTyped ==
  ASSUME TypeOK
  PROVE  /\ \A id \in Id : Closed(id) \in Signal /\ Invoked(id) \in Signal
         /\ AllClosed \in Seq(Signal)
         /\ \A id : ClosedIfShown(id) \in Seq(Signal)
         /\ IdsIn(popups) \subseteq Id
<1>1. \A id \in Id : Closed(id) \in Signal /\ Invoked(id) \in Signal
  BY DEF Closed, Invoked, Signal
<1>2. popups \in Seq(Note) /\ \A i \in DOMAIN popups : popups[i] \in Note
  BY DEF TypeOK
<1>3. \A n \in Note : n.id \in Id
  BY DEF Note
<1>4. IdsIn(popups) \subseteq Id
  BY <1>2, <1>3 DEF IdsIn, ToSet
<1>5. AllClosed \in Seq(Signal)
  <2>1. \A i \in 1..Len(popups) : Closed(popups[i].id) \in Signal
    BY <1>1, <1>2, <1>3
  <2>2. DOMAIN popups = 1..Len(popups) /\ Len(popups) \in Nat
    BY <1>2
  <2> QED
    BY <2>1, <2>2 DEF AllClosed
<1>6. \A id : ClosedIfShown(id) \in Seq(Signal)
  BY <1>1, <1>4 DEF ClosedIfShown
<1> QED
  BY <1>1, <1>4, <1>5, <1>6

\* A card is taken off the screen, and perhaps out of the list.
LEMMA DropShown ==
  ASSUME Shown, NEW id, popups' = Without(popups, id), history' \in {history, Without(history, id)},
         cmds' \in Seq(Request), loop' \in Hand, InHand',
         UNCHANGED <<dnd, unread_count, timers, service, failures, ids, log, signalled, asked>>
  PROVE  Shown'
<1>1. history \in Seq(Note) /\ popups \in Seq(Note)
  BY DEF Shown, TypeOK
<1>2. Once(history) /\ Once(popups) /\ ToSet(popups) \subseteq ToSet(history) /\ QuietUnderDnd
  BY DEF Shown, CardsAreCurrent, Once
<1>3. /\ popups' \in Seq(Note) /\ ToSet(popups') = {n \in ToSet(popups) : n.id # id} /\ Once(popups')
  BY <1>1, <1>2, WithoutIs
<1>4. /\ history' \in Seq(Note) /\ Once(history')
      /\ ToSet(history') \in {ToSet(history), {n \in ToSet(history) : n.id # id}}
  BY <1>1, <1>2, WithoutIs
<1>5. TypeOK'
  BY <1>3, <1>4, RequestsTyped DEF Shown, TypeOK, Hand, ids, log
<1>6. ToSet(popups') \subseteq ToSet(history') /\ ToSet(history') \subseteq ToSet(history)
  BY <1>2, <1>3, <1>4
<1>7. dnd' => \A j \in IdsIn(popups') : j > LocalBase
  BY <1>2, <1>3 DEF QuietUnderDnd, IdsIn
<1> QED
  BY <1>3, <1>4, <1>5, <1>6, <1>7, ShownFewer DEF ids, log

\* All cards are taken off the screen.
LEMMA ClearShown ==
  ASSUME Shown, ClearAll \/ ToggleDnd, cmds' \in Seq(Request),
         UNCHANGED <<service, failures, ids, log, signalled, asked>>
  PROVE  Shown'
<1>1. TypeOK /\ history \in Seq(Note) /\ popups \in Seq(Note)
  BY DEF Shown, TypeOK
<1>2. Once(history) /\ Once(popups) /\ ToSet(popups) \subseteq ToSet(history)
  BY DEF Shown, CardsAreCurrent, Once
<1>3. loop' \in Hand /\ InHand'
  <2>1. <<>> \in Seq(Signal) /\ AllClosed \in Seq(Signal)
    BY <1>1, SignalsTyped
  <2>2. loop' = Busy(<<>>, {}) \/ loop' = Busy(AllClosed, {})
    BY DEF ClearAll, ToggleDnd
  <2>3. \A e \in Seq(Signal) : Busy(e, {}) \in Hand /\ Busy(e, {}).busy
    BY DEF Busy, Hand
  <2>4. loop' \in Hand /\ loop'.busy
    BY <2>1, <2>2, <2>3
  <2> QED
    BY <2>4 DEF InHand
<1>4. /\ history' \in {history, <<>>} /\ popups' \in {popups, <<>>} /\ dnd' \in BOOLEAN
      /\ history' = history \/ popups' = <<>>
      /\ dnd' => popups' = <<>> \/ (dnd /\ popups' = popups)
      /\ unread_count' = unread_count \/ (unread_count' = 0 /\ history' = <<>>)
      /\ timers' = timers
  BY <1>1 DEF ClearAll, ToggleDnd, TypeOK
<1>5. ToSet(<<>>) = {} /\ Once(<<>>) /\ <<>> \in Seq(Note) /\ IdsIn(<<>>) = {}
  BY DEF ToSet, Once, IdsIn
<1>6. TypeOK'
  <2>1. unread_count' \in 0..MaxPushes
    BY <1>1, <1>4, NotificationAssumption DEF TypeOK
  <2>2. history' \in Seq(Note) /\ popups' \in Seq(Note)
    BY <1>1, <1>4, <1>5
  <2> QED
    BY <1>1, <1>3, <1>4, <2>1, <2>2, RequestsTyped DEF TypeOK, Hand, ids, log
<1>7. /\ Once(history') /\ Once(popups')
      /\ ToSet(popups') \subseteq ToSet(history') /\ ToSet(history') \subseteq ToSet(history)
  BY <1>2, <1>4, <1>5
<1>8. dnd' => \A id \in IdsIn(popups') : id > LocalBase
  BY <1>4, <1>5 DEF Shown, CardsAreCurrent, QuietUnderDnd
<1> QED
  BY <1>3, <1>4, <1>6, <1>7, <1>8, ShownFewer DEF ids, log

\* A command up to its first await: one step for each kind of command.
LEMMA ReceiveShown ==
  ASSUME Shown, Receive
  PROVE  Shown'
<1> DEFINE cmd == Head(cmds)
<1>1. /\ cmds \in Seq(Request) /\ cmds # <<>> /\ cmds' = Tail(cmds)
      /\ UNCHANGED <<service, failures, ids, log, signalled, asked>>
      /\ TypeOK
  BY DEF Receive, Shown
<1>2. cmd \in Request /\ cmds' \in Seq(Request)
  BY <1>1, HeadAndTail
<1>3. \/ cmd.op = "DismissPopup"   /\ DismissPopup(cmd.id)
      \/ cmd.op = "DismissHistory" /\ DismissHistory(cmd.id)
      \/ cmd.op = "ClearAll"       /\ ClearAll
      \/ cmd.op = "ToggleDnd"      /\ ToggleDnd
      \/ cmd.op = "InvokeAction"   /\ InvokeAction(cmd.id)
      \/ cmd.op = "ExpireAfter"    /\ ExpireAfter(cmd.id, cmd.at)
      \/ cmd.op \in {"ExpirePopup", "CloseNotification"} /\ Expire(cmd.id)
  BY DEF Receive
<1> HIDE DEF cmd
<1>4. /\ cmd.id \in Id \cup {0} /\ cmd.at \in 0..MaxPushes
      /\ cmd.op \notin {"ClearAll", "ToggleDnd"} => cmd.id \in Id
      /\ cmd.op = "ExpireAfter" => cmd.at \in 1..MaxPushes
  BY <1>2, NotificationAssumption DEF Request
<1>5. \A e \in Seq(Signal), d \in SUBSET Id : Busy(e, d) \in Hand /\ Busy(e, d).busy
  BY DEF Busy, Hand
<1>6. <<>> \in Seq(Signal) /\ {} \in SUBSET Id
  OBVIOUS
<1>7. ASSUME loop'.busy PROVE InHand'
  BY <1>7 DEF InHand
<1>8. ASSUME DismissPopup(cmd.id) \/ DismissHistory(cmd.id) PROVE Shown'
  <2>1. loop' = Busy(ClosedIfShown(cmd.id), {}) /\ UNCHANGED <<dnd, unread_count, timers>>
        /\ popups' = Without(popups, cmd.id) /\ history' \in {history, Without(history, cmd.id)}
    BY <1>8 DEF DismissPopup, DismissHistory
  <2>2. ClosedIfShown(cmd.id) \in Seq(Signal)
    BY <1>1, SignalsTyped
  <2>3. loop' \in Hand /\ InHand'
    BY <1>5, <1>6, <1>7, <2>1, <2>2
  <2> QED
    BY <1>1, <1>2, <2>1, <2>3, DropShown
<1>9. ASSUME cmd.id \in Id, Expire(cmd.id) PROVE Shown'
  <2>1. loop' = Busy(<<Closed(cmd.id)>>, {}) /\ UNCHANGED <<dnd, unread_count, timers>>
        /\ popups' = Without(popups, cmd.id) /\ history' = history
    BY <1>9 DEF Expire
  <2>2. Closed(cmd.id) \in Signal
    BY <1>1, <1>9, SignalsTyped
  <2>3. loop' \in Hand /\ InHand'
    <3>1. <<Closed(cmd.id)>> \in Seq(Signal)
      BY <2>2
    <3> QED
      BY <1>5, <1>6, <1>7, <2>1, <3>1
  <2> QED
    BY <1>1, <1>2, <2>1, <2>3, DropShown
<1>10. ASSUME cmd.id \in Id, InvokeAction(cmd.id) \/ (ExpireAfter(cmd.id, cmd.at) /\ cmd.at \in 1..MaxPushes)
       PROVE  Shown'
  <2>1. Invoked(cmd.id) \in Signal
    BY <1>1, <1>10, SignalsTyped
  <2>2. /\ loop' = Busy(<<Invoked(cmd.id)>>, {cmd.id}) \/ loop' = Busy(<<>>, {})
        /\ timers' = timers \/ (cmd.at \in 1..MaxPushes /\ timers' = timers \cup {[id |-> cmd.id, at |-> cmd.at]})
        /\ UNCHANGED shared
    BY <1>10 DEF InvokeAction, ExpireAfter
  <2>3. loop' \in Hand /\ InHand'
    <3>1. <<Invoked(cmd.id)>> \in Seq(Signal) /\ {cmd.id} \in SUBSET Id
      BY <1>10, <2>1
    <3> QED
      BY <1>5, <1>6, <1>7, <2>2, <3>1
  <2>4. timers' \subseteq [id : Id, at : 1..MaxPushes]
    BY <1>1, <1>10, <2>2 DEF TypeOK
  <2>5. TypeOK'
    BY <1>1, <1>2, <2>2, <2>3, <2>4, RequestsTyped DEF TypeOK, Hand, shared, ids, log
  <2> QED
    BY <1>1, <1>2, <2>2, <2>3, <2>5, ShownQuiet DEF ids, log
<1>11. ASSUME ClearAll \/ ToggleDnd PROVE Shown'
  BY <1>1, <1>2, <1>11, ClearShown
<1> QED
  BY <1>3, <1>4, <1>8, <1>9, <1>10, <1>11

\* The loop's awaits touch nothing that is shown.
LEMMA EmitShown ==
  ASSUME Shown, Emit \/ Bump
  PROVE  Shown'
<1>1. /\ loop \in Hand /\ awaiting' \subseteq Id /\ signalled' \in BOOLEAN
      /\ UNCHANGED <<shared, timers, service, failures, ids, serial, looked, cmds, asked>>
  BY DEF Emit, Bump, Shown, TypeOK, Hand, log
<1>2. loop' \in Hand /\ InHand'
  <2>1. CASE Emit
    <3>1. loop.busy /\ loop.emit # <<>> /\ loop.emit \in Seq(Signal)
      BY <1>1, <2>1 DEF Emit, Shown, InHand, Hand
    <3>2. Tail(loop.emit) \in Seq(Signal)
      BY <3>1
    <3>3. loop' = [loop EXCEPT !.emit = Tail(loop.emit)]
      BY <2>1 DEF Emit
    <3>4. loop' \in Hand /\ loop'.busy
      BY <1>1, <3>1, <3>2, <3>3 DEF Hand
    <3> QED
      BY <3>4 DEF InHand
  <2>2. CASE Bump
    <3>1. loop' = AtRecv
      BY <2>2 DEF Bump
    <3> QED
      BY <3>1 DEF AtRecv, Hand, InHand
  <2> QED
    BY <2>1, <2>2
<1>3. TypeOK'
  BY <1>1, <1>2 DEF Shown, TypeOK, Hand, shared, ids
<1> QED
  BY <1>1, <1>2, <1>3, ShownQuiet DEF Shown, ids

\* InvokeAction drops its popup, whatever came in the place of it meanwhile.
LEMMA DropStepShown ==
  ASSUME Shown, NEW id \in Id, Drop(id)
  PROVE  Shown'
<1>1. /\ popups' = Without(popups, id) /\ loop' = Busy(<<Closed(id)>>, {})
      /\ UNCHANGED <<dnd, history, unread_count, timers, service, failures, ids, log, cmds, signalled, asked>>
  BY DEF Drop
<1>2. Closed(id) \in Signal
  BY SignalsTyped DEF Shown
<1>3. loop' \in Hand /\ InHand'
  BY <1>1, <1>2 DEF Busy, Hand, InHand
<1> QED
  BY <1>1, <1>3, DropShown DEF Shown

\* A look at the list leaves nothing uncounted.
LEMMA LookShown ==
  ASSUME Shown, Look
  PROVE  Shown'
<1>1. /\ unread_count' = 0 /\ looked' = serial
      /\ UNCHANGED <<dnd, history, popups, daemon, ids, serial, awaiting, cmds, signalled, asked>>
  BY DEF Look
<1>2. TypeOK'
  BY <1>1, NotificationAssumption DEF Shown, TypeOK, daemon, ids
<1>3. Numbers'
  BY <1>1, <1>2 DEF Shown, Numbers, Given, ids, TypeOK
<1>4. NothingUncounted'
  <2>1. \A n \in ToSet(history) : n.serial <= serial /\ n.serial \in Nat
    <3>1. \A n \in ToSet(history) : n \in Note
      BY DEF Shown, TypeOK, ToSet
    <3> QED
      BY <3>1 DEF Shown, Numbers, Note
  <2>2. serial \in Nat
    BY NotificationAssumption DEF Shown, TypeOK
  <2>3. News' = {}
    BY <1>1, <2>1, <2>2 DEF News
  <2>4. Cardinality(News') = 0
    BY <2>3, FS_EmptySet
  <2> QED
    BY <1>1, <2>4 DEF News, NothingUncounted
<1>5. CardsAreCurrent'
  BY <1>1, <1>4 DEF Shown, CardsAreCurrent, QuietUnderDnd
<1>6. InHand'
  BY <1>1 DEF Shown, InHand, daemon
<1> QED
  BY <1>1, <1>2, <1>3, <1>5, <1>6 DEF Shown

\* Every step keeps the invariant.
LEMMA NextShown ==
  ASSUME Shown, [Next]_vars
  PROVE  Shown'
<1>1. TypeOK /\ history \in Seq(Note) /\ popups \in Seq(Note)
  BY DEF Shown, TypeOK
<1>2. CASE UNCHANGED vars
  <2>1. UNCHANGED <<shared, daemon, ids, log, cmds, signalled, asked>>
    BY <1>2 DEF vars
  <2>2. asked' \in 0..MaxAsked /\ cmds' \in Seq(Request)
    BY <2>1 DEF Shown, TypeOK
  <2> QED
    BY <2>1, <2>2, AskShown DEF daemon
<1>3. CASE Connect \/ ReadDnd \/ Seen
  <2>1. UNCHANGED <<shared, timers, loop, next_id, next_local, log, cmds, asked>>
    BY <1>3 DEF Connect, ReadDnd, Seen, daemon, ids
  <2>2. service' \in {"connecting", "up"} /\ failures' \in 0..MaxFailures
    BY <1>1, <1>3, NotificationAssumption DEF Connect, ReadDnd, Seen, daemon, TypeOK
  <2>3. pushing' \in {"no", "quiet", "loud"} /\ signalled' \in BOOLEAN
    BY <1>1, <1>3 DEF Connect, ReadDnd, Seen, ids, TypeOK
  <2>4. TypeOK'
    BY <1>1, <2>1, <2>2, <2>3 DEF TypeOK, shared, log
  <2>5. InHand'
    BY <2>1 DEF Shown, InHand
  <2> QED
    BY <2>1, <2>4, <2>5, ShownQuiet DEF Shown, log
<1>4. CASE Receive
  BY <1>4, ReceiveShown
<1>5. CASE Emit \/ Bump
  BY <1>5, EmitShown
<1>6. ASSUME NEW id \in Id, Drop(id) PROVE Shown'
  BY <1>6, DropStepShown
<1>7. ASSUME NEW t \in timers, Wake(t) PROVE Shown'
  <2>1. t.id \in Id
    BY <1>1 DEF TypeOK
  <2>2. Cmd("ExpirePopup", t.id, 0) \in Request
    BY <2>1, CommandIs DEF Op
  <2>3. cmds' \in Seq(Request) /\ timers' \subseteq timers /\ asked' \in 0..MaxAsked
    BY <1>1, <1>7, <2>2 DEF Wake, Shown, TypeOK
  <2> QED
    BY <1>7, <2>3, AskShown DEF Wake
<1>8. ASSUME NEW r \in {0} \cup Replaceable, Notify(r) PROVE Shown'
  BY <1>8, NotifyShown
<1>9. ASSUME NEW id \in Replaceable, CloseNotification(id) PROVE Shown'
  <2>1. id \in Id
    BY <1>1, NotificationAssumption DEF Replaceable, Id, TypeOK
  <2> QED
    BY <1>9, <2>1, ClickShown
<1>10. ASSUME NEW timed \in BOOLEAN, PushLocal(timed) PROVE Shown'
  BY <1>10, PushLocalShown
<1>11. ASSUME NEW id \in IdsIn(popups \o history), Dismiss(id) \/ Invoke(id) PROVE Shown'
  <2>1. popups \o history \in Seq(Note)
    BY <1>1
  <2>2. id \in Id
    <3>1. PICK n \in ToSet(popups \o history) : id = n.id
      BY DEF IdsIn
    <3>2. n \in Note
      BY <2>1, <3>1 DEF ToSet
    <3> QED
      BY <3>1, <3>2 DEF Note
  <2> QED
    BY <1>11, <2>2, ClickShown
<1>12. ASSUME NEW op \in {"ClearAll", "ToggleDnd"}, Command(op) PROVE Shown'
  <2>1. asked' \in 0..MaxAsked
    BY <1>1, <1>12, NotificationAssumption DEF Command, Ask, TypeOK
  <2>2. Cmd(op, 0, 0) \in Request
    BY NotificationAssumption DEF Cmd, Request, Op
  <2>3. cmds' \in Seq(Request)
    BY <1>12, <2>2 DEF Command, Shown
  <2> QED
    BY <1>12, <2>1, <2>3, AskShown DEF Command, daemon
<1>13. CASE Look
  BY <1>13, LookShown
<1> QED
  BY <1>2, <1>3, <1>4, <1>5, <1>6, <1>7, <1>8, <1>9, <1>10, <1>11, <1>12, <1>13
     DEF Next, Daemon, Sleepers, Client, Shell

\* It holds in the beginning.
LEMMA InitShown == Init => Shown
<1> SUFFICES ASSUME Init PROVE Shown
  OBVIOUS
<1>1. /\ dnd = FALSE /\ history = <<>> /\ popups = <<>> /\ unread_count = 0 /\ cmds = <<>>
      /\ loop = AtRecv /\ next_id = 1 /\ next_local = LocalBase + 1 /\ serial = 0 /\ looked = 0
  BY DEF Init
<1>2. loop \in Hand /\ InHand
  BY <1>1 DEF AtRecv, Hand, InHand
<1>3. cmds \in Seq(Request) /\ history \in Seq(Note) /\ popups \in Seq(Note)
  BY <1>1
<1>4. TypeOK
  <2>1. cmds \in Seq([op : Op, id : Id \cup {0}, at : 0..MaxPushes])
    BY <1>1
  <2>2. /\ unread_count \in 0..MaxPushes /\ serial \in 0..MaxPushes /\ looked \in 0..serial
        /\ next_id \in 1..(MaxPushes + 1)
        /\ next_local \in (LocalBase + 1)..(LocalBase + MaxPushes + 1)
    BY <1>1, NotificationAssumption
  <2>3. failures \in 0..MaxFailures /\ asked \in 0..MaxAsked
    BY NotificationAssumption DEF Init
  <2>4. loop \in [busy : BOOLEAN, emit : Seq(Signal), drop : SUBSET Id]
    BY <1>2 DEF Hand
  <2>5. /\ dnd \in BOOLEAN /\ signalled \in BOOLEAN /\ awaiting \subseteq Id
        /\ timers \subseteq [id : Id, at : 1..MaxPushes]
        /\ service \in {"connecting", "up"} /\ pushing \in {"no", "quiet", "loud"}
    BY DEF Init
  <2> QED
    BY <1>3, <2>1, <2>2, <2>3, <2>4, <2>5 DEF TypeOK
<1>5. ToSet(history) = {} /\ ToSet(popups) = {} /\ DOMAIN history = {} /\ DOMAIN popups = {}
  BY <1>1 DEF ToSet
<1>6. NothingUncounted
  <2>1. News = {}
    BY <1>5 DEF News
  <2> QED
    BY <1>1, <2>1, FS_EmptySet DEF News, NothingUncounted
<1>7. CardsAreCurrent
  BY <1>1, <1>5, <1>6 DEF CardsAreCurrent, QuietUnderDnd
<1>8. Numbers
  BY <1>1, <1>5, NotificationAssumption DEF Numbers
<1> QED
  BY <1>2, <1>3, <1>4, <1>7, <1>8 DEF Shown

\* The invariant, always.
LEMMA SpecShown == Spec => []Shown
<1>1. Init => Shown
  BY InitShown
<1>2. Shown /\ [Next]_vars => Shown'
  BY NextShown
<1> QED
  BY <1>1, <1>2, PTL DEF Spec

----------------------------------------------------------------------------
(***************************************************************************)
(* Cards and ids                                                           *)
(***************************************************************************)
\* Every variable keeps its type: in particular a command names a notification of
\* the range the daemon and the shell give ids from, and the count of unread ones
\* never goes below zero, whatever is dismissed, cleared and looked at.
THEOREM SpecTypeOK == Spec => []TypeOK
<1>1. Shown => TypeOK
  BY DEF Shown
<1> QED
  BY <1>1, SpecShown, PTL

\* A card on the screen is the newest version of its notification and in the list,
\* once, counted, and not there under dnd, for any interleaving of the daemon's
\* tasks with the two halves of the application's push().
THEOREM SpecCardsAreCurrent == Spec => []CardsAreCurrent
<1>1. Shown => CardsAreCurrent
  BY DEF Shown
<1> QED
  BY <1>1, SpecShown, PTL

\* The next ids are nobody's but those that a client remembers from an earlier run.
THEOREM SpecFreshIdsAreFree == Spec => []FreshIdsAreFree
<1>1. Shown => FreshIdsAreFree
  <2> SUFFICES ASSUME Shown, NEW id \in {next_id, next_local}, id \in IdsIn(history \o popups)
               PROVE  id \in OldIds
    BY DEF FreshIdsAreFree
  <2>1. history \in Seq(Note) /\ popups \in Seq(Note) /\ ToSet(popups) \subseteq ToSet(history)
    BY DEF Shown, TypeOK, CardsAreCurrent
  <2>2. ToSet(history \o popups) \subseteq ToSet(history)
    <3>1. \A i \in DOMAIN (history \o popups) :
            \/ i \in DOMAIN history /\ (history \o popups)[i] = history[i]
            \/ i - Len(history) \in DOMAIN popups /\ (history \o popups)[i] = popups[i - Len(history)]
      BY <2>1
    <3> QED
      BY <2>1, <3>1 DEF ToSet
  <2>3. Given(id)
    BY <2>2 DEF IdsIn, Shown, Numbers
  <2>4. /\ next_id \in Nat \ {0} /\ next_local \in Nat /\ next_local >= LocalBase + 1
        /\ serial \in Nat /\ serial <= MaxPushes /\ MaxPushes <= LocalBase
        /\ LocalBase \in Nat /\ MaxPushes \in Nat
    BY NotificationAssumption DEF Shown, TypeOK
  <2>5. (next_id - 1) + (next_local - (LocalBase + 1)) <= serial
    BY DEF Shown, Numbers
  <2> QED
    BY <2>3, <2>4, <2>5 DEF Given
<1> QED
  BY <1>1, SpecShown, PTL

----------------------------------------------------------------------------
(***************************************************************************)
(* Timeouts                                                                *)
(***************************************************************************)
\* What will close a notification that has a timeout.
Due(id) ==
  \/ \E cmd \in ToSet(cmds) : cmd.id = id /\ cmd.op \in {"ExpireAfter", "ExpirePopup"}
  \/ \E t \in timers : t.id = id
  \/ Closed(id) \in ToSet(loop.emit)

\* Steps that lose no command, no task and no signal.
LEMMA DueStays ==
  ASSUME TimeoutIsPending, awaiting' \subseteq awaiting,
         ToSet(cmds) \subseteq ToSet(cmds'), timers \subseteq timers', UNCHANGED loop
  PROVE  TimeoutIsPending'
<1>1. \A id : Due(id) => Due(id)'
  BY DEF Due
<1> QED
  BY <1>1 DEF TimeoutIsPending, Due

\* push() keeps what is due, and makes the new one due.
LEMMA PushDue ==
  ASSUME Shown, TimeoutIsPending, NEW id, NEW quiet, NEW timed \in BOOLEAN, Push(id, quiet, timed),
         UNCHANGED <<timers, loop>>
  PROVE  TimeoutIsPending'
<1>1. cmds \in Seq(Request)
  BY DEF Shown
<1>2. CASE ~timed
  BY <1>2, DueStays DEF Push
<1>3. CASE timed
  <2> DEFINE c == Cmd("ExpireAfter", id, serial + 1)
  <2>1. cmds' = Append(cmds, c) /\ awaiting' = awaiting \cup {id}
    BY <1>3 DEF Push
  <2>2. c.id = id /\ c.op = "ExpireAfter"
    BY DEF Cmd
  <2> HIDE DEF c
  <2>3. ToSet(cmds') = ToSet(cmds) \cup {c}
    BY <1>1, <2>1, AppendedIs
  <2>4. \A j : j = id \/ Due(j) => Due(j)'
    BY <2>2, <2>3 DEF Due
  <2> QED
    BY <2>1, <2>4 DEF TimeoutIsPending, Due
<1> QED
  BY <1>2, <1>3

\* The loop hands a timeout on: from the request to a task, from the task's
\* command to a signal.
LEMMA ReceiveDue ==
  ASSUME Shown, TimeoutIsPending, Receive
  PROVE  TimeoutIsPending'
<1> DEFINE c == Head(cmds)
<1>1. /\ cmds \in Seq(Request) /\ cmds # <<>> /\ cmds' = Tail(cmds)
      /\ ~loop.busy /\ awaiting' = awaiting
  BY DEF Receive, Shown, log
<1>2. ToSet(cmds) = {c} \cup ToSet(cmds')
  BY <1>1, HeadAndTail
<1>3. ToSet(loop.emit) = {}
  BY <1>1 DEF Shown, InHand, ToSet
<1>4. timers \subseteq timers'
  BY DEF Receive, DismissPopup, DismissHistory, ClearAll, ToggleDnd, InvokeAction, ExpireAfter, Expire
<1>5. c.op = "ExpireAfter" => \E t \in timers' : t.id = c.id
  <2> SUFFICES ASSUME c.op = "ExpireAfter" PROVE \E t \in timers' : t.id = c.id
    OBVIOUS
  <2>1. ExpireAfter(c.id, c.at)
    BY DEF Receive
  <2>2. [id |-> c.id, at |-> c.at] \in timers'
    BY <2>1 DEF ExpireAfter
  <2> QED
    BY <2>2
<1>6. c.op = "ExpirePopup" => Closed(c.id) \in ToSet(loop'.emit)
  <2> SUFFICES ASSUME c.op = "ExpirePopup" PROVE Closed(c.id) \in ToSet(loop'.emit)
    OBVIOUS
  <2>1. loop' = Busy(<<Closed(c.id)>>, {})
    BY DEF Receive, Expire
  <2>2. loop'.emit = <<Closed(c.id)>>
    BY <2>1 DEF Busy
  <2> QED
    BY <2>2 DEF ToSet
<1> HIDE DEF c
<1>7. ASSUME NEW id \in awaiting' PROVE Due(id)'
  <2>1. Due(id)
    BY <1>1 DEF TimeoutIsPending, Due
  <2>2. CASE c.id = id /\ c.op \in {"ExpireAfter", "ExpirePopup"}
    BY <1>5, <1>6, <2>2 DEF Due
  <2>3. CASE ~(c.id = id /\ c.op \in {"ExpireAfter", "ExpirePopup"})
    BY <1>2, <1>3, <1>4, <2>1, <2>3 DEF Due
  <2> QED
    BY <2>2, <2>3
<1> QED
  BY <1>7 DEF TimeoutIsPending, Due

\* An emitted signal ends the wait that it is about, and no other.
LEMMA EmitDue ==
  ASSUME Shown, TimeoutIsPending, Emit
  PROVE  TimeoutIsPending'
<1>1. /\ loop.emit # <<>> /\ loop' = [loop EXCEPT !.emit = Tail(loop.emit)]
      /\ awaiting' = {id \in awaiting : Closed(id) # Head(loop.emit)}
      /\ UNCHANGED <<cmds, timers>>
  BY DEF Emit
<1>2. loop \in Hand
  BY DEF Shown, TypeOK, Hand
<1>3. loop.emit \in Seq(Signal) /\ loop'.emit = Tail(loop.emit)
  BY <1>1, <1>2 DEF Hand
<1>4. ToSet(loop.emit) = {Head(loop.emit)} \cup ToSet(loop'.emit)
  BY <1>1, <1>3, HeadAndTail
<1>5. ASSUME NEW id \in awaiting' PROVE Due(id)'
  <2>1. Due(id) /\ Closed(id) # Head(loop.emit)
    BY <1>1 DEF TimeoutIsPending, Due
  <2> QED
    BY <1>1, <1>4, <2>1 DEF Due
<1> QED
  BY <1>5 DEF TimeoutIsPending, Due

\* No step loses a timeout.
LEMMA NextDue ==
  ASSUME Shown, TimeoutIsPending, [Next]_vars
  PROVE  TimeoutIsPending'
<1>1. cmds \in Seq(Request)
  BY DEF Shown
<1>2. CASE UNCHANGED vars
  BY <1>2, DueStays DEF vars, daemon, log
<1>3. CASE Connect \/ ReadDnd \/ Seen \/ Look
  <2>1. UNCHANGED <<timers, loop, awaiting, cmds>>
    BY <1>3 DEF Connect, ReadDnd, Seen, Look, daemon, log
  <2> QED
    BY <2>1, DueStays
<1>4. CASE Receive
  BY <1>4, ReceiveDue
<1>5. CASE Emit
  BY <1>5, EmitDue
<1>6. ASSUME (\E id \in Id : Drop(id)) \/ Bump PROVE TimeoutIsPending'
  <2>1. UNCHANGED <<timers, awaiting, cmds>>
    BY <1>6 DEF Drop, Bump, log
  <2>2. loop.emit = <<>>
    BY <1>6 DEF Drop, Bump
  <2>3. ToSet(loop.emit) = {}
    BY <2>2 DEF ToSet
  <2>4. \A id : Due(id) => Due(id)'
    BY <2>1, <2>3 DEF Due
  <2> QED
    BY <2>1, <2>4 DEF TimeoutIsPending, Due
<1>7. ASSUME NEW t \in timers, Wake(t) PROVE TimeoutIsPending'
  <2> DEFINE c == Cmd("ExpirePopup", t.id, 0)
  <2>1. timers' = timers \ {t} /\ cmds' = Append(cmds, c) /\ UNCHANGED <<loop, awaiting>>
    BY <1>7 DEF Wake, log
  <2>2. c.id = t.id /\ c.op = "ExpirePopup"
    BY DEF Cmd
  <2> HIDE DEF c
  <2>3. ToSet(cmds') = ToSet(cmds) \cup {c}
    BY <1>1, <2>1, AppendedIs
  <2>4. \A id : Due(id) => Due(id)'
    BY <2>1, <2>2, <2>3 DEF Due
  <2> QED
    BY <2>1, <2>4 DEF TimeoutIsPending, Due
<1>8. ASSUME NEW r \in {0} \cup Replaceable, Notify(r) PROVE TimeoutIsPending'
  BY <1>8, PushDue DEF Notify, daemon
<1>9. ASSUME NEW timed \in BOOLEAN, PushLocal(timed) PROVE TimeoutIsPending'
  BY <1>9, PushDue DEF PushLocal, daemon
<1>10. ASSUME NEW id, CloseNotification(id) \/ Dismiss(id) \/ Invoke(id)
                      \/ \E op \in {"ClearAll", "ToggleDnd"} : Command(op)
       PROVE  TimeoutIsPending'
  <2>1. UNCHANGED <<timers, loop, awaiting>>
    BY <1>10 DEF CloseNotification, Dismiss, Invoke, Command, daemon, log
  <2>2. \E a, b : cmds' = Append(cmds, a) \/ cmds' = cmds \o <<>> \o <<b>> \/ cmds' = cmds \o <<a>> \o <<b>>
    BY <1>10 DEF CloseNotification, Dismiss, Invoke, Command, Click
  <2>3. ToSet(cmds) \subseteq ToSet(cmds')
    <3>1. \A i \in DOMAIN cmds : i \in DOMAIN cmds' /\ cmds'[i] = cmds[i]
      BY <1>1, <2>2
    <3> QED
      BY <3>1 DEF ToSet
  <2> QED
    BY <2>1, <2>3, DueStays
<1> QED
  BY <1>2, <1>3, <1>4, <1>5, <1>6, <1>7, <1>8, <1>9, <1>10
     DEF Next, Daemon, Sleepers, Client, Shell

\* A notification with a timeout is on its way to being closed until its client is
\* told: the timeout is never lost between the request, the task, the command and
\* the signal, whatever dismisses, replaces or hides the notification meanwhile.
THEOREM SpecTimeoutIsPending == Spec => []TimeoutIsPending
<1>1. Init => TimeoutIsPending
  BY DEF Init, TimeoutIsPending
<1>2. Shown /\ TimeoutIsPending /\ [Next]_vars => TimeoutIsPending'
  BY NextDue
<1> QED
  BY <1>1, <1>2, SpecShown, PTL DEF Spec

----------------------------------------------------------------------------
(***************************************************************************)
(* Leaving                                                                 *)
(***************************************************************************)
\* Cards that leave in a step, and what the loop then has to say.
Leaves == \A id \in IdsIn(popups) \ IdsIn(popups') : Closed(id) \in ToSet(loop'.emit)

\* Only the one that is taken out leaves.
LEMMA WithoutLeaves ==
  ASSUME Shown, NEW id, popups' = Without(popups, id),
         id \in IdsIn(popups) => Closed(id) \in ToSet(loop'.emit)
  PROVE  Leaves
<1>1. popups \in Seq(Note)
  BY DEF Shown, TypeOK
<1>2. ToSet(popups') = {n \in ToSet(popups) : n.id # id}
  BY <1>1, WithoutIs
<1>3. \A j \in IdsIn(popups) \ IdsIn(popups') : j = id
  BY <1>2 DEF IdsIn
<1> QED
  BY <1>3 DEF Leaves

\* push() takes nobody off the screen: what it replaces stays, with other contents.
LEMMA PushLeaves ==
  ASSUME Shown, NEW id \in Id, NEW quiet, NEW timed, Push(id, quiet, timed), serial < MaxPushes
  PROVE  Leaves
<1>1. popups \in Seq(Note)
  BY DEF Shown, TypeOK
<1>2. CASE quiet
  BY <1>2 DEF Push, Leaves
<1>3. CASE ~quiet
  <2> DEFINE n == [id |-> id, serial |-> serial + 1]
             p == Without(popups, id)
  <2>1. popups' = Append(p, n)
    BY <1>3 DEF Push, Replaced
  <2>2. p \in Seq(Note) /\ ToSet(p) = {m \in ToSet(popups) : m.id # id}
    BY <1>1, WithoutIs
  <2>3. n.id = id
    OBVIOUS
  <2> HIDE DEF n, p
  <2>4. ToSet(popups') = ToSet(p) \cup {n}
    BY <2>1, <2>2, AppendedIs
  <2>5. IdsIn(popups) \subseteq IdsIn(popups')
    BY <2>2, <2>3, <2>4 DEF IdsIn
  <2> QED
    BY <2>5 DEF Leaves
<1> QED
  BY <1>2, <1>3

\* The loop has the signals in hand that it was given.
LEMMA ClosedIsSaid ==
  ASSUME NEW id
  PROVE  /\ loop' = Busy(<<Closed(id)>>, {}) => Closed(id) \in ToSet(loop'.emit)
         /\ loop' = Busy(ClosedIfShown(id), {}) /\ id \in IdsIn(popups) => Closed(id) \in ToSet(loop'.emit)
         /\ loop' = Busy(AllClosed, {}) /\ id \in IdsIn(popups) => Closed(id) \in ToSet(loop'.emit)
<1>1. \A e : Busy(e, {}).emit = e
  BY DEF Busy
<1>2. Closed(id) \in ToSet(<<Closed(id)>>)
  BY DEF ToSet
<1>3. id \in IdsIn(popups) => Closed(id) \in ToSet(AllClosed)
  BY DEF IdsIn, ToSet, AllClosed
<1> QED
  BY <1>1, <1>2, <1>3 DEF ClosedIfShown

\* No step takes a popup away silently.
LEMMA NextLeaves ==
  ASSUME Shown, [Next]_vars
  PROVE  Leaves
<1>1. CASE popups' = popups
  BY <1>1 DEF Leaves
<1>2. CASE Receive
  <2> DEFINE c == Head(cmds)
  <2>1. ASSUME NEW id, DismissPopup(id) \/ DismissHistory(id) PROVE Leaves
    <3>1. popups' = Without(popups, id) /\ loop' = Busy(ClosedIfShown(id), {})
      BY <2>1 DEF DismissPopup, DismissHistory
    <3> QED
      BY <3>1, WithoutLeaves, ClosedIsSaid
  <2>2. ASSUME NEW id, Expire(id) PROVE Leaves
    <3>1. popups' = Without(popups, id) /\ loop' = Busy(<<Closed(id)>>, {})
      BY <2>2 DEF Expire
    <3> QED
      BY <3>1, WithoutLeaves, ClosedIsSaid
  <2>3. ASSUME ClearAll \/ ToggleDnd PROVE Leaves
    <3>1. popups' = popups \/ loop' = Busy(AllClosed, {})
      BY <2>3 DEF ClearAll, ToggleDnd
    <3> QED
      BY <1>1, <3>1, ClosedIsSaid DEF Leaves
  <2>4. ASSUME NEW id, NEW at, InvokeAction(id) \/ ExpireAfter(id, at) PROVE Leaves
    BY <1>1, <2>4 DEF InvokeAction, ExpireAfter, shared
  <2> QED
    BY <1>2, <2>1, <2>2, <2>3, <2>4 DEF Receive
<1>3. ASSUME NEW id \in Id, Drop(id) PROVE Leaves
  <2>1. popups' = Without(popups, id) /\ loop' = Busy(<<Closed(id)>>, {})
    BY <1>3 DEF Drop
  <2> QED
    BY <2>1, WithoutLeaves, ClosedIsSaid
<1>4. CASE Connect \/ Emit \/ Bump \/ ReadDnd \/ Look \/ Seen \/ UNCHANGED vars
  BY <1>1, <1>4 DEF Connect, Emit, Bump, ReadDnd, Look, Seen, vars, shared
<1>5. ASSUME NEW t, Wake(t) PROVE Leaves
  BY <1>1, <1>5 DEF Wake, shared
<1>6. ASSUME NEW r \in {0} \cup Replaceable, Notify(r) PROVE Leaves
  <2>1. (IF r # 0 THEN r ELSE next_id) \in Id /\ serial < MaxPushes
    BY <1>6, NotificationAssumption DEF Notify, Replaceable, Id, Shown, TypeOK, Numbers
  <2> QED
    BY <1>6, <2>1, PushLeaves DEF Notify
<1>7. ASSUME NEW timed \in BOOLEAN, PushLocal(timed) PROVE Leaves
  <2>1. next_local \in Id /\ serial < MaxPushes
    BY <1>7, NotificationAssumption DEF PushLocal, Id, Shown, TypeOK, Numbers
  <2> QED
    BY <1>7, <2>1, PushLeaves DEF PushLocal
<1>8. ASSUME NEW id, CloseNotification(id) \/ Dismiss(id) \/ Invoke(id)
                     \/ \E op \in {"ClearAll", "ToggleDnd"} : Command(op)
      PROVE  Leaves
  BY <1>1, <1>8 DEF CloseNotification, Dismiss, Invoke, Command, shared
<1> QED
  BY <1>2, <1>3, <1>4, <1>5, <1>6, <1>7, <1>8 DEF Next, Daemon, Sleepers, Client, Shell

\* Every popup that goes is announced to its client, by whatever way it goes: one
\* dismissed, expired, cleared, hidden by dnd, or dropped after an action that was
\* being announced while a replacement arrived.
THEOREM SpecLeavingIsAnnounced == Spec => LeavingIsAnnounced
<1>1. Shown /\ [Next]_vars => [Leaves]_vars
  BY NextLeaves
<1> QED
  BY <1>1, SpecShown, PTL DEF Spec, LeavingIsAnnounced, Leaves
=============================================================================
