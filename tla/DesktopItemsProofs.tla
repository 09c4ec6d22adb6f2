------------------------ MODULE DesktopItemsProofs ------------------------
(***************************************************************************)
(* Theorems about the manager of desktop items, for any number of items,   *)
(* outputs, windows and slots.                                             *)
(*                                                                         *)
(* The inductive invariant is Books: the slots and the free list (Slots),  *)
(* the four window tables, the slots and the surfaces of the shell         *)
(* (Screen), who may name a slot (References), the ids (Indexed) and the   *)
(* types of the rest (Drawn).  Its parts need one another: a window is     *)
(* only known to keep its item because no step refills a slot that a table *)
(* still names, and that is only known because an emptied slot is on the   *)
(* free list once.  Slots also says that no item is in two slots, which    *)
(* none of the properties mention: without it an item destroyed in one     *)
(* slot could live on in another.                                          *)
(*                                                                         *)
(* Screen and Slots are predicates of tables, slots and surfaces that are  *)
(* parameters, so that one lemma for each table operation serves the       *)
(* states in the middle of an operation as well (the tables between        *)
(* destroy_monitor() and launch()).                                        *)
(***************************************************************************)
EXTENDS DesktopItems, SequenceTheorems, WellFoundedInduction, TLAPS

\* The partial functions, which is what the hash maps of the manager are.
Partial(D, S) == UNION {[keys -> S] : keys \in SUBSET D}

LiveIn(at) == {idx \in DOMAIN at : at[idx] # NoItem}

\* What the shell knows of a surface.
Surface == [item : Item, monitor : Output, layer : Layer]

\* What a surface is, when the tables `w` and the slots `at` are right about it.
SurfaceOf(w, at, id) ==
  [item |-> at[w.windows[id]], monitor |-> w.window_monitors[id], layer |-> w.window_layers[id]]

\* The tables `w`, the slots `at` and the surfaces `s` fit together.
Screen(w, s, at) ==
  /\ w \in WindowTables
  /\ DOMAIN w.window_monitors = Tracked(w) /\ DOMAIN w.window_layers = Tracked(w)
  /\ \A idx \in Slot, id \in Window :
       id \in WindowsOf(w, idx) <=> id \in Tracked(w) /\ w.windows[id] = idx
  /\ \A id \in Tracked(w) : w.windows[id] \in LiveIn(at)
  /\ DOMAIN w.reverse_windows \subseteq LiveIn(at)
  /\ s \in Partial(Window, Surface)
  /\ DOMAIN s = Tracked(w)
  /\ \A id \in Tracked(w) : s[id] = SurfaceOf(w, at, id)

\* The slots and the free list: an item is in one slot at most.
Slots(at, unused) ==
  /\ at \in Seq(Item \cup {NoItem}) /\ Len(at) <= MaxSlots
  /\ unused \in Seq(Slot)
  /\ Range(unused) = DOMAIN at \ LiveIn(at)
  /\ \A i, j \in DOMAIN unused : unused[i] = unused[j] => i = j
  /\ \A i, j \in LiveIn(at) : at[i] = at[j] => i = j

\* No table names a slot that is empty.
References(live) ==
  /\ active \subseteq live /\ uninitialized \subseteq live
  /\ subscriptions \subseteq Filter \X live
  /\ loop.todo \subseteq live /\ loop.pending_destroy \subseteq live

\* An id leads to the item that has it.
Indexed(ix, at) ==
  /\ ix \in Partial(Id, Slot)
  /\ \A id \in DOMAIN ix : ix[id] \in LiveIn(at) /\ IdOf[at[ix[id]]] = id

Drawn ==
  /\ monitors \in Seq(Monitor)
  /\ dirty_windows \in [all : BOOLEAN, set : SUBSET Window]
  /\ stale \subseteq Window
  /\ layer_of \in [Item -> Layer]

\* The inductive invariant.
Books ==
  /\ Slots(items, free) /\ Screen(win, surfaces, items)
  /\ References(Live) /\ Indexed(index, items) /\ Drawn

----------------------------------------------------------------------------
(* Partial functions.                                                       *)

\* A partial function: its keys are in D and its values in S.
LEMMA PartialIs ==
  ASSUME NEW D, NEW S, NEW f
  PROVE  f \in Partial(D, S) <=>
           f = [x \in DOMAIN f |-> f[x]] /\ DOMAIN f \subseteq D /\ \A x \in DOMAIN f : f[x] \in S
BY DEF Partial

\* The empty map is one.
LEMMA EmptyPartial ==
  ASSUME NEW D, NEW S PROVE <<>> \in Partial(D, S) /\ DOMAIN <<>> = {}
<1>1. <<>> \in [{} -> S]
  OBVIOUS
<1> QED BY <1>1 DEF Partial

\* The members of a product are pairs.
LEMMA PairIs ==
  ASSUME NEW A, NEW B, NEW p \in A \X B
  PROVE  p[1] \in A /\ p[2] \in B /\ p = <<p[1], p[2]>>
OBVIOUS

\* Keys taken out of a partial function leave one.
LEMMA Restricted ==
  ASSUME NEW D, NEW S, NEW f \in Partial(D, S), NEW A, A \subseteq DOMAIN f
  PROVE  /\ Restrict(f, A) \in Partial(D, S) /\ DOMAIN Restrict(f, A) = A
         /\ \A x \in A : Restrict(f, A)[x] = f[x]
BY DEF Partial, Restrict

\* So does HashMap::insert for several keys.
LEMMA Merged ==
  ASSUME NEW D, NEW S, NEW f \in Partial(D, S), NEW g \in Partial(D, S)
  PROVE  Inserted(f, g) \in Partial(D, S)
<1>1. DOMAIN f \subseteq D /\ DOMAIN g \subseteq D
  BY DEF Partial
<1>2. (\A x \in DOMAIN f : f[x] \in S) /\ (\A x \in DOMAIN g : g[x] \in S)
  BY DEF Partial
<1>3. Inserted(f, g) \in [DOMAIN f \cup DOMAIN g -> S]
  BY <1>2 DEF Inserted
<1> QED BY <1>1, <1>3 DEF Partial

\* launch() opens windows whose ids are free, one for each place.
LEMMA AllocationsAre ==
  ASSUME NEW T, NEW new \in Allocations(T)
  PROVE  /\ new \in Partial(Window \ DOMAIN surfaces, T)
         /\ \A a, b \in DOMAIN new : new[a] = new[b] => a = b
BY DEF Allocations, Bijection, Injection, IsInjective, Partial

\* A non-empty set of slots has a first ...
LEMMA Smallest ==
  ASSUME NEW n \in Nat, NEW S, S \subseteq 1..n, S # {}
  PROVE  \E x \in S : \A y \in S : x <= y
<1>1. S \subseteq Nat
  OBVIOUS
<1>2. \E x \in S : \A y \in S : ~ (<<y, x>> \in OpToRel(<, Nat))
  BY <1>1, NatLessThanWellFounded, WFMin
<1>3. PICK x \in S : \A y \in S : ~ (<<y, x>> \in OpToRel(<, Nat))
  BY <1>2
<1>4. ASSUME NEW y \in S PROVE x <= y
  <2>1. x \in Nat /\ y \in Nat /\ ~ (y < x)
    BY <1>1, <1>3 DEF OpToRel
  <2> QED BY <2>1
<1> QED BY <1>4

\* ... and a last one, so the loop of update() always has a slot to go to.
LEMMA Greatest ==
  ASSUME NEW n \in Nat, NEW S, S \subseteq 1..n, S # {}
  PROVE  \E x \in S : \A y \in S : y <= x
<1> DEFINE T == {n - x : x \in S}
<1>1. T \subseteq Nat /\ T # {}
  <2>1. \A x \in S : x \in 1..n
    OBVIOUS
  <2>2. \A x \in 1..n : n - x \in Nat
    OBVIOUS
  <2>3. \A x \in S : n - x \in Nat
    BY <2>1, <2>2
  <2> HIDE DEF T
  <2>4. \A k \in T : k \in Nat
    BY <2>3 DEF T
  <2>5. T # {}
    BY DEF T
  <2> QED BY <2>4, <2>5
<1>2. \E k \in T : \A l \in T : ~ (<<l, k>> \in OpToRel(<, Nat))
  BY <1>1, NatLessThanWellFounded, WFMin
<1>3. PICK k \in T : \A l \in T : ~ (<<l, k>> \in OpToRel(<, Nat))
  BY <1>2
<1>4. PICK x \in S : k = n - x
  BY <1>3
<1>5. \A y \in S : y <= x
  <2>1. SUFFICES ASSUME NEW y \in S PROVE y <= x
    OBVIOUS
  <2>2. n - y \in T /\ ~ (<<n - y, k>> \in OpToRel(<, Nat))
    BY <1>3
  <2>3. n - y \in Nat /\ k \in Nat
    BY <1>1, <1>3, <2>2
  <2>4. ~ (n - y < k)
    BY <2>2, <2>3 DEF OpToRel
  <2> QED BY <1>4, <2>4
<1> QED BY <1>5
----------------------------------------------------------------------------
(* The table operations.                                                    *)

\* `s2` is `s` with the surfaces of the windows launched.
Shows(s2, s, new, at) ==
  /\ DOMAIN s2 = DOMAIN s \cup DOMAIN new
  /\ \A id \in DOMAIN new :
       s2[id] = [item |-> at[new[id][1]], monitor |-> new[id][2], layer |-> layer_of[at[new[id][1]]]]
  /\ \A id \in DOMAIN s : s2[id] = s[id]

\* `v` is `w` with the windows launched, each at the slot and output it is for.
Gains(v, w, new) ==
  /\ Tracked(v) = Tracked(w) \cup DOMAIN new
  /\ \A id \in DOMAIN new : v.windows[id] = new[id][1] /\ v.window_monitors[id] = new[id][2]
  /\ \A id \in Tracked(w) : v.windows[id] = w.windows[id] /\ v.window_monitors[id] = w.window_monitors[id]

\* launch() keeps the tables, the slots and the surfaces together.
LEMMA LaunchedScreen ==
  ASSUME NEW w, NEW s, NEW at, NEW new, NEW s2,
         Screen(w, s, at), at \in Seq(Item \cup {NoItem}), Len(at) <= MaxSlots, layer_of \in [Item -> Layer],
         new \in Partial(Window \ DOMAIN s, LiveIn(at) \X Output),
         s2 \in Partial(Window, Surface), Shows(s2, s, new, at)
  PROVE  Screen(Launch(w, new, at), s2, at) /\ Gains(Launch(w, new, at), w, new)
<1> DEFINE l == Launch(w, new, at)
           places == [id \in DOMAIN new |-> new[id][1]]
           outputs == [id \in DOMAIN new |-> new[id][2]]
           layers == [id \in DOMAIN new |-> layer_of[at[new[id][1]]]]
           sets == [idx \in {new[id][1] : id \in DOMAIN new} |-> WindowsOf(w, idx) \cup OpenedFor(new, idx)]
<1>1. /\ l.windows = Inserted(w.windows, places) /\ l.window_monitors = Inserted(w.window_monitors, outputs)
      /\ l.window_layers = Inserted(w.window_layers, layers)
      /\ l.reverse_windows = Inserted(w.reverse_windows, sets)
  BY DEF Launch
<1>2. l = [windows |-> l.windows, window_monitors |-> l.window_monitors,
           window_layers |-> l.window_layers, reverse_windows |-> l.reverse_windows]
  BY DEF Launch
<1>3. /\ w.windows \in Partial(Window, Slot) /\ w.window_monitors \in Partial(Window, Output)
      /\ w.window_layers \in Partial(Window, Layer) /\ w.reverse_windows \in Partial(Slot, SUBSET Window)
  BY DEF Screen, WindowTables, Partial
<1>4. LiveIn(at) \subseteq Slot /\ \A idx \in LiveIn(at) : at[idx] \in Item
  BY SlotAssumption DEF LiveIn, Slot
<1>5. /\ DOMAIN new \subseteq Window \ DOMAIN s
      /\ \A id \in DOMAIN new : new[id][1] \in LiveIn(at) /\ new[id][2] \in Output
  <2>1. DOMAIN new \subseteq Window \ DOMAIN s /\ \A id \in DOMAIN new : new[id] \in LiveIn(at) \X Output
    BY DEF Partial
  <2>2. ASSUME NEW id \in DOMAIN new PROVE new[id][1] \in LiveIn(at) /\ new[id][2] \in Output
    <3>1. new[id] \in LiveIn(at) \X Output
      BY <2>1
    <3> QED BY <3>1, PairIs
  <2> QED BY <2>1, <2>2
<1>6. places \in Partial(Window, Slot) /\ outputs \in Partial(Window, Output) /\ layers \in Partial(Window, Layer)
  BY <1>4, <1>5 DEF Partial
<1>7. sets \in Partial(Slot, SUBSET Window)
  <2> DEFINE keys == {new[id][1] : id \in DOMAIN new}
  <2>1. \A idx \in Slot : WindowsOf(w, idx) \subseteq Window
    BY <1>3 DEF Partial, WindowsOf
  <2>2. \A idx \in Slot : OpenedFor(new, idx) \subseteq Window
    BY <1>5 DEF OpenedFor
  <2>3. keys \subseteq Slot
    BY <1>4, <1>5
  <2> HIDE DEF keys
  <2>4. [idx \in keys |-> WindowsOf(w, idx) \cup OpenedFor(new, idx)] \in [keys -> SUBSET Window]
    BY <2>1, <2>2, <2>3
  <2>5. sets \in [keys -> SUBSET Window]
    BY <2>4 DEF sets, keys
  <2> QED BY <2>3, <2>5 DEF Partial
<1> HIDE DEF places, outputs, layers, sets
<1>8. l \in WindowTables
  <2> DEFINE a == Inserted(w.windows, places)
             b == Inserted(w.window_monitors, outputs)
             c == Inserted(w.window_layers, layers)
             d == Inserted(w.reverse_windows, sets)
  <2>1. a \in Partial(Window, Slot) /\ b \in Partial(Window, Output)
    BY <1>3, <1>6, Merged
  <2>2. c \in Partial(Window, Layer) /\ d \in Partial(Slot, SUBSET Window)
    BY <1>3, <1>6, <1>7, Merged
  <2>3. l = [windows |-> a, window_monitors |-> b, window_layers |-> c, reverse_windows |-> d]
    BY DEF Launch, places, outputs, layers, sets
  <2> HIDE DEF a, b, c, d, l
  <2> QED BY <2>1, <2>2, <2>3 DEF WindowTables, Partial
<1> HIDE DEF l
<1>9. /\ Tracked(w) = DOMAIN s /\ Tracked(l) = DOMAIN s \cup DOMAIN new
      /\ \A id \in DOMAIN new : l.windows[id] = new[id][1]
      /\ \A id \in DOMAIN s : l.windows[id] = w.windows[id]
  <2>1. DOMAIN places = DOMAIN new /\ \A id \in DOMAIN new : places[id] = new[id][1]
    BY DEF places
  <2>2. DOMAIN s = DOMAIN w.windows
    BY DEF Screen, Tracked
  <2>3. /\ DOMAIN l.windows = DOMAIN w.windows \cup DOMAIN places
        /\ \A x \in DOMAIN places : l.windows[x] = places[x]
        /\ \A x \in DOMAIN w.windows \ DOMAIN places : l.windows[x] = w.windows[x]
    BY <1>1 DEF Inserted
  <2> QED BY <1>5, <2>1, <2>2, <2>3 DEF Tracked
<1>10. /\ DOMAIN l.window_monitors = DOMAIN s \cup DOMAIN new
       /\ \A id \in DOMAIN new : l.window_monitors[id] = new[id][2]
       /\ \A id \in DOMAIN s : l.window_monitors[id] = w.window_monitors[id]
  <2>1. DOMAIN outputs = DOMAIN new /\ \A id \in DOMAIN new : outputs[id] = new[id][2]
    BY DEF outputs
  <2>2. DOMAIN s = DOMAIN w.window_monitors
    BY DEF Screen
  <2>3. /\ DOMAIN l.window_monitors = DOMAIN w.window_monitors \cup DOMAIN outputs
        /\ \A x \in DOMAIN outputs : l.window_monitors[x] = outputs[x]
        /\ \A x \in DOMAIN w.window_monitors \ DOMAIN outputs : l.window_monitors[x] = w.window_monitors[x]
    BY <1>1 DEF Inserted
  <2> QED BY <1>5, <2>1, <2>2, <2>3
<1>11. /\ DOMAIN l.window_layers = DOMAIN s \cup DOMAIN new
       /\ \A id \in DOMAIN new : l.window_layers[id] = layer_of[at[new[id][1]]]
       /\ \A id \in DOMAIN s : l.window_layers[id] = w.window_layers[id]
  <2>1. DOMAIN layers = DOMAIN new /\ \A id \in DOMAIN new : layers[id] = layer_of[at[new[id][1]]]
    BY DEF layers
  <2>2. DOMAIN s = DOMAIN w.window_layers
    BY DEF Screen
  <2>3. /\ DOMAIN l.window_layers = DOMAIN w.window_layers \cup DOMAIN layers
        /\ \A x \in DOMAIN layers : l.window_layers[x] = layers[x]
        /\ \A x \in DOMAIN w.window_layers \ DOMAIN layers : l.window_layers[x] = w.window_layers[x]
    BY <1>1 DEF Inserted
  <2> QED BY <1>5, <2>1, <2>2, <2>3
<1>12. /\ DOMAIN l.reverse_windows \subseteq LiveIn(at)
       /\ \A idx \in Slot : WindowsOf(l, idx) = WindowsOf(w, idx) \cup OpenedFor(new, idx)
  <2>1. /\ DOMAIN sets = {new[id][1] : id \in DOMAIN new}
        /\ \A idx \in DOMAIN sets : sets[idx] = WindowsOf(w, idx) \cup OpenedFor(new, idx)
    BY DEF sets
  <2>2. DOMAIN w.reverse_windows \subseteq LiveIn(at)
    BY DEF Screen
  <2>3. /\ DOMAIN l.reverse_windows = DOMAIN w.reverse_windows \cup DOMAIN sets
        /\ \A x \in DOMAIN sets : l.reverse_windows[x] = sets[x]
        /\ \A x \in DOMAIN w.reverse_windows \ DOMAIN sets : l.reverse_windows[x] = w.reverse_windows[x]
    BY <1>1 DEF Inserted
  <2>4. \A idx \in Slot : idx \notin DOMAIN sets => OpenedFor(new, idx) = {}
    BY <2>1 DEF OpenedFor
  <2> QED BY <1>5, <2>1, <2>2, <2>3, <2>4 DEF WindowsOf
<1>13. \A idx \in Slot, id \in Window :
         id \in WindowsOf(l, idx) <=> id \in Tracked(l) /\ l.windows[id] = idx
  <2>1. SUFFICES ASSUME NEW idx \in Slot, NEW id \in Window
        PROVE  id \in WindowsOf(l, idx) <=> id \in Tracked(l) /\ l.windows[id] = idx
    OBVIOUS
  <2>2. id \in WindowsOf(w, idx) <=> id \in DOMAIN s /\ w.windows[id] = idx
    BY <1>9 DEF Screen
  <2>3. id \in OpenedFor(new, idx) <=> id \in DOMAIN new /\ new[id][1] = idx
    BY DEF OpenedFor
  <2>4. WindowsOf(l, idx) = WindowsOf(w, idx) \cup OpenedFor(new, idx)
    BY <1>12
  <2> QED BY <1>5, <1>9, <2>2, <2>3, <2>4
<1>14. \A id \in Tracked(l) : l.windows[id] \in LiveIn(at)
  BY <1>5, <1>9 DEF Screen
<1>15. \A id \in Tracked(l) : s2[id] = SurfaceOf(l, at, id)
  <2>1. ASSUME NEW id \in DOMAIN new PROVE s2[id] = SurfaceOf(l, at, id)
    BY <1>9, <1>10, <1>11 DEF SurfaceOf, Shows
  <2>2. ASSUME NEW id \in DOMAIN s PROVE s2[id] = SurfaceOf(l, at, id)
    <3>1. s[id] = SurfaceOf(w, at, id)
      BY <1>9 DEF Screen
    <3> QED BY <1>9, <1>10, <1>11, <3>1 DEF SurfaceOf, Shows
  <2> QED BY <1>9, <2>1, <2>2
<1>16. /\ DOMAIN l.window_monitors = Tracked(l) /\ DOMAIN l.window_layers = Tracked(l)
       /\ DOMAIN s2 = Tracked(l) /\ DOMAIN l.reverse_windows \subseteq LiveIn(at)
  BY <1>9, <1>10, <1>11, <1>12 DEF Shows
<1>17. Screen(l, s2, at)
  BY <1>8, <1>13, <1>14, <1>15, <1>16 DEF Screen
<1>18. Gains(l, w, new)
  BY <1>9, <1>10 DEF Gains
<1> QED BY <1>17, <1>18 DEF l

\* The sets hold the windows of each slot, without those in `gone`.
Lack(w, gone, sets) ==
  \A idx \in Slot, id \in Window :
    idx \in DOMAIN sets /\ id \in sets[idx] <=> id \in WindowsOf(w, idx) /\ id \notin gone

\* The tables `v` have all windows of `w` but those in `gone`, where they were.
Keeps(v, w, gone) ==
  /\ Tracked(v) = Tracked(w) \ gone
  /\ \A id \in Tracked(v) : v.windows[id] = w.windows[id] /\ v.window_monitors[id] = w.window_monitors[id]

\* No table mentions the slot idx, or one of the outputs.
Vacated(v, idx) == (\A id \in Tracked(v) : v.windows[id] # idx) /\ idx \notin DOMAIN v.reverse_windows
Unplugged(v, outputs) == \A id \in Tracked(v) : v.window_monitors[id] \notin outputs

\* Tables that lost some windows, and what is left of the surfaces.
LEMMA FewerWindows ==
  ASSUME NEW w, NEW s, NEW at, NEW gone, NEW sets, NEW v,
         Screen(w, s, at), gone \subseteq Window,
         sets \in Partial(Slot, SUBSET Window), DOMAIN sets \subseteq LiveIn(at),
         Lack(w, gone, sets), v = Forget(w, gone, sets)
  PROVE  Screen(v, Restrict(s, DOMAIN s \ gone), at) /\ Keeps(v, w, gone)
<1> DEFINE r == Restrict(s, DOMAIN s \ gone)
           a == Restrict(w.windows, DOMAIN w.windows \ gone)
           b == Restrict(w.window_monitors, DOMAIN w.window_monitors \ gone)
           c == Restrict(w.window_layers, DOMAIN w.window_layers \ gone)
<1>1. /\ w.windows \in Partial(Window, Slot) /\ w.window_monitors \in Partial(Window, Output)
      /\ w.window_layers \in Partial(Window, Layer)
  BY DEF Screen, WindowTables, Partial
<1>2. /\ a \in Partial(Window, Slot) /\ b \in Partial(Window, Output) /\ c \in Partial(Window, Layer)
  BY <1>1, Restricted
<1>3. v = [windows |-> a, window_monitors |-> b, window_layers |-> c, reverse_windows |-> sets]
  BY DEF Forget
<1>4. s \in Partial(Window, Surface) /\ DOMAIN s = DOMAIN w.windows
  BY DEF Screen, Tracked
<1>5. r \in Partial(Window, Surface)
  BY <1>4, Restricted
<1>6. /\ DOMAIN r = DOMAIN s \ gone /\ DOMAIN a = DOMAIN s \ gone
      /\ \A id \in DOMAIN s \ gone : r[id] = s[id] /\ a[id] = w.windows[id]
  BY <1>4 DEF Restrict
<1>7. /\ DOMAIN b = DOMAIN s \ gone /\ DOMAIN c = DOMAIN s \ gone
      /\ \A id \in DOMAIN s \ gone : b[id] = w.window_monitors[id] /\ c[id] = w.window_layers[id]
  BY <1>4 DEF Restrict, Screen, Tracked
<1> HIDE DEF r, a, b, c
<1>8. v \in WindowTables
  BY <1>2, <1>3 DEF WindowTables, Partial
<1>9. Tracked(v) = DOMAIN s \ gone /\ v.windows = a /\ v.window_monitors = b /\ v.window_layers = c /\ v.reverse_windows = sets
  BY <1>3, <1>6 DEF Tracked
<1>10. \A idx \in Slot, id \in Window : id \in WindowsOf(v, idx) <=> id \in Tracked(v) /\ v.windows[id] = idx
  <2>1. SUFFICES ASSUME NEW idx \in Slot, NEW id \in Window
        PROVE  id \in WindowsOf(v, idx) <=> id \in Tracked(v) /\ v.windows[id] = idx
    OBVIOUS
  <2>2. id \in WindowsOf(w, idx) <=> id \in DOMAIN s /\ w.windows[id] = idx
    BY <1>4 DEF Screen, Tracked
  <2>3. id \in WindowsOf(v, idx) <=> idx \in DOMAIN sets /\ id \in sets[idx]
    BY <1>9 DEF WindowsOf
  <2> QED BY <1>6, <1>9, <2>2, <2>3 DEF Lack
<1>11. \A id \in Tracked(v) : v.windows[id] \in LiveIn(at) /\ r[id] = SurfaceOf(v, at, id)
  <2>1. SUFFICES ASSUME NEW id \in DOMAIN s \ gone
        PROVE  v.windows[id] \in LiveIn(at) /\ r[id] = SurfaceOf(v, at, id)
    BY <1>9
  <2>2. w.windows[id] \in LiveIn(at) /\ s[id] = SurfaceOf(w, at, id)
    BY <1>4 DEF Screen, Tracked
  <2> QED BY <1>6, <1>7, <1>9, <2>2 DEF SurfaceOf
<1>12. Screen(v, r, at)
  BY <1>5, <1>6, <1>7, <1>8, <1>9, <1>10, <1>11 DEF Screen
<1> QED BY <1>4, <1>6, <1>7, <1>9, <1>12 DEF r, Tracked, Keeps

\* close_item_windows() keeps them together, and leaves nothing of the slot.
LEMMA ClosedScreen ==
  ASSUME NEW w, NEW s, NEW at, Screen(w, s, at), NEW idx \in Slot, NEW v, v = CloseItem(w, idx)
  PROVE  /\ Screen(v, Restrict(s, DOMAIN s \ WindowsOf(w, idx)), at)
         /\ Keeps(v, w, WindowsOf(w, idx)) /\ Vacated(v, idx)
<1> DEFINE gone == WindowsOf(w, idx)
           sets == Restrict(w.reverse_windows, DOMAIN w.reverse_windows \ {idx})
<1>1. w.reverse_windows \in Partial(Slot, SUBSET Window) /\ DOMAIN w.reverse_windows \subseteq LiveIn(at)
  BY DEF Screen, WindowTables, Partial
<1>2. sets \in Partial(Slot, SUBSET Window)
  BY <1>1, Restricted
<1>3. DOMAIN sets = DOMAIN w.reverse_windows \ {idx} /\ \A i \in DOMAIN sets : sets[i] = w.reverse_windows[i]
  BY DEF Restrict
<1>4. gone \subseteq Window
  BY <1>1 DEF WindowsOf, Partial
<1>5. v = Forget(w, gone, sets)
  BY DEF CloseItem
<1>6. \A i \in Slot, id \in Window : id \in gone <=> id \in Tracked(w) /\ w.windows[id] = idx
  BY DEF Screen
<1> HIDE DEF sets, gone
<1>7. Lack(w, gone, sets)
  <2>1. SUFFICES ASSUME NEW i \in Slot, NEW id \in Window
        PROVE  i \in DOMAIN sets /\ id \in sets[i] <=> id \in WindowsOf(w, i) /\ id \notin gone
    BY DEF Lack
  <2>2. i \in DOMAIN sets /\ id \in sets[i] <=> i # idx /\ id \in WindowsOf(w, i)
    BY <1>3 DEF WindowsOf
  <2>3. id \in WindowsOf(w, i) => id \in Tracked(w) /\ w.windows[id] = i
    BY DEF Screen
  <2> QED BY <1>6, <2>2, <2>3 DEF gone
<1>8. Screen(v, Restrict(s, DOMAIN s \ gone), at) /\ Keeps(v, w, gone)
  <2>1. DOMAIN sets \subseteq LiveIn(at)
    BY <1>1, <1>3
  <2>2. Screen(w, s, at)
    OBVIOUS
  <2> QED BY ONLY <1>2, <1>4, <1>5, <1>7, <2>1, <2>2, FewerWindows, Zenon
<1>9. Tracked(w) \subseteq Window
  BY DEF Screen, WindowTables, Tracked
<1>10. v.reverse_windows = sets
  BY <1>5 DEF Forget
<1> QED BY <1>3, <1>6, <1>8, <1>9, <1>10 DEF gone, Keeps, Vacated

\* destroy_monitor() keeps them together, and leaves nothing on the outputs.
LEMMA DestroyedScreen ==
  ASSUME NEW w, NEW s, NEW at, Screen(w, s, at), NEW outputs, NEW v, v = DestroyMonitors(w, outputs)
  PROVE  /\ Screen(v, Restrict(s, DOMAIN s \ OnOutputs(w, outputs)), at)
         /\ Keeps(v, w, OnOutputs(w, outputs)) /\ Unplugged(v, outputs)
<1> DEFINE gone == OnOutputs(w, outputs)
           sets == [i \in DOMAIN w.reverse_windows |-> w.reverse_windows[i] \ gone]
<1>1. w.reverse_windows \in Partial(Slot, SUBSET Window) /\ DOMAIN w.reverse_windows \subseteq LiveIn(at)
  BY DEF Screen, WindowTables, Partial
<1>2. sets \in [DOMAIN w.reverse_windows -> SUBSET Window] /\ DOMAIN w.reverse_windows \subseteq Slot
  BY <1>1 DEF Partial
<1>3. sets \in Partial(Slot, SUBSET Window)
  BY <1>2 DEF Partial
<1>4. Tracked(w) \subseteq Window /\ DOMAIN w.window_monitors = Tracked(w)
  BY DEF Screen, WindowTables, Tracked
<1>5. gone \subseteq Window
  BY <1>4 DEF OnOutputs
<1>6. v = Forget(w, gone, sets)
  BY DEF DestroyMonitors
<1>7. Lack(w, gone, sets)
  BY DEF WindowsOf, Lack
<1>8. DOMAIN sets \subseteq LiveIn(at)
  BY <1>1
<1> HIDE DEF sets, gone
<1>9. Screen(v, Restrict(s, DOMAIN s \ gone), at) /\ Keeps(v, w, gone)
  <2>1. Screen(w, s, at)
    OBVIOUS
  <2> QED BY ONLY <1>3, <1>5, <1>6, <1>7, <1>8, <2>1, FewerWindows, Zenon
<1> QED BY <1>4, <1>9 DEF gone, OnOutputs, Keeps, Unplugged

\* Slots without windows may be emptied or taken without the screen noticing.
LEMMA OtherSlots ==
  ASSUME NEW w, NEW s, NEW at, Screen(w, s, at), NEW next,
         \A idx \in LiveIn(at) :
           idx \in DOMAIN w.reverse_windows \/ (\E id \in Tracked(w) : w.windows[id] = idx)
           => idx \in LiveIn(next) /\ next[idx] = at[idx]
  PROVE  Screen(w, s, next)
<1>1. \A id \in Tracked(w) : w.windows[id] \in LiveIn(at)
  BY DEF Screen
<1>2. \A id \in Tracked(w) : w.windows[id] \in LiveIn(next) /\ next[w.windows[id]] = at[w.windows[id]]
  <2>1. SUFFICES ASSUME NEW id \in Tracked(w)
        PROVE  w.windows[id] \in LiveIn(next) /\ next[w.windows[id]] = at[w.windows[id]]
    OBVIOUS
  <2> DEFINE idx == w.windows[id]
  <2>2. idx \in LiveIn(at) /\ \E other \in Tracked(w) : w.windows[other] = idx
    BY <1>1
  <2> HIDE DEF idx
  <2>3. idx \in LiveIn(next) /\ next[idx] = at[idx]
    BY <2>2
  <2> QED BY <2>3 DEF idx
<1>3. \A id \in Tracked(w) : s[id] = SurfaceOf(w, next, id)
  BY <1>2 DEF Screen, SurfaceOf
<1>4. DOMAIN w.reverse_windows \subseteq LiveIn(next)
  BY DEF Screen
<1> QED BY <1>2, <1>3, <1>4 DEF Screen

\* What launched anew has moved to another layer is told so.
LEMMA SyncedScreen ==
  ASSUME Screen(win, surfaces, items), NEW idx \in Slot, items[idx] \in Item, layer_of \in [Item -> Layer],
         NEW v, v = SyncLayers(win, idx)
  PROVE  /\ Screen(v, Relayered(idx), items)
         /\ v.windows = win.windows /\ v.window_monitors = win.window_monitors
         /\ v.reverse_windows = win.reverse_windows /\ DOMAIN Relayered(idx) = DOMAIN surfaces
<1> DEFINE layers == [id \in DOMAIN win.window_layers |->
                        IF id \in WindowsOf(win, idx) /\ items[idx] # NoItem
                        THEN layer_of[items[idx]] ELSE win.window_layers[id]]
<1>1. /\ v = [windows |-> win.windows, window_monitors |-> win.window_monitors,
               window_layers |-> layers, reverse_windows |-> win.reverse_windows]
  BY DEF SyncLayers, Screen, WindowTables
<1>2. layers \in Partial(Window, Layer) /\ DOMAIN layers = DOMAIN win.window_layers
  <2>1. win.window_layers \in Partial(Window, Layer)
    BY DEF Screen, WindowTables, Partial
  <2>2. layers \in [DOMAIN win.window_layers -> Layer] /\ DOMAIN win.window_layers \subseteq Window
    BY <2>1 DEF Partial
  <2> QED BY <2>2 DEF Partial
<1>3. /\ DOMAIN win.window_layers = Tracked(win) /\ Tracked(win) = DOMAIN surfaces
      /\ Tracked(win) \subseteq Window
  BY DEF Screen, WindowTables, Tracked
<1> HIDE DEF layers
<1>4. v \in WindowTables
  <2>1. /\ win.windows \in Partial(Window, Slot) /\ win.window_monitors \in Partial(Window, Output)
        /\ win.reverse_windows \in Partial(Slot, SUBSET Window)
    BY DEF Screen, WindowTables, Partial
  <2> QED BY <1>1, <1>2, <2>1 DEF WindowTables, Partial
<1>5. /\ v.windows = win.windows /\ v.window_monitors = win.window_monitors /\ v.window_layers = layers
      /\ v.reverse_windows = win.reverse_windows /\ Tracked(v) = Tracked(win)
  BY <1>1 DEF Tracked
<1>6. \A i \in Slot : WindowsOf(v, i) = WindowsOf(win, i)
  BY <1>5 DEF WindowsOf
<1> DEFINE r == Relayered(idx)
<1>7. DOMAIN r = DOMAIN surfaces
  BY DEF Relayered
<1>8. ASSUME NEW id \in Tracked(win) PROVE r[id] = SurfaceOf(v, items, id)
  <2>1. /\ surfaces[id] = SurfaceOf(win, items, id) /\ items[win.windows[id]] \in Item
        /\ surfaces[id] \in Surface
    BY <1>3 DEF Screen, Partial, SurfaceOf, Surface
  <2>2. CASE id \in WindowsOf(win, idx) /\ win.window_layers[id] # layer_of[items[idx]]
    <3>1. r[id] = [surfaces[id] EXCEPT !.layer = layer_of[items[idx]]]
      BY <1>3, <2>2, ItemAssumption DEF Relayered
    <3>2. layers[id] = layer_of[items[idx]]
      BY <1>3, <2>2, ItemAssumption DEF layers
    <3> QED BY <1>5, <2>1, <3>1, <3>2 DEF SurfaceOf
  <2>3. CASE ~ (id \in WindowsOf(win, idx) /\ win.window_layers[id] # layer_of[items[idx]])
    <3>1. r[id] = surfaces[id]
      BY <1>3, <2>3 DEF Relayered
    <3>2. layers[id] = win.window_layers[id]
      BY <1>3, <2>3 DEF layers
    <3> QED BY <1>5, <2>1, <3>1, <3>2 DEF SurfaceOf
  <2> QED BY <2>2, <2>3
<1> HIDE DEF r
<1>9. r \in Partial(Window, Surface)
  <2>1. r = [id \in DOMAIN r |-> r[id]]
    BY DEF r, Relayered
  <2>2. ASSUME NEW id \in Tracked(win) PROVE r[id] \in Surface
    <3>1. surfaces[id] = SurfaceOf(win, items, id) /\ surfaces[id] \in Surface
      BY <1>3 DEF Screen, Partial
    <3>2. items[win.windows[id]] \in Item /\ win.window_monitors[id] \in Output
      BY <3>1 DEF SurfaceOf, Surface
    <3>3. layers[id] \in Layer
      BY <1>2, <1>3 DEF Partial
    <3>4. r[id] = [item |-> items[win.windows[id]], monitor |-> win.window_monitors[id], layer |-> layers[id]]
      BY <1>5, <1>8 DEF SurfaceOf
    <3> QED BY <3>2, <3>3, <3>4 DEF Surface
  <2>3. r \in [Tracked(win) -> Surface]
    BY <1>3, <1>7, <2>1, <2>2
  <2> QED BY <1>3, <2>3 DEF Partial
<1>10. Screen(v, r, items)
  BY <1>2, <1>3, <1>4, <1>5, <1>6, <1>7, <1>8, <1>9 DEF Screen
<1> QED BY <1>5, <1>7, <1>10 DEF r

----------------------------------------------------------------------------
(* The slots.                                                               *)

\* The items are in a slot of their own each.
LEMMA SlotsAre ==
  ASSUME NEW at, NEW unused, Slots(at, unused)
  PROVE  /\ DOMAIN at = 1..Len(at) /\ Len(at) \in Nat /\ Len(at) <= MaxSlots
         /\ LiveIn(at) \subseteq Slot /\ \A i \in LiveIn(at) : at[i] \in Item
         /\ DOMAIN unused = 1..Len(unused) /\ Len(unused) \in Nat
BY SlotAssumption DEF Slots, LiveIn, Slot

\* The slots `next` are `at` with an item in a slot that was empty.
Taken(at, idx, it, next) ==
  /\ idx \in Slot \ LiveIn(at) /\ next[idx] = it
  /\ LiveIn(next) = LiveIn(at) \cup {idx} /\ \A i \in LiveIn(at) : next[i] = at[i]

\* register() takes the last slot of the free list ...
LEMMA ReusedSlots ==
  ASSUME NEW at, NEW unused, Slots(at, unused), NEW it \in Item, it \notin Range(at), unused # <<>>,
         NEW idx, idx = unused[Len(unused)], NEW next, next = [at EXCEPT ![idx] = it],
         NEW rest, rest = SubSeq(unused, 1, Len(unused) - 1)
  PROVE  Slots(next, rest) /\ Taken(at, idx, it, next)
<1>1. /\ DOMAIN at = 1..Len(at) /\ Len(at) \in Nat /\ Len(at) <= MaxSlots
      /\ DOMAIN unused = 1..Len(unused) /\ Len(unused) \in Nat \ {0}
  BY SlotsAre, EmptySeq DEF Slots
<1>2. idx \in Range(unused)
  BY <1>1 DEF Range
<1>3. idx \in DOMAIN at \ LiveIn(at)
  BY <1>2 DEF Slots
<1>4. idx \in Slot
  BY <1>1, <1>3, SlotAssumption DEF Slot
<1>5. next \in Seq(Item \cup {NoItem}) /\ Len(next) = Len(at) /\ DOMAIN next = DOMAIN at
  BY <1>1, <1>3 DEF Slots
<1>6. next[idx] = it /\ \A i \in DOMAIN at \ {idx} : next[i] = at[i]
  BY <1>1, <1>3 DEF Slots
<1>7. LiveIn(next) = LiveIn(at) \cup {idx} /\ \A i \in LiveIn(at) : next[i] = at[i]
  BY <1>3, <1>5, <1>6, ItemAssumption DEF LiveIn
<1>8. rest \in Seq(Slot) /\ DOMAIN rest = 1..(Len(unused) - 1) /\ \A i \in DOMAIN rest : rest[i] = unused[i]
  BY <1>1 DEF Slots
<1>9. \A i, j \in DOMAIN rest : rest[i] = rest[j] => i = j
  BY <1>1, <1>8 DEF Slots
<1>10. Range(rest) = Range(unused) \ {idx}
  <2>1. \A i \in DOMAIN unused : i \in DOMAIN rest \/ i = Len(unused)
    BY <1>1, <1>8
  <2>2. \A i \in DOMAIN rest : i \in DOMAIN unused /\ i # Len(unused)
    BY <1>1, <1>8
  <2>3. Len(unused) \in DOMAIN unused
    BY <1>1
  <2>4. \A i \in DOMAIN rest : rest[i] # idx
    BY <1>8, <2>2, <2>3 DEF Slots
  <2>5. ASSUME NEW x \in Range(unused) \ {idx} PROVE x \in Range(rest)
    <3>1. PICK i \in DOMAIN unused : x = unused[i]
      BY DEF Range
    <3>2. i \in DOMAIN rest
      BY <2>1, <2>5, <3>1
    <3> QED BY <1>8, <3>1, <3>2 DEF Range
  <2>6. ASSUME NEW x \in Range(rest) PROVE x \in Range(unused) \ {idx}
    <3>1. PICK i \in DOMAIN rest : x = rest[i]
      BY DEF Range
    <3> QED BY <1>8, <2>2, <2>4, <3>1 DEF Range
  <2> QED BY <2>5, <2>6
<1>11. Range(rest) = DOMAIN next \ LiveIn(next)
  BY <1>5, <1>7, <1>10 DEF Slots
<1>12. \A i, j \in LiveIn(next) : next[i] = next[j] => i = j
  <2>1. \A i \in LiveIn(at) : at[i] # it
    BY DEF Range, LiveIn
  <2> QED BY <1>6, <1>7, <2>1 DEF Slots
<1> QED BY <1>1, <1>3, <1>4, <1>5, <1>6, <1>7, <1>8, <1>9, <1>11, <1>12 DEF Slots, Taken

\* ... or a new one.
LEMMA PushedSlots ==
  ASSUME NEW at, Slots(at, <<>>), NEW it \in Item, it \notin Range(at), Len(at) < MaxSlots,
         NEW idx, idx = Len(at) + 1, NEW next, next = Append(at, it)
  PROVE  Slots(next, <<>>) /\ Taken(at, idx, it, next)
<1>1. DOMAIN at = 1..Len(at) /\ Len(at) \in Nat /\ at \in Seq(Item \cup {NoItem})
  BY SlotsAre DEF Slots
<1>2. idx \in Slot /\ idx \notin DOMAIN at
  BY <1>1, SlotAssumption DEF Slot
<1>3. /\ next \in Seq(Item \cup {NoItem}) /\ Len(next) = idx /\ DOMAIN next = 1..idx
      /\ next[idx] = it /\ \A i \in 1..Len(at) : next[i] = at[i]
  BY <1>1, AppendProperties
<1>4. DOMAIN next = DOMAIN at \cup {idx}
  BY <1>1, <1>3
<1>5. LiveIn(next) = LiveIn(at) \cup {idx} /\ \A i \in LiveIn(at) : next[i] = at[i]
  BY <1>1, <1>2, <1>3, <1>4, ItemAssumption DEF LiveIn
<1>6. \A i, j \in LiveIn(next) : next[i] = next[j] => i = j
  <2>1. \A i \in LiveIn(at) : at[i] # it
    BY DEF Range, LiveIn
  <2>2. \A i, j \in LiveIn(at) : at[i] = at[j] => i = j
    BY DEF Slots
  <2>3. next[idx] = it
    BY <1>3
  <2> QED BY ONLY <1>5, <2>1, <2>2, <2>3
<1>7. Range(<<>>) = DOMAIN next \ LiveIn(next)
  BY <1>4, <1>5 DEF Slots
<1>8. Len(next) <= MaxSlots
  BY <1>1, <1>3, SlotAssumption
<1> QED BY <1>2, <1>3, <1>5, <1>6, <1>7, <1>8 DEF Slots, LiveIn, Taken

\* The slots `next` are `at` with one of them emptied.
Emptied(at, idx, next) ==
  /\ LiveIn(next) = LiveIn(at) \ {idx}
  /\ next[idx] = NoItem /\ \A i \in DOMAIN at \ {idx} : next[i] = at[i]

\* destroy_idx() empties a slot and puts it on the free list.
LEMMA EmptiedSlots ==
  ASSUME NEW at, NEW unused, Slots(at, unused), NEW idx \in LiveIn(at),
         NEW next, next = [at EXCEPT ![idx] = NoItem], NEW more, more = Append(unused, idx)
  PROVE  Slots(next, more) /\ Emptied(at, idx, next)
<1>1. /\ DOMAIN at = 1..Len(at) /\ Len(at) \in Nat /\ Len(at) <= MaxSlots
      /\ DOMAIN unused = 1..Len(unused) /\ Len(unused) \in Nat
      /\ idx \in Slot /\ idx \in DOMAIN at
  BY SlotsAre DEF LiveIn
<1>2. next \in Seq(Item \cup {NoItem}) /\ Len(next) = Len(at) /\ DOMAIN next = DOMAIN at
  BY <1>1 DEF Slots
<1>3. next[idx] = NoItem /\ \A i \in DOMAIN at \ {idx} : next[i] = at[i]
  BY <1>1 DEF Slots
<1>4. LiveIn(next) = LiveIn(at) \ {idx}
  BY <1>1, <1>2, <1>3 DEF LiveIn
<1>5. /\ more \in Seq(Slot) /\ DOMAIN more = 1..(Len(unused) + 1)
      /\ more[Len(unused) + 1] = idx /\ \A i \in 1..Len(unused) : more[i] = unused[i]
  BY <1>1, AppendProperties DEF Slots
<1>6. DOMAIN more = DOMAIN unused \cup {Len(unused) + 1} /\ Len(unused) + 1 \notin DOMAIN unused
  BY <1>1, <1>5
<1>7. Range(more) = Range(unused) \cup {idx}
  BY <1>1, <1>5, <1>6 DEF Range
<1>8. Range(more) = DOMAIN next \ LiveIn(next)
  BY <1>1, <1>2, <1>4, <1>7 DEF Slots
<1>9. \A i \in DOMAIN unused : unused[i] # idx
  BY <1>1 DEF Slots, Range
<1>10. \A i, j \in DOMAIN more : more[i] = more[j] => i = j
  BY <1>1, <1>5, <1>6, <1>9 DEF Slots
<1>11. \A i, j \in LiveIn(next) : next[i] = next[j] => i = j
  BY <1>3, <1>4 DEF Slots, LiveIn
<1> QED BY <1>1, <1>2, <1>3, <1>4, <1>5, <1>8, <1>10, <1>11 DEF Slots, Emptied

----------------------------------------------------------------------------
(* The operations on the state.                                             *)

\* The slots with an item.
LEMMA LiveIs == Live = LiveIn(items)
BY DEF Live, LiveIn

\* The windows opened are windows the shell does not have.
LEMMA AllocationsFit ==
  ASSUME NEW places, NEW new \in Allocations(places)
  PROVE  DOMAIN new \in SUBSET Window /\ DOMAIN new \cap DOMAIN surfaces = {}
<1>1. new \in Partial(Window \ DOMAIN surfaces, places)
  BY AllocationsAre
<1> QED BY <1>1 DEF Partial

\* An item is opened on outputs.
LEMMA OutputsAre ==
  ASSUME monitors \in Seq(Monitor), NEW it \in Item
  PROVE  LaunchOutputs(it) \subseteq Output
<1>1. First \in Output
  <2>1. CASE monitors = <<>>
    BY <2>1 DEF First, Output
  <2>2. CASE monitors # <<>>
    BY <2>2, HeadTailProperties DEF First, Output
  <2> QED BY <2>1, <2>2
<1>2. Range(monitors) \subseteq Output
  BY DEF Range, Output
<1>3. ScopeOf[it] \in MonitorScope
  BY ItemAssumption
<1>4. ScopeOf[it].names \subseteq Output
  BY <1>3 DEF MonitorScope, Output
<1> QED BY <1>1, <1>2, <1>4 DEF LaunchOutputs

\* Marking windows: nothing changes when everything is to be redrawn.
LEMMA MarkedWindows ==
  ASSUME NEW d \in [all : BOOLEAN, set : SUBSET Window], NEW ids \in SUBSET Window
  PROVE  /\ MarkWindows(d, ids) \in [all : BOOLEAN, set : SUBSET Window]
         /\ d.all => MarkWindows(d, ids).all
         /\ ~d.all => ~MarkWindows(d, ids).all /\ MarkWindows(d, ids).set = d.set \cup ids
BY DEF MarkWindows

\* The windows of a slot.
LEMMA WindowsOfAre ==
  ASSUME NEW w, NEW s, NEW at, Screen(w, s, at), NEW idx \in Slot
  PROVE  /\ WindowsOf(w, idx) \subseteq Tracked(w) /\ Tracked(w) \subseteq Window /\ Tracked(w) = DOMAIN s
         /\ \A id \in Tracked(w) : id \in WindowsOf(w, idx) <=> w.windows[id] = idx
<1>1. w.reverse_windows \in Partial(Slot, SUBSET Window) /\ w.windows \in Partial(Window, Slot)
  BY DEF Screen, WindowTables, Partial
<1>2. WindowsOf(w, idx) \subseteq Window /\ Tracked(w) \subseteq Window
  BY <1>1 DEF WindowsOf, Partial, Tracked
<1> QED BY <1>2 DEF Screen

\* destroy_idx() with the index entries that go with it.
LEMMA DestroyKeeps ==
  ASSUME Books, NEW idx \in Live, DestroyIdx(idx), NEW ids, IdAt(idx) \subseteq ids, DropFromIndex(ids)
  PROVE  /\ Slots(items', free') /\ Live' = Live \ {idx} /\ \A i \in Live' : items'[i] = items[i]
         /\ items'[idx] = NoItem /\ Screen(win', surfaces', items') /\ Indexed(index', items')
         /\ Keeps(win', win, WindowsOf(win, idx))
         /\ active' \subseteq Live' /\ uninitialized' \subseteq Live' /\ subscriptions' \subseteq Filter \X Live'
<1>1. Slots(items, free) /\ Screen(win, surfaces, items) /\ idx \in LiveIn(items) /\ items[idx] # NoItem
  BY LiveIs DEF Books, LiveIn
<1>2. idx \in Slot
  BY <1>1, SlotsAre
<1>3. items' = [items EXCEPT ![idx] = NoItem] /\ free' = Append(free, idx)
  BY <1>1 DEF DestroyIdx, Freed
<1>4. /\ Slots(items', free') /\ LiveIn(items') = LiveIn(items) \ {idx}
      /\ items'[idx] = NoItem /\ \A i \in DOMAIN items \ {idx} : items'[i] = items[i]
  <2>1. Slots(items', free') /\ Emptied(items, idx, items')
    BY <1>1, <1>3, EmptiedSlots, Zenon
  <2> QED BY <2>1 DEF Emptied
<1>5. Live' = Live \ {idx}
  BY <1>4 DEF Live, LiveIn
<1>6. \A i \in Live' : items'[i] = items[i]
  BY <1>4, <1>5 DEF Live
<1>7. win' = CloseItem(win, idx) /\ surfaces' = Restrict(surfaces, DOMAIN surfaces \ WindowsOf(win, idx))
  BY DEF DestroyIdx, Closed
<1>8. Screen(win', surfaces', items) /\ Keeps(win', win, WindowsOf(win, idx)) /\ Vacated(win', idx)
  BY <1>1, <1>2, <1>7, ClosedScreen, Zenon
<1>9. \A i \in LiveIn(items) : i # idx => i \in LiveIn(items') /\ items'[i] = items[i]
  BY <1>4 DEF LiveIn
<1>10. Screen(win', surfaces', items')
  BY <1>8, <1>9, OtherSlots DEF Vacated
<1>11. Indexed(index', items')
  <2>1. index \in Partial(Id, Slot) /\ \A id \in DOMAIN index : index[id] \in LiveIn(items) /\ IdOf[items[index[id]]] = id
    BY DEF Books, Indexed
  <2>2. index' = Restrict(index, DOMAIN index \ ids)
    BY DEF DropFromIndex
  <2>3. index' \in Partial(Id, Slot) /\ DOMAIN index' = DOMAIN index \ ids /\ \A id \in DOMAIN index' : index'[id] = index[id]
    BY <2>1, <2>2, Restricted
  <2>4. IdOf[items[idx]] \in ids
    BY <1>1 DEF IdAt
  <2>5. \A id \in DOMAIN index' : index'[id] # idx
    BY <2>1, <2>3, <2>4
  <2> QED BY <1>9, <2>1, <2>3, <2>5 DEF Indexed
<1>12. active' \subseteq Live' /\ uninitialized' \subseteq Live'
  BY <1>5 DEF DestroyIdx, Books, References
<1>13. subscriptions' \subseteq Filter \X Live'
  <2>1. subscriptions' = {s \in subscriptions : s[2] # idx}
    BY DEF DestroyIdx, Unsubscribed
  <2>2. subscriptions \subseteq Filter \X Live
    BY DEF Books, References
  <2> QED BY <1>5, <2>1, <2>2
<1> QED BY <1>4, <1>5, <1>6, <1>8, <1>10, <1>11, <1>12, <1>13

\* ShowAndSubscribe finds the item shown already.
Synced(idx) ==
  /\ win' = SyncLayers(win, idx)
  /\ surfaces' = Relayered(idx)
  /\ dirty_windows' = Ran(idx)
  /\ stale' = stale \cup WindowsOf(win, idx)

\* An effect does one of four things to the windows, and opens none when the
\* slot has an entry.
WindowStep(idx) ==
  \/ NoWindowChange(idx)
  \/ ~HasWindowEntry(idx) /\ OpenAll(idx)
  \/ HasWindowEntry(idx) /\ Synced(idx)
  \/ Close(idx)

\* What apply_effect() changes, and what it does to the windows of its slot.
LEMMA EffectSteps ==
  ASSUME NEW idx, NEW effect \in ItemEffect, ApplyEffect(idx, effect)
  PROVE  /\ WindowStep(idx)
         /\ UNCHANGED <<items, free, index, monitors, uninitialized, layer_of>>
         /\ active' \subseteq active \cup {idx}
         /\ \E filters \in SUBSET Filter : subscriptions' \subseteq subscriptions \cup (filters \X {idx})
<1>1. UNCHANGED <<items, free, index, monitors, uninitialized, layer_of>>
  BY DEF ApplyEffect
<1>2. effect.filters \in SUBSET Filter
  BY EventAssumption DEF ItemEffect
<1>3. Subscribed(idx, effect.filters) \subseteq subscriptions \cup (effect.filters \X {idx})
  BY DEF Subscribed, Unsubscribed
<1>4. CASE effect.kind \in {"None", "Redraw", "UpdateWindow"}
  <2>1. NoWindowChange(idx) /\ UNCHANGED <<active, subscriptions>>
    BY <1>4 DEF ApplyEffect
  <2> QED BY <1>1, <1>2, <2>1 DEF WindowStep
<1>5. CASE effect.kind = "Show"
  <2>1. Show(idx)
    BY <1>5 DEF ApplyEffect
  <2> QED BY <1>1, <1>2, <2>1 DEF WindowStep, Show
<1>6. CASE effect.kind = "ShowAndSubscribe"
  <2>1. ShowAndSubscribe(idx, effect.filters)
    BY <1>6 DEF ApplyEffect
  <2> QED BY <1>1, <1>2, <1>3, <2>1 DEF WindowStep, ShowAndSubscribe, Synced
<1>7. CASE effect.kind \in {"Hide", "ReallyHide"}
  <2>1. Hide(idx, FALSE) \/ Hide(idx, TRUE)
    BY <1>7 DEF ApplyEffect
  <2> QED BY <1>1, <1>2, <2>1 DEF WindowStep, Hide
<1>8. CASE effect.kind = "Destroy"
  <2>1. Silence(idx)
    BY <1>8 DEF ApplyEffect
  <2> QED BY <1>1, <1>2, <2>1 DEF WindowStep, Silence, Unsubscribed
<1>9. CASE effect.kind = "Subscribe"
  <2>1. Subscribe(idx, effect.filters)
    BY <1>9 DEF ApplyEffect
  <2> QED BY <1>1, <1>2, <1>3, <2>1 DEF WindowStep, Subscribe
<1> QED BY <1>4, <1>5, <1>6, <1>7, <1>8, <1>9 DEF ApplyEffect

\* What a launch opens: windows the shell does not know yet, where they belong.
LEMMA NewWindows ==
  ASSUME NEW at, NEW places, places \subseteq LiveIn(at) \X Output, NEW new \in Allocations(places)
  PROVE  /\ new \in Partial(Window \ DOMAIN surfaces, LiveIn(at) \X Output)
         /\ \A id \in DOMAIN new : new[id] \in places
         /\ DOMAIN new \subseteq Window \ DOMAIN surfaces
         /\ \A a, b \in DOMAIN new : new[a] = new[b] => a = b
<1>1. new \in Partial(Window \ DOMAIN surfaces, places) /\ \A a, b \in DOMAIN new : new[a] = new[b] => a = b
  BY AllocationsAre
<1> QED BY <1>1 DEF Partial

\* The surfaces a launch leaves.
LEMMA OpenedSurfaces ==
  ASSUME NEW at, NEW new, \A i \in LiveIn(at) : at[i] \in Item, layer_of \in [Item -> Layer],
         new \in Partial(Window \ DOMAIN surfaces, LiveIn(at) \X Output),
         surfaces \in Partial(Window, Surface)
  PROVE  Opened(new, at) \in Partial(Window, Surface) /\ Shows(Opened(new, at), surfaces, new, at)
<1> DEFINE added == [id \in DOMAIN new |->
             [item |-> at[new[id][1]], monitor |-> new[id][2], layer |-> layer_of[at[new[id][1]]]]]
<1>1. DOMAIN new \subseteq Window \ DOMAIN surfaces /\ \A id \in DOMAIN new : new[id] \in LiveIn(at) \X Output
  BY DEF Partial
<1>2. ASSUME NEW id \in DOMAIN new PROVE added[id] \in Surface
  <2>1. new[id] \in LiveIn(at) \X Output
    BY <1>1
  <2>2. new[id][1] \in LiveIn(at) /\ new[id][2] \in Output
    BY <2>1, PairIs
  <2> QED BY <2>2 DEF Surface
<1>3. added \in [DOMAIN new -> Surface] /\ DOMAIN new \subseteq Window
  BY <1>1, <1>2
<1>4. added \in Partial(Window, Surface)
  BY <1>3 DEF Partial
<1>5. Opened(new, at) = Inserted(surfaces, added)
  BY DEF Opened
<1>6. Shows(Inserted(surfaces, added), surfaces, new, at)
  BY <1>1 DEF Inserted, Shows
<1> HIDE DEF added
<1> QED BY <1>4, <1>5, <1>6, Merged

\* launch() for some windows of the live slots.
LEMMA LaunchKeeps ==
  ASSUME NEW at, NEW places, NEW new \in Allocations(places), NEW rest,
         Slots(at, rest), Screen(win, surfaces, at), layer_of \in [Item -> Layer],
         places \subseteq LiveIn(at) \X Output
  PROVE  Screen(Launch(win, new, at), Opened(new, at), at) /\ Gains(Launch(win, new, at), win, new)
<1>1. new \in Partial(Window \ DOMAIN surfaces, LiveIn(at) \X Output)
  BY NewWindows
<1>2. surfaces \in Partial(Window, Surface)
  BY DEF Screen
<1>3. (\A i \in LiveIn(at) : at[i] \in Item) /\ at \in Seq(Item \cup {NoItem}) /\ Len(at) <= MaxSlots
  BY SlotsAre DEF Slots
<1>4. Opened(new, at) \in Partial(Window, Surface) /\ Shows(Opened(new, at), surfaces, new, at)
  BY <1>1, <1>2, <1>3, OpenedSurfaces
<1> QED BY <1>1, <1>3, <1>4, LaunchedScreen, Zenon

\* The tables `v` are `w` with windows opened: at some of the places, one at each.
Opens(v, w, places) ==
  /\ Tracked(w) \subseteq Tracked(v)
  /\ \A id \in Tracked(w) : v.windows[id] = w.windows[id] /\ v.window_monitors[id] = w.window_monitors[id]
  /\ \A id \in Tracked(v) \ Tracked(w) : <<v.windows[id], v.window_monitors[id]>> \in places
  /\ \A a, b \in Tracked(v) \ Tracked(w) :
       v.windows[a] = v.windows[b] /\ v.window_monitors[a] = v.window_monitors[b] => a = b

\* launch() opens windows at the places asked for, whatever ids they get ...
LEMMA GainsOpens ==
  ASSUME NEW at, NEW places, NEW new \in Allocations(places), NEW v, NEW w,
         places \subseteq LiveIn(at) \X Output, Tracked(w) \subseteq DOMAIN surfaces, Gains(v, w, new)
  PROVE  Opens(v, w, places)
<1>1. /\ \A id \in DOMAIN new : new[id] \in places
      /\ DOMAIN new \subseteq Window \ DOMAIN surfaces
      /\ \A a, b \in DOMAIN new : new[a] = new[b] => a = b
  BY NewWindows
<1>2. Tracked(v) = Tracked(w) \cup DOMAIN new
  BY DEF Gains
<1>3. Tracked(v) \ Tracked(w) = DOMAIN new
  BY <1>1, <1>2
<1>4. ASSUME NEW id \in DOMAIN new PROVE <<v.windows[id], v.window_monitors[id]>> = new[id] /\ new[id] \in places
  <2>1. new[id] \in LiveIn(at) \X Output
    BY <1>1
  <2>2. new[id] = <<new[id][1], new[id][2]>>
    BY <2>1, PairIs
  <2>3. v.windows[id] = new[id][1] /\ v.window_monitors[id] = new[id][2]
    BY DEF Gains
  <2> QED BY <1>1, <2>2, <2>3
<1>5. ASSUME NEW a \in DOMAIN new, NEW b \in DOMAIN new,
             v.windows[a] = v.windows[b], v.window_monitors[a] = v.window_monitors[b]
      PROVE  a = b
  <2>1. new[a] = new[b]
    BY <1>4, <1>5
  <2> QED BY <1>1, <2>1
<1> QED BY <1>2, <1>3, <1>4, <1>5 DEF Gains, Opens

\* ... and leaves the others where they were.
LEMMA LaunchOpens ==
  ASSUME NEW at, NEW places, NEW new \in Allocations(places), NEW rest,
         Slots(at, rest), Screen(win, surfaces, at), layer_of \in [Item -> Layer],
         places \subseteq LiveIn(at) \X Output
  PROVE  Opens(Launch(win, new, at), win, places)
<1>1. Gains(Launch(win, new, at), win, new)
  BY LaunchKeeps, Zenon
<1>2. Tracked(win) \subseteq DOMAIN surfaces
  BY DEF Screen
<1> QED BY <1>1, <1>2, GainsOpens

\* Windows opened for other slots are not this slot's.
LEMMA OpenedElsewhere ==
  ASSUME NEW w, NEW s, NEW at, NEW v, NEW s2, NEW at2, Screen(w, s, at), Screen(v, s2, at2),
         NEW places, Opens(v, w, places), NEW i \in Slot, \A p \in places : p[1] # i
  PROVE  WindowsOf(v, i) = WindowsOf(w, i)
<1>1. /\ WindowsOf(w, i) \subseteq Tracked(w)
      /\ \A id \in Tracked(w) : id \in WindowsOf(w, i) <=> w.windows[id] = i
  BY WindowsOfAre
<1>2. /\ WindowsOf(v, i) \subseteq Tracked(v)
      /\ \A id \in Tracked(v) : id \in WindowsOf(v, i) <=> v.windows[id] = i
  BY WindowsOfAre
<1>3. Tracked(w) \subseteq Tracked(v) /\ \A id \in Tracked(w) : v.windows[id] = w.windows[id]
  BY DEF Opens
<1>4. ASSUME NEW id \in Tracked(v) \ Tracked(w) PROVE v.windows[id] # i
  BY DEF Opens
<1>5. ASSUME NEW id PROVE id \in WindowsOf(v, i) <=> id \in WindowsOf(w, i)
  BY ONLY <1>1, <1>2, <1>3, <1>4
<1> QED BY <1>5

\* What an effect leaves of the windows.
LEMMA WindowStepKeeps ==
  ASSUME Books, NEW idx \in Live, WindowStep(idx), UNCHANGED items
  PROVE  /\ Screen(win', surfaces', items')
         /\ dirty_windows' \in [all : BOOLEAN, set : SUBSET Window] /\ stale' \subseteq Window
<1>1. /\ Slots(items, free) /\ Screen(win, surfaces, items) /\ idx \in LiveIn(items) /\ layer_of \in [Item -> Layer]
      /\ monitors \in Seq(Monitor) /\ dirty_windows \in [all : BOOLEAN, set : SUBSET Window] /\ stale \subseteq Window
  BY LiveIs DEF Books, Drawn
<1>2. idx \in Slot /\ items[idx] \in Item
  BY <1>1, SlotsAre
<1>3. WindowsOf(win, idx) \subseteq Window
  BY <1>1, <1>2, WindowsOfAre
<1>4. Ran(idx) \in [all : BOOLEAN, set : SUBSET Window]
  BY <1>1, <1>3, MarkedWindows DEF Ran, MarkItem
<1>5. CASE NoWindowChange(idx)
  BY <1>1, <1>3, <1>4, <1>5 DEF NoWindowChange
<1>6. CASE OpenAll(idx)
  <2>1. PICK new \in Allocations({idx} \X LaunchOutputs(items[idx])) :
          /\ win' = Launch(win, new, items) /\ surfaces' = Opened(new, items)
          /\ dirty_windows' = MarkWindows(Ran(idx), DOMAIN new)
          /\ stale' = stale \cup WindowsOf(win, idx) \cup DOMAIN new
    BY <1>6 DEF OpenAll
  <2>2. LaunchOutputs(items[idx]) \subseteq Output
    BY <1>1, <1>2, OutputsAre
  <2>3. {idx} \X LaunchOutputs(items[idx]) \subseteq LiveIn(items) \X Output
    BY <1>1, <2>2
  <2>4. Screen(win', surfaces', items)
    BY <1>1, <2>1, <2>3, LaunchKeeps, Zenon
  <2>5. DOMAIN new \in SUBSET Window
    BY AllocationsFit
  <2>6. dirty_windows' \in [all : BOOLEAN, set : SUBSET Window]
    BY <1>4, <2>1, <2>5, MarkedWindows
  <2> QED BY <1>1, <1>3, <2>1, <2>4, <2>5, <2>6
<1>7. CASE Synced(idx)
  <2>1. Screen(win', surfaces', items)
    BY <1>1, <1>2, <1>7, SyncedScreen DEF Synced
  <2> QED BY <1>1, <1>3, <1>4, <1>7, <2>1 DEF Synced
<1>8. CASE Close(idx)
  <2>1. win' = CloseItem(win, idx) /\ surfaces' = Restrict(surfaces, DOMAIN surfaces \ WindowsOf(win, idx))
    BY <1>8 DEF Close, Closed
  <2>2. Screen(win', surfaces', items)
    BY <1>1, <1>2, <2>1, ClosedScreen, Zenon
  <2> QED BY <1>1, <1>4, <1>8, <2>2 DEF Close
<1> QED BY <1>5, <1>6, <1>7, <1>8 DEF WindowStep

RegisterPlaces(it, idx) == IF VisibilityOf[it] = "Visible" THEN {idx} \X LaunchOutputs(it) ELSE {}

\* What register() does, as facts about the slot it takes.
Registered(it, idx) ==
  /\ Slots(items', free') /\ Taken(items, idx, it, items')
  /\ subscriptions' \subseteq subscriptions \cup (Filter \X {idx})
  /\ active' \subseteq active \cup {idx} /\ uninitialized' = uninitialized \cup {idx}
  /\ VisibilityOf[it] = "Visible" => idx \in active'
  /\ active \subseteq active'
  /\ index' = Inserted(index, [id \in {IdOf[it]} |-> idx])
  /\ \E new \in Allocations(RegisterPlaces(it, idx)) :
       /\ win' = Launch(win, new, items') /\ surfaces' = Opened(new, items')
       /\ dirty_windows' = MarkWindows(dirty_windows, DOMAIN new)
       /\ stale' = stale \cup DOMAIN new

\* register() takes a slot that is empty, from the free list or a new one.
LEMMA RegisterTakes ==
  ASSUME Slots(items, free), NEW it \in Item, Register(it)
  PROVE  \E idx \in Slot : Registered(it, idx)
<1> DEFINE idx == IF TakesFreeSlot THEN free[Len(free)] ELSE Len(items) + 1
           slots == IF TakesFreeSlot THEN [items EXCEPT ![idx] = it] ELSE Append(items, it)
           rest == IF TakesFreeSlot THEN SubSeq(free, 1, Len(free) - 1) ELSE free
           events == InitEventsOf[it]
                       \cup (IF StrategyOf[it] = "EveryFrame" THEN {PlainFilter("Frame")} ELSE {})
<1>1. /\ items' = slots /\ free' = rest /\ uninitialized' = uninitialized \cup {idx}
      /\ subscriptions' = subscriptions \cup (events \X {idx})
      /\ active' = IF VisibilityOf[it] = "Visible" THEN active \cup {idx} ELSE active
      /\ index' = Inserted(index, [id \in {IdOf[it]} |-> idx])
  BY DEF Register
<1>2. \E new \in Allocations(RegisterPlaces(it, idx)) :
        /\ win' = Launch(win, new, slots) /\ surfaces' = Opened(new, slots)
        /\ dirty_windows' = MarkWindows(dirty_windows, DOMAIN new)
        /\ stale' = stale \cup DOMAIN new
  BY DEF Register, RegisterPlaces
<1>3. it \notin Range(items) /\ (free # <<>> \/ Len(items) < MaxSlots)
  BY DEF Register
<1>4. Slots(slots, rest) /\ Taken(items, idx, it, slots)
  <2>1. CASE TakesFreeSlot
    BY <1>3, <2>1, ReusedSlots DEF TakesFreeSlot
  <2>2. CASE ~TakesFreeSlot
    BY <1>3, <2>2, PushedSlots DEF TakesFreeSlot
  <2> QED BY <2>1, <2>2
<1>5. events \subseteq Filter
  BY ItemAssumption, EventAssumption
<1> HIDE DEF idx, slots, rest, events
<1>6. idx \in Slot
  BY <1>4 DEF Taken
<1>7. subscriptions' \subseteq subscriptions \cup (Filter \X {idx})
  BY <1>1, <1>5
<1> QED BY <1>1, <1>2, <1>4, <1>6, <1>7 DEF Registered

\* Where register() opens windows, and that everything fits afterwards.
LEMMA RegisterOpens ==
  ASSUME Books, NEW it \in Item, NEW idx \in Slot, Registered(it, idx)
  PROVE  /\ Screen(win', surfaces', items') /\ Opens(win', win, RegisterPlaces(it, idx))
         /\ dirty_windows' \in [all : BOOLEAN, set : SUBSET Window] /\ stale' \subseteq Window
<1>1. /\ Slots(items, free) /\ Screen(win, surfaces, items) /\ layer_of \in [Item -> Layer] /\ Drawn
  BY DEF Books, Drawn
<1>2. /\ idx \notin LiveIn(items) /\ items'[idx] = it /\ LiveIn(items') = LiveIn(items) \cup {idx}
      /\ \A i \in LiveIn(items) : items'[i] = items[i]
  BY DEF Registered, Taken
<1>3. Screen(win, surfaces, items')
  BY <1>1, <1>2, OtherSlots
<1>4. PICK new \in Allocations(RegisterPlaces(it, idx)) :
        /\ win' = Launch(win, new, items') /\ surfaces' = Opened(new, items')
        /\ dirty_windows' = MarkWindows(dirty_windows, DOMAIN new)
        /\ stale' = stale \cup DOMAIN new
  BY DEF Registered
<1>5. RegisterPlaces(it, idx) \subseteq LiveIn(items') \X Output
  <2>1. LaunchOutputs(it) \subseteq Output
    BY <1>1, OutputsAre DEF Drawn
  <2> QED BY <1>2, <2>1 DEF RegisterPlaces
<1>6. Slots(items', free')
  BY DEF Registered
<1>7. Screen(win', surfaces', items')
  BY <1>1, <1>3, <1>4, <1>5, <1>6, LaunchKeeps, Zenon
<1>8. Opens(win', win, RegisterPlaces(it, idx))
  BY <1>1, <1>3, <1>4, <1>5, <1>6, LaunchOpens, Zenon
<1>9. DOMAIN new \in SUBSET Window
  BY AllocationsFit
<1>10. dirty_windows' \in [all : BOOLEAN, set : SUBSET Window] /\ stale' \subseteq Window
  BY <1>1, <1>4, <1>9, MarkedWindows DEF Drawn
<1> QED BY <1>7, <1>8, <1>10

\* The inductive step for register().
LEMMA RegisterKeeps ==
  ASSUME Books, NEW it \in Item, Register(it)
  PROVE  Books'
<1>1. /\ Slots(items, free) /\ Indexed(index, items) /\ References(Live) /\ Drawn /\ Live = LiveIn(items)
  BY LiveIs DEF Books
<1>2. PICK idx \in Slot : Registered(it, idx)
  BY <1>1, RegisterTakes
<1>3. /\ idx \notin LiveIn(items) /\ items'[idx] = it /\ LiveIn(items') = LiveIn(items) \cup {idx}
      /\ \A i \in LiveIn(items) : items'[i] = items[i]
  BY <1>2 DEF Registered, Taken
<1>4. Live' = Live \cup {idx}
  BY <1>1, <1>3 DEF Live, LiveIn
<1>8. Slots(items', free')
  BY <1>2 DEF Registered
<1>9. Screen(win', surfaces', items')
  BY <1>2, RegisterOpens
<1>11. UNCHANGED <<monitors, loop, layer_of>>
  BY DEF Register
<1>12. References(Live)'
  BY <1>1, <1>2, <1>4, <1>11 DEF References, Registered
<1>13. Indexed(index', items')
  <2>1. index \in Partial(Id, Slot) /\ \A id \in DOMAIN index : index[id] \in LiveIn(items) /\ IdOf[items[index[id]]] = id
    BY <1>1 DEF Indexed
  <2> DEFINE entry == [id \in {IdOf[it]} |-> idx]
  <2>2. index' = Inserted(index, entry)
    BY <1>2 DEF Registered
  <2>3. entry \in Partial(Id, Slot)
    <3>1. IdOf[it] \in Id
      BY ItemAssumption
    <3>2. entry \in [{IdOf[it]} -> Slot]
      OBVIOUS
    <3> QED BY <3>1, <3>2 DEF Partial
  <2>4. index' \in Partial(Id, Slot)
    <3> HIDE DEF entry
    <3> QED BY <2>1, <2>2, <2>3, Merged
  <2>5. \A id \in DOMAIN index' : (id = IdOf[it] /\ index'[id] = idx) \/ (id \in DOMAIN index /\ index'[id] = index[id])
    <3>1. DOMAIN entry = {IdOf[it]} /\ \A id \in {IdOf[it]} : entry[id] = idx
      OBVIOUS
    <3> HIDE DEF entry
    <3>2. index' = [id \in DOMAIN index \cup DOMAIN entry |-> IF id \in DOMAIN entry THEN entry[id] ELSE index[id]]
      BY <2>2 DEF Inserted
    <3>3. DOMAIN index' = DOMAIN index \cup {IdOf[it]}
      BY <3>1, <3>2
    <3>4. \A id \in DOMAIN index' : index'[id] = IF id = IdOf[it] THEN idx ELSE index[id]
      BY <3>1, <3>2, <3>3
    <3> QED BY <3>3, <3>4
  <2> QED BY <1>3, <2>1, <2>4, <2>5 DEF Indexed
<1>14. Drawn'
  <2>1. dirty_windows' \in [all : BOOLEAN, set : SUBSET Window] /\ stale' \subseteq Window
    BY <1>2, RegisterOpens
  <2> QED BY <1>1, <1>11, <2>1 DEF Drawn
<1> QED BY <1>8, <1>9, <1>12, <1>13, <1>14 DEF Books

\* What sync_monitors() opens, it opens for live items on outputs there are.
LEMMA AddedWindowsFit ==
  ASSUME Slots(items, free), NEW list \in MonitorList, NEW kept
  PROVE  AddedWindows(kept, list) \subseteq LiveIn(items) \X Output
<1>1. list \in Seq(Monitor) /\ Range(list) \subseteq Output
  BY MonitorAssumption DEF Range, Output
<1>2. ASSUME NEW idx \in LiveIn(items) PROVE AddedOutputs(kept, idx, list) \subseteq Output
  <2>1. items[idx] \in Item
    BY SlotsAre
  <2>2. ScopeOf[items[idx]].kind \in {"First", "PerMonitor", "Single", "OnMonitors"}
    BY <2>1, ItemAssumption DEF MonitorScope
  <2>3. list # <<>> => Head(list) \in Output
    BY <1>1, HeadTailProperties DEF Output
  <2> QED BY <1>1, <2>2, <2>3 DEF AddedOutputs
<1> QED BY <1>2, LiveIs DEF AddedWindows

\* The tables after sync_monitors(): those of the outputs gone are closed, then
\* some are opened.
Resynced(kept, list) ==
  LET gone == Range(monitors) \ Range(list) IN
  /\ Keeps(kept, win, OnOutputs(win, gone)) /\ Unplugged(kept, gone)
  /\ kept = DestroyMonitors(win, gone)
  /\ \E left : Screen(kept, left, items)
  /\ Opens(win', kept, AddedWindows(kept, list))

\* What sync_monitors() closes and opens, and that everything fits afterwards.
LEMMA SyncMonitorsOpens ==
  ASSUME Books, NEW list \in MonitorList, SyncMonitors(list)
  PROVE  /\ Screen(win', surfaces', items) /\ stale' \subseteq Window
         /\ \E kept : Resynced(kept, list)
<1> DEFINE gone == Range(monitors) \ Range(list)
           kept == DestroyMonitors(win, gone)
           left == Restrict(surfaces, DOMAIN surfaces \ OnOutputs(win, gone))
<1>1. /\ Slots(items, free) /\ Screen(win, surfaces, items) /\ layer_of \in [Item -> Layer] /\ stale \subseteq Window
  BY DEF Books, Drawn
<1>2. PICK new \in Allocations(AddedWindows(kept, list)) :
        /\ win' = Launch(kept, new, items)
        /\ surfaces' = Restrict(Opened(new, items), (DOMAIN surfaces \ OnOutputs(win, gone)) \cup DOMAIN new)
        /\ stale' = stale \cup DOMAIN new
  BY DEF SyncMonitors
<1> HIDE DEF gone
<1>3. Screen(kept, left, items) /\ Keeps(kept, win, OnOutputs(win, gone)) /\ Unplugged(kept, gone)
  BY <1>1, DestroyedScreen, Zenon
<1>4. kept = DestroyMonitors(win, gone)
  OBVIOUS
<1>5. AddedWindows(kept, list) \subseteq LiveIn(items) \X Output
  BY <1>1, AddedWindowsFit
<1> HIDE DEF kept
<1>6. new \in Partial(Window \ DOMAIN surfaces, LiveIn(items) \X Output)
  BY <1>5, NewWindows
<1>7. surfaces \in Partial(Window, Surface) /\ \A i \in LiveIn(items) : items[i] \in Item
  BY <1>1, SlotsAre DEF Screen
<1>8. Opened(new, items) \in Partial(Window, Surface) /\ Shows(Opened(new, items), surfaces, new, items)
  BY <1>1, <1>6, <1>7, OpenedSurfaces
<1>9. DOMAIN left = DOMAIN surfaces \ OnOutputs(win, gone) /\ \A id \in DOMAIN left : left[id] = surfaces[id]
  BY DEF Restrict
<1> HIDE DEF left
<1>10. surfaces' = Restrict(Opened(new, items), DOMAIN left \cup DOMAIN new) /\ DOMAIN left \subseteq DOMAIN surfaces
  BY <1>2, <1>9
<1>11. surfaces' \in Partial(Window, Surface)
  BY <1>8, <1>10, Restricted DEF Shows
<1>12. Shows(surfaces', left, new, items)
  BY <1>8, <1>9, <1>10 DEF Shows, Restrict
<1>13. new \in Partial(Window \ DOMAIN left, LiveIn(items) \X Output)
  BY <1>6, <1>10 DEF Partial
<1>14. items \in Seq(Item \cup {NoItem}) /\ Len(items) <= MaxSlots
  BY <1>1 DEF Slots
<1>15. Screen(Launch(kept, new, items), surfaces', items) /\ Gains(Launch(kept, new, items), kept, new)
  BY <1>1, <1>3, <1>11, <1>12, <1>13, <1>14, LaunchedScreen, Zenon
<1>16. Screen(win', surfaces', items) /\ Gains(win', kept, new)
  BY <1>2, <1>15
<1>17. Tracked(kept) \subseteq DOMAIN surfaces
  BY <1>3, <1>10 DEF Screen
<1>18. Opens(win', kept, AddedWindows(kept, list))
  BY <1>5, <1>16, <1>17, GainsOpens
<1>19. DOMAIN new \in SUBSET Window
  BY AllocationsFit
<1>20. Resynced(kept, list)
  BY <1>3, <1>4, <1>18 DEF Resynced, gone
<1> QED BY <1>1, <1>2, <1>16, <1>19, <1>20

\* The inductive step for sync_monitors().
LEMMA SyncMonitorsKeeps ==
  ASSUME Books, NEW list \in MonitorList, SyncMonitors(list)
  PROVE  Books'
<1>1. UNCHANGED <<items, free, index, active, subscriptions, uninitialized, loop, layer_of>>
      /\ monitors' = list /\ dirty_windows' = AllDirty
  BY DEF SyncMonitors
<1>2. Screen(win', surfaces', items) /\ stale' \subseteq Window
  BY SyncMonitorsOpens
<1>3. /\ Slots(items, free) /\ Indexed(index, items) /\ References(Live) /\ layer_of \in [Item -> Layer]
  BY DEF Books, Drawn
<1>4. Drawn'
  BY <1>1, <1>2, <1>3, MonitorAssumption DEF Drawn, AllDirty
<1> QED BY <1>1, <1>2, <1>3, <1>4 DEF Books, References, Live

\* The locals of the loop, also when there is nothing left to do.
LEMMA RunningIs ==
  ASSUME NEW event, NEW todo, NEW doomed
  PROVE  Running(event, todo, doomed).todo = todo /\ Running(event, todo, doomed).pending_destroy = doomed
BY DEF Running, NotRunning

\* The loop of update() visits a slot that waits.
LEMMA NextSlotIsThere ==
  ASSUME References(Live), Slots(items, free), loop.todo # {}
  PROVE  NextSlot \in loop.todo
<1>1. loop.todo \subseteq Slot
  BY SlotsAre, LiveIs DEF References
<1>2. loop.todo \subseteq 1..MaxSlots /\ MaxSlots \in Nat
  BY <1>1, SlotAssumption DEF Slot
<1>3. \E idx \in loop.todo : \A other \in loop.todo : idx <= other
  BY <1>2, Smallest, Zenon
<1> QED BY <1>3 DEF NextSlot

\* The end of update() destroys a slot that was doomed.
LEMMA LastDoomedIsThere ==
  ASSUME References(Live), Slots(items, free), loop.pending_destroy # {}
  PROVE  LastDoomed \in loop.pending_destroy
<1>1. loop.pending_destroy \subseteq Slot
  BY SlotsAre, LiveIs DEF References
<1>2. loop.pending_destroy \subseteq 1..MaxSlots /\ MaxSlots \in Nat
  BY <1>1, SlotAssumption DEF Slot
<1>3. \E idx \in loop.pending_destroy : \A other \in loop.pending_destroy : other <= idx
  BY <1>2, Greatest, Zenon
<1> QED BY <1>3 DEF LastDoomed

\* destroy_idx() keeps the books, whatever else has gone on.
LEMMA DestroyKeepsBooks ==
  ASSUME Books, NEW idx \in Live, DestroyIdx(idx), NEW ids, IdAt(idx) \subseteq ids, DropFromIndex(ids),
         loop'.todo \subseteq loop.todo \ {idx}, loop'.pending_destroy \subseteq loop.pending_destroy \ {idx},
         dirty_windows' \in [all : BOOLEAN, set : SUBSET Window], stale' \subseteq Window
  PROVE  Books'
<1>1. /\ Slots(items', free') /\ Live' = Live \ {idx} /\ Screen(win', surfaces', items') /\ Indexed(index', items')
      /\ active' \subseteq Live' /\ uninitialized' \subseteq Live' /\ subscriptions' \subseteq Filter \X Live'
  BY DestroyKeeps
<1>2. loop.todo \subseteq Live /\ loop.pending_destroy \subseteq Live
  BY DEF Books, References
<1>3. References(Live)'
  BY <1>1, <1>2 DEF References
<1>4. Drawn'
  BY DEF Books, Drawn, DestroyIdx
<1> QED BY <1>1, <1>3, <1>4 DEF Books

\* So does an effect.
LEMMA EffectKeepsBooks ==
  ASSUME Books, NEW idx \in Live, NEW effect \in ItemEffect, ApplyEffect(idx, effect),
         loop'.todo \subseteq Live, loop'.pending_destroy \subseteq Live
  PROVE  Books'
<1>1. /\ WindowStep(idx) /\ UNCHANGED <<items, free, index, monitors, uninitialized, layer_of>>
      /\ active' \subseteq active \cup {idx}
      /\ \E filters \in SUBSET Filter : subscriptions' \subseteq subscriptions \cup (filters \X {idx})
  BY EffectSteps
<1>2. /\ Screen(win', surfaces', items')
      /\ dirty_windows' \in [all : BOOLEAN, set : SUBSET Window] /\ stale' \subseteq Window
  BY <1>1, WindowStepKeeps
<1>3. Live' = Live
  BY <1>1 DEF Live
<1>4. References(Live)'
  BY <1>1, <1>3 DEF Books, References
<1> QED BY <1>1, <1>2, <1>4 DEF Books, Drawn

\* An item that only draws itself.
LEMMA NoWindowChangeKeepsBooks ==
  ASSUME Books, NEW idx \in Live, NoWindowChange(idx),
         UNCHANGED <<items, free, index, active, subscriptions, monitors, uninitialized, layer_of>>,
         loop'.todo \subseteq Live, loop'.pending_destroy \subseteq Live
  PROVE  Books'
<1>1. /\ Screen(win', surfaces', items')
      /\ dirty_windows' \in [all : BOOLEAN, set : SUBSET Window] /\ stale' \subseteq Window
  BY WindowStepKeeps DEF WindowStep
<1>2. Live' = Live
  BY DEF Live
<1> QED BY <1>1, <1>2 DEF Books, References, Drawn

----------------------------------------------------------------------------
(* The inductive invariant.                                                 *)

\* A new manager has an empty set of books.
THEOREM InitBooks == Init => Books
<1> SUFFICES ASSUME Init PROVE Books
  OBVIOUS
<1>1. LiveIn(items) = {} /\ Live = {}
  BY DEF Init, LiveIn, Live
<1>2. Slots(items, free)
  BY <1>1, SlotAssumption DEF Init, Slots, Range
<1>3. Screen(win, surfaces, items)
  <2>1. win.windows = <<>> /\ win.window_monitors = <<>> /\ win.window_layers = <<>> /\ win.reverse_windows = <<>>
    BY DEF Init, NoWindows
  <2>2. win \in WindowTables
    <3>1. /\ <<>> \in Partial(Window, Slot) /\ <<>> \in Partial(Window, Output) /\ <<>> \in Partial(Window, Layer)
          /\ <<>> \in Partial(Slot, SUBSET Window)
      BY EmptyPartial
    <3>2. win = [windows |-> <<>>, window_monitors |-> <<>>, window_layers |-> <<>>, reverse_windows |-> <<>>]
      BY DEF Init, NoWindows
    <3> QED BY <3>1, <3>2 DEF WindowTables, Partial
  <2>3. Tracked(win) = {} /\ \A idx \in Slot : WindowsOf(win, idx) = {}
    BY <2>1, EmptyPartial DEF Tracked, WindowsOf
  <2>4. surfaces \in Partial(Window, Surface) /\ DOMAIN surfaces = {}
    BY EmptyPartial DEF Init
  <2> QED BY <2>1, <2>2, <2>3, <2>4, EmptyPartial DEF Screen
<1>4. References(Live) /\ Indexed(index, items) /\ Drawn
  BY DEF Init, References, Indexed, Drawn, NotRunning, AllDirty, Partial
<1> QED BY <1>2, <1>3, <1>4 DEF Books

\* Every operation, and every step of update()'s loop, keeps the invariant.
THEOREM NextBooks == Books /\ [Next]_vars => Books'
<1> SUFFICES ASSUME Books, [Next]_vars PROVE Books'
  OBVIOUS
<1>0. /\ Slots(items, free) /\ Screen(win, surfaces, items) /\ Indexed(index, items) /\ References(Live)
      /\ dirty_windows \in [all : BOOLEAN, set : SUBSET Window] /\ stale \subseteq Window /\ Live = LiveIn(items)
  BY LiveIs DEF Books, Drawn
<1>1. ASSUME NEW it \in Item, Register(it) PROVE Books'
  BY <1>1, RegisterKeeps
<1>2. ASSUME NEW id \in Id, Destroy(id) PROVE Books'
  <2>1. index[id] \in Live /\ DestroyIdx(index[id]) /\ DropFromIndex({id} \cup IdAt(index[id]))
    BY <1>0, <1>2 DEF Destroy, Indexed
  <2>2. loop.todo = {} /\ loop.pending_destroy = {} /\ UNCHANGED <<dirty_windows, loop, stale>>
    BY <1>2 DEF Destroy, Idle
  <2> QED BY <1>0, <2>1, <2>2, DestroyKeepsBooks
<1>3. ASSUME NEW list \in MonitorList, SyncMonitors(list) PROVE Books'
  BY <1>3, SyncMonitorsKeeps
<1>4. CASE Intialize
  <2>1. UNION {WindowsOf(win, idx) : idx \in uninitialized} \subseteq Window
    <3>1. \A idx \in uninitialized : idx \in Slot
      BY <1>0, SlotsAre DEF References
    <3> QED BY <1>0, <3>1, WindowsOfAre
  <2>2. dirty_windows' \in [all : BOOLEAN, set : SUBSET Window] /\ stale' \subseteq Window
    BY <1>0, <1>4, <2>1, MarkedWindows DEF Intialize
  <2> QED BY <1>0, <1>4, <2>2 DEF Intialize, Books, References, Drawn, Live
<1>5. CASE TakeDirtyWindows
  <2>1. dirty_windows' \in [all : BOOLEAN, set : SUBSET Window] /\ stale' \subseteq Window
    BY <1>0, <1>5 DEF TakeDirtyWindows
  <2> QED BY <1>0, <1>5, <2>1 DEF TakeDirtyWindows, Books, References, Drawn, Live
<1>6. ASSUME NEW it \in Item, NEW layer \in Layer, ReloadConfig(it, layer) PROVE Books'
  <2>1. dirty_windows' \in [all : BOOLEAN, set : SUBSET Window]
    BY <1>6 DEF ReloadConfig, AllDirty
  <2>2. stale' \subseteq Window
    BY <1>0, <1>6 DEF ReloadConfig, Screen, WindowTables, Tracked
  <2>3. layer_of' \in [Item -> Layer]
    BY <1>6 DEF ReloadConfig, Books, Drawn
  <2> QED BY <1>0, <1>6, <2>1, <2>2, <2>3 DEF ReloadConfig, Books, References, Drawn, Live
<1>7. ASSUME NEW event \in Event, Update(event) PROVE Books'
  <2>1. loop'.todo = Matching(event) /\ loop'.pending_destroy = {}
    BY <1>7, RunningIs DEF Update
  <2>2. Matching(event) \subseteq Live
    BY <1>0 DEF Matching, References
  <2> QED BY <1>0, <1>7, <2>1, <2>2 DEF Update, managed, Books, References, Drawn, Live
<1>8. ASSUME NEW effect \in ItemEffect, UpdateItem(effect) PROVE Books'
  <2>1. NextSlot \in loop.todo /\ NextSlot \in Live
    BY <1>0, <1>8, NextSlotIsThere DEF UpdateItem, References
  <2>2. CASE effect.kind = "ReallyDestroy"
    <3>1. loop' = Running(loop.event, loop.todo \ {NextSlot}, loop.pending_destroy \cup {NextSlot})
      BY <1>8, <2>2 DEF UpdateItem
    <3>2. loop'.todo \subseteq Live /\ loop'.pending_destroy \subseteq Live
      BY <1>0, <2>1, <3>1, RunningIs DEF References
    <3> QED BY <1>8, <2>1, <2>2, <3>2, NoWindowChangeKeepsBooks DEF UpdateItem
  <2>3. CASE effect.kind # "ReallyDestroy"
    <3>1. loop' = Running(loop.event, loop.todo \ {NextSlot}, loop.pending_destroy)
      BY <1>8, <2>3 DEF UpdateItem
    <3>2. loop'.todo \subseteq Live /\ loop'.pending_destroy \subseteq Live
      BY <1>0, <2>1, <3>1, RunningIs DEF References
    <3> QED BY <1>8, <2>1, <2>3, <3>2, EffectKeepsBooks DEF UpdateItem
  <2> QED BY <2>2, <2>3
<1>9. CASE UpdateSkip
  <2>1. loop'.todo \subseteq loop.todo /\ loop'.pending_destroy = loop.pending_destroy
    BY <1>9, RunningIs DEF UpdateSkip
  <2> QED BY <1>0, <1>9, <2>1 DEF UpdateSkip, managed, Books, References, Drawn, Live
<1>10. CASE UpdateDestroy
  <2>1. LastDoomed \in loop.pending_destroy /\ LastDoomed \in Live
    BY <1>0, <1>10, LastDoomedIsThere DEF UpdateDestroy, References
  <2>2. loop.todo = {} /\ loop'.todo = {} /\ loop'.pending_destroy = loop.pending_destroy \ {LastDoomed}
    BY <1>10, RunningIs DEF UpdateDestroy
  <2>3. DestroyIdx(LastDoomed) /\ DropFromIndex(IdAt(LastDoomed)) /\ UNCHANGED <<dirty_windows, stale>>
    BY <1>10 DEF UpdateDestroy
  <2> QED BY <1>0, <2>1, <2>2, <2>3, DestroyKeepsBooks
<1>11. ASSUME NEW id \in Window, NEW effect \in ItemEffect, HandleMessage(id, effect) PROVE Books'
  <2> DEFINE idx == win.windows[id]
             it == items[idx]
             doomed == index[IdOf[it]]
  <2>1. loop.todo = {} /\ loop.pending_destroy = {} /\ UNCHANGED loop /\ id \in Tracked(win)
    BY <1>11 DEF HandleMessage, Idle
  <2>2. idx \in Live
    BY <1>0, <2>1 DEF Screen
  <2>3. CASE effect.kind # "ReallyDestroy"
    <3>1. ApplyEffect(idx, effect)
      BY <1>11, <2>3 DEF HandleMessage
    <3> HIDE DEF idx
    <3> QED BY <2>1, <2>2, <3>1, EffectKeepsBooks
  <2>4. CASE effect.kind = "ReallyDestroy" /\ IdOf[it] \in DOMAIN index
    <3>1. /\ DestroyIdx(doomed) /\ DropFromIndex({IdOf[it]} \cup IdAt(doomed))
          /\ dirty_windows' = Ran(idx) /\ stale' = stale \cup WindowsOf(win, idx)
      BY <1>11, <2>4 DEF HandleMessage
    <3>2. doomed \in Live
      BY <1>0, <2>4 DEF Indexed
    <3>3. idx \in Slot
      BY <1>0, <2>2, SlotsAre
    <3> HIDE DEF idx
    <3>4. WindowsOf(win, idx) \subseteq Window
      BY <1>0, <3>3, WindowsOfAre
    <3>5. dirty_windows' \in [all : BOOLEAN, set : SUBSET Window] /\ stale' \subseteq Window
      BY <1>0, <3>1, <3>4, MarkedWindows DEF Ran, MarkItem
    <3> HIDE DEF it, doomed
    <3> QED BY <2>1, <3>1, <3>2, <3>5, DestroyKeepsBooks
  <2>5. CASE effect.kind = "ReallyDestroy" /\ IdOf[it] \notin DOMAIN index
    <3>1. NoWindowChange(idx) /\ UNCHANGED <<items, free, index, active, subscriptions, monitors, uninitialized, layer_of>>
      BY <1>11, <2>5 DEF HandleMessage
    <3> HIDE DEF idx
    <3> QED BY <2>1, <2>2, <3>1, NoWindowChangeKeepsBooks
  <2> QED BY <2>3, <2>4, <2>5
<1>12. CASE UNCHANGED vars
  BY <1>12 DEF vars, managed, Books, References, Drawn, Live
<1> QED BY <1>1, <1>2, <1>3, <1>4, <1>5, <1>6, <1>7, <1>8, <1>9, <1>10, <1>11, <1>12 DEF Next

\* What the runs check follows from the invariant.
LEMMA BooksGive ==
  ASSUME Books PROVE TypeOK /\ WindowTablesAgree /\ SlotsAreSound
<1>1. /\ Slots(items, free) /\ Screen(win, surfaces, items) /\ References(Live) /\ Indexed(index, items) /\ Drawn
      /\ Live = LiveIn(items)
  BY LiveIs DEF Books
<1>2. Live \subseteq Slot
  BY <1>1, SlotsAre
<1>3. TypeOK
  <2>1. items \in Seq(Item \cup {NoItem}) /\ Len(items) <= MaxSlots /\ free \in Seq(Slot)
    BY <1>1 DEF Slots
  <2>2. index \in UNION {[ids -> Slot] : ids \in SUBSET Id}
    BY <1>1 DEF Indexed, Partial
  <2>3. active \subseteq Slot /\ uninitialized \subseteq Slot /\ loop.todo \subseteq Slot /\ loop.pending_destroy \subseteq Slot
    BY <1>1, <1>2 DEF References
  <2>4. subscriptions \subseteq Filter \X Slot
    BY <1>1, <1>2 DEF References
  <2>5. win \in WindowTables
    BY <1>1 DEF Screen
  <2>6. surfaces \in UNION {[ids -> [item : Item, monitor : Output, layer : Layer]] : ids \in SUBSET Window}
    BY <1>1 DEF Screen, Partial, Surface
  <2> QED BY <1>1, <2>1, <2>2, <2>3, <2>4, <2>5, <2>6 DEF TypeOK, Drawn
<1>4. WindowTablesAgree
  BY <1>1 DEF Screen, WindowTablesAgree
<1>5. SurfacesKeepTheirItem
  BY <1>1 DEF Screen, SurfacesKeepTheirItem, SurfaceOf
<1>6. FreeListExact
  BY <1>1 DEF Slots, FreeListExact
<1>7. OnlyLiveSlotsReferenced
  <2>1. {s[2] : s \in subscriptions} \subseteq Live
    BY <1>1 DEF References
  <2>2. Range(win.windows) \subseteq Live /\ DOMAIN win.reverse_windows \subseteq Live
    BY <1>1 DEF Screen, Tracked, Range
  <2> QED BY <1>1, <2>1, <2>2 DEF References, OnlyLiveSlotsReferenced
<1>8. IndexSound
  BY <1>1 DEF Indexed, IndexSound
<1> QED BY <1>3, <1>4, <1>5, <1>6, <1>7, <1>8 DEF SlotsAreSound

\* Through every order of commands, effects and outputs the inductive invariant holds.
THEOREM SpecBooks == Spec => []Books
<1>1. Init => Books
  BY InitBooks
<1>2. Books /\ [Next]_vars => Books'
  BY NextBooks
<1> QED BY <1>1, <1>2, PTL DEF Spec

\* The variables of the manager have their types.
THEOREM SpecTypeOK == Spec => []TypeOK
<1>1. Books => TypeOK
  BY BooksGive
<1> QED BY <1>1, SpecBooks, PTL

\* Slots freed and taken again mix nothing up.
THEOREM SpecSlotsAreSound == Spec => []SlotsAreSound
<1>1. Books => SlotsAreSound
  BY BooksGive
<1> QED BY <1>1, SpecBooks, PTL

----------------------------------------------------------------------------
(* The five things a step may do to the items and their windows.            *)

\* Nothing that the tables and the slots depend on changes.
Quiet == UNCHANGED <<items, free, index, active, win, surfaces, monitors>>

\* An item is registered.
Registers == \E it \in Item, idx \in Slot : Registered(it, idx) /\ it \notin Range(items) /\ UNCHANGED monitors

\* The outputs change.
Resyncs == (\E list \in MonitorList : SyncMonitors(list)) /\ UNCHANGED <<items, free, index, active>>

\* What an effect makes of `active`, seen beside what it does to the windows.
Activates(idx) ==
  /\ active \ {idx} \subseteq active'
  /\ \/ Close(idx)
     \/ idx \in active'
     \/ NoWindowChange(idx) /\ (idx \notin active \/ VisibilityOf[items[idx]] # "Transient")

\* Item code ran, and its effect is applied.
Acts ==
  \E idx \in Live : WindowStep(idx) /\ Activates(idx) /\ UNCHANGED <<items, free, index, monitors>>

\* An item leaves its slot.
Destroys == \E idx \in Live : DestroyIdx(idx) /\ DropFromIndex(IdAt(idx))

\* An item that is made inactive and is transient has its windows closed.
LEMMA EffectActivates ==
  ASSUME NEW idx, NEW effect \in ItemEffect, ApplyEffect(idx, effect)
  PROVE  Activates(idx)
<1>1. CASE effect.kind \in {"None", "Redraw", "UpdateWindow"}
  BY <1>1 DEF ApplyEffect, Activates
<1>2. CASE effect.kind = "Show"
  <2>1. Show(idx)
    BY <1>2 DEF ApplyEffect
  <2> QED BY <2>1 DEF Activates, Show
<1>3. CASE effect.kind = "ShowAndSubscribe"
  <2>1. ShowAndSubscribe(idx, effect.filters)
    BY <1>3 DEF ApplyEffect
  <2> QED BY <2>1 DEF Activates, ShowAndSubscribe
<1>4. CASE effect.kind \in {"Hide", "ReallyHide"}
  <2>1. Hide(idx, FALSE) \/ Hide(idx, TRUE)
    BY <1>4 DEF ApplyEffect
  <2> QED BY <2>1 DEF Activates, Hide
<1>5. CASE effect.kind = "Destroy"
  <2>1. Silence(idx)
    BY <1>5 DEF ApplyEffect
  <2> QED BY <2>1 DEF Activates, Silence
<1>6. CASE effect.kind = "Subscribe"
  <2>1. Subscribe(idx, effect.filters)
    BY <1>6 DEF ApplyEffect
  <2> QED BY <2>1 DEF Activates, Subscribe
<1> QED BY <1>1, <1>2, <1>3, <1>4, <1>5, <1>6 DEF ApplyEffect

\* apply_effect() acts on one slot only ...
LEMMA EffectActs ==
  ASSUME NEW idx \in Live, NEW effect \in ItemEffect, ApplyEffect(idx, effect)
  PROVE  Acts
<1>1. WindowStep(idx) /\ UNCHANGED <<items, free, index, monitors>>
  BY EffectSteps
<1> QED BY <1>1, EffectActivates DEF Acts

\* ... and so does an item that asks for nothing.
LEMMA NoWindowChangeActs ==
  ASSUME NEW idx \in Live, NoWindowChange(idx), UNCHANGED <<items, free, index, active, monitors>>
  PROVE  Acts
BY DEF Acts, Activates, WindowStep

\* Each step is one of the five.
LEMMA StepKinds ==
  ASSUME Books, [Next]_vars PROVE Quiet \/ Registers \/ Resyncs \/ Acts \/ Destroys
<1>0. /\ Slots(items, free) /\ Screen(win, surfaces, items) /\ Indexed(index, items) /\ References(Live)
      /\ Live = LiveIn(items)
  BY LiveIs DEF Books
<1>1. ASSUME NEW it \in Item, Register(it) PROVE Registers
  <2>1. it \notin Range(items) /\ UNCHANGED monitors
    BY <1>1 DEF Register
  <2> QED BY <1>0, <1>1, <2>1, RegisterTakes DEF Registers
<1>2. ASSUME NEW id \in Id, Destroy(id) PROVE Destroys
  <2>1. index[id] \in Live /\ IdOf[items[index[id]]] = id /\ DestroyIdx(index[id]) /\ DropFromIndex({id} \cup IdAt(index[id]))
    BY <1>0, <1>2 DEF Destroy, Indexed
  <2>2. {id} \cup IdAt(index[id]) = IdAt(index[id])
    BY <1>0, <2>1 DEF IdAt, LiveIn
  <2> QED BY <2>1, <2>2 DEF Destroys
<1>3. ASSUME NEW list \in MonitorList, SyncMonitors(list) PROVE Resyncs
  BY <1>3 DEF Resyncs, SyncMonitors
<1>4. CASE Intialize \/ TakeDirtyWindows \/ UpdateSkip \/ UNCHANGED vars
  BY <1>4 DEF Quiet, Intialize, TakeDirtyWindows, UpdateSkip, vars, managed
<1>5. ASSUME NEW it \in Item, NEW layer \in Layer, ReloadConfig(it, layer) PROVE Quiet
  BY <1>5 DEF Quiet, ReloadConfig
<1>6. ASSUME NEW event \in Event, Update(event) PROVE Quiet
  BY <1>6 DEF Quiet, Update, managed
<1>7. ASSUME NEW effect \in ItemEffect, UpdateItem(effect) PROVE Acts
  <2>1. NextSlot \in Live
    BY <1>0, <1>7, NextSlotIsThere DEF UpdateItem, References
  <2>2. CASE effect.kind = "ReallyDestroy"
    BY <1>7, <2>1, <2>2, NoWindowChangeActs DEF UpdateItem
  <2>3. CASE effect.kind # "ReallyDestroy"
    BY <1>7, <2>1, <2>3, EffectActs DEF UpdateItem
  <2> QED BY <2>2, <2>3
<1>8. CASE UpdateDestroy
  BY <1>0, <1>8, LastDoomedIsThere DEF UpdateDestroy, References, Destroys
<1>9. ASSUME NEW id \in Window, NEW effect \in ItemEffect, HandleMessage(id, effect) PROVE Acts \/ Destroys
  <2> DEFINE idx == win.windows[id]
             it == items[idx]
             doomed == index[IdOf[it]]
  <2>1. id \in Tracked(win)
    BY <1>9 DEF HandleMessage
  <2>2. idx \in Live
    BY <1>0, <2>1 DEF Screen
  <2>3. CASE effect.kind # "ReallyDestroy"
    <3>1. ApplyEffect(idx, effect)
      BY <1>9, <2>3 DEF HandleMessage
    <3> HIDE DEF idx
    <3> QED BY <2>2, <3>1, EffectActs
  <2>4. CASE effect.kind = "ReallyDestroy" /\ IdOf[it] \in DOMAIN index
    <3>1. DestroyIdx(doomed) /\ DropFromIndex({IdOf[it]} \cup IdAt(doomed))
      BY <1>9, <2>4 DEF HandleMessage
    <3>2. doomed \in Live /\ IdOf[items[doomed]] = IdOf[it]
      BY <1>0, <2>4 DEF Indexed
    <3> HIDE DEF doomed, it
    <3>3. {IdOf[it]} \cup IdAt(doomed) = IdAt(doomed)
      BY <1>0, <3>2 DEF IdAt, LiveIn
    <3> QED BY <3>1, <3>2, <3>3 DEF Destroys
  <2>5. CASE effect.kind = "ReallyDestroy" /\ IdOf[it] \notin DOMAIN index
    <3>1. NoWindowChange(idx) /\ UNCHANGED <<items, free, index, active, monitors>>
      BY <1>9, <2>5 DEF HandleMessage
    <3> HIDE DEF idx
    <3> QED BY <2>2, <3>1, NoWindowChangeActs
  <2> QED BY <2>3, <2>4, <2>5
<1> QED BY <1>1, <1>2, <1>3, <1>4, <1>5, <1>6, <1>7, <1>8, <1>9 DEF Next

\* What an effect does to the windows of its slot, and that it leaves those of
\* the other slots alone.
Stays ==
  /\ win'.windows = win.windows /\ win'.window_monitors = win.window_monitors
  /\ win'.reverse_windows = win.reverse_windows
  /\ DOMAIN surfaces' = DOMAIN surfaces

OpensFor(idx) ==
  /\ ~HasWindowEntry(idx) /\ Opens(win', win, {idx} \X LaunchOutputs(items[idx]))
  /\ DOMAIN surfaces \subseteq DOMAIN surfaces'

Closes(idx) ==
  /\ Keeps(win', win, WindowsOf(win, idx)) /\ Vacated(win', idx)
  /\ DOMAIN surfaces' = DOMAIN surfaces \ WindowsOf(win, idx)

Reshapes(idx) == Stays \/ OpensFor(idx) \/ Closes(idx)

\* close_item_windows() takes the windows of the slot and no others.
LEMMA ClosesIts ==
  ASSUME Books, NEW idx \in Live, Close(idx) PROVE Closes(idx)
<1>1. Screen(win, surfaces, items) /\ idx \in Slot
  BY LiveIs, SlotsAre DEF Books
<1>2. win' = CloseItem(win, idx) /\ surfaces' = Restrict(surfaces, DOMAIN surfaces \ WindowsOf(win, idx))
  BY DEF Close, Closed
<1>3. Keeps(win', win, WindowsOf(win, idx)) /\ Vacated(win', idx)
  BY <1>1, <1>2, ClosedScreen, Zenon
<1> QED BY <1>2, <1>3 DEF Restrict, Closes

\* Every effect does one of the three things.
LEMMA StepReshapes ==
  ASSUME Books, NEW idx \in Live, WindowStep(idx)
  PROVE  Reshapes(idx)
<1>1. /\ Slots(items, free) /\ Screen(win, surfaces, items) /\ idx \in LiveIn(items) /\ layer_of \in [Item -> Layer]
      /\ monitors \in Seq(Monitor)
  BY LiveIs DEF Books, Drawn
<1>2. idx \in Slot /\ items[idx] \in Item
  BY <1>1, SlotsAre
<1>3. CASE NoWindowChange(idx)
  BY <1>3 DEF NoWindowChange, Reshapes, Stays
<1>4. CASE ~HasWindowEntry(idx) /\ OpenAll(idx)
  <2> DEFINE places == {idx} \X LaunchOutputs(items[idx])
  <2>1. PICK new \in Allocations(places) : win' = Launch(win, new, items) /\ surfaces' = Opened(new, items)
    BY <1>4 DEF OpenAll
  <2>2. LaunchOutputs(items[idx]) \subseteq Output
    BY <1>1, <1>2, OutputsAre
  <2>3. places \subseteq LiveIn(items) \X Output
    BY <1>1, <2>2
  <2> HIDE DEF places
  <2>4. Opens(win', win, places)
    BY <1>1, <2>1, <2>3, LaunchOpens, Zenon
  <2>5. DOMAIN surfaces \subseteq DOMAIN surfaces'
    BY <2>1 DEF Opened, Inserted
  <2> QED BY <1>4, <2>4, <2>5 DEF Reshapes, OpensFor, places
<1>5. CASE Synced(idx)
  <2>1. win' = SyncLayers(win, idx) /\ surfaces' = Relayered(idx)
    BY <1>5 DEF Synced
  <2>2. /\ win'.windows = win.windows /\ win'.window_monitors = win.window_monitors
        /\ win'.reverse_windows = win.reverse_windows /\ DOMAIN Relayered(idx) = DOMAIN surfaces
    BY <1>1, <1>2, <2>1, SyncedScreen
  <2> QED BY <2>1, <2>2 DEF Reshapes, Stays
<1>6. CASE Close(idx)
  BY <1>6, ClosesIts DEF Reshapes
<1> QED BY <1>3, <1>4, <1>5, <1>6 DEF WindowStep

\* A slot that no table mentions has no windows.
LEMMA VacatedSlot ==
  ASSUME NEW v, NEW idx, Vacated(v, idx) PROVE WindowsOf(v, idx) = {}
BY DEF Vacated, WindowsOf

\* The windows of the other slots stay when those of one are closed.
LEMMA KeptWindows ==
  ASSUME NEW w, NEW s, NEW at, NEW v, NEW s2, NEW at2, Screen(w, s, at), Screen(v, s2, at2),
         NEW idx \in Slot, NEW i \in Slot \ {idx}, Keeps(v, w, WindowsOf(w, idx))
  PROVE  WindowsOf(v, i) = WindowsOf(w, i)
<1>1. /\ WindowsOf(w, i) \subseteq Tracked(w)
      /\ \A id \in Tracked(w) : id \in WindowsOf(w, i) <=> w.windows[id] = i
  BY WindowsOfAre
<1>2. /\ WindowsOf(v, i) \subseteq Tracked(v)
      /\ \A id \in Tracked(v) : id \in WindowsOf(v, i) <=> v.windows[id] = i
  BY WindowsOfAre
<1>3. \A id \in Tracked(w) : id \in WindowsOf(w, idx) <=> w.windows[id] = idx
  BY WindowsOfAre
<1> QED BY <1>1, <1>2, <1>3 DEF Keeps

----------------------------------------------------------------------------
(* What closes a window, and what a slot loses with its item.               *)

\* What one step closes belongs to one item, unless its output is gone.
LEMMA StepClosesOwn ==
  ASSUME Books, [Next]_vars
  PROVE  \A id \in DOMAIN surfaces \ DOMAIN surfaces' :
           \/ monitors' # monitors /\ surfaces[id].monitor \notin Range(monitors')
           \/ \A other \in DOMAIN surfaces \ DOMAIN surfaces' : surfaces[other].item = surfaces[id].item
<1> SUFFICES ASSUME NEW id \in DOMAIN surfaces \ DOMAIN surfaces'
    PROVE  \/ monitors' # monitors /\ surfaces[id].monitor \notin Range(monitors')
           \/ \A other \in DOMAIN surfaces \ DOMAIN surfaces' : surfaces[other].item = surfaces[id].item
  OBVIOUS
<1>1. Slots(items, free) /\ Screen(win, surfaces, items) /\ Live = LiveIn(items) /\ Live \subseteq Slot
  BY LiveIs, SlotsAre DEF Books
<1>2. ASSUME NEW idx \in Live, DOMAIN surfaces' = DOMAIN surfaces \ WindowsOf(win, idx)
      PROVE  \A other \in DOMAIN surfaces \ DOMAIN surfaces' : surfaces[other].item = items[idx]
  <2>1. SUFFICES ASSUME NEW other \in WindowsOf(win, idx), other \in DOMAIN surfaces
        PROVE  surfaces[other].item = items[idx]
    BY <1>2
  <2>2. win.windows[other] = idx /\ other \in Tracked(win)
    BY <1>1, <2>1, WindowsOfAre
  <2> QED BY <1>1, <2>2 DEF Screen, SurfaceOf
<1>3. CASE Quiet
  BY <1>3 DEF Quiet
<1>4. CASE Registers
  <2>1. PICK it \in Item, idx \in Slot : Registered(it, idx)
    BY <1>4 DEF Registers
  <2>2. DOMAIN surfaces \subseteq DOMAIN surfaces'
    BY <2>1 DEF Registered, Opened, Inserted
  <2> QED BY <2>2
<1>5. CASE Resyncs
  <2>1. PICK list \in MonitorList : SyncMonitors(list)
    BY <1>5 DEF Resyncs
  <2> DEFINE gone == Range(monitors) \ Range(list)
  <2>2. monitors' = list /\ Range(list) # Range(monitors)
    BY <2>1 DEF SyncMonitors
  <2>3. PICK new : surfaces' = Restrict(Opened(new, items), (DOMAIN surfaces \ OnOutputs(win, gone)) \cup DOMAIN new)
    BY <2>1 DEF SyncMonitors
  <2>4. id \in OnOutputs(win, gone)
    BY <2>3 DEF Restrict
  <2>5. surfaces[id].monitor = win.window_monitors[id]
    BY <1>1 DEF Screen, SurfaceOf
  <2> QED BY <2>2, <2>4, <2>5 DEF OnOutputs
<1>6. CASE Acts
  <2>1. PICK idx \in Live : WindowStep(idx) /\ UNCHANGED items
    BY <1>6 DEF Acts
  <2>2. Reshapes(idx)
    BY <2>1, StepReshapes
  <2>3. DOMAIN surfaces \subseteq DOMAIN surfaces' \/ DOMAIN surfaces' = DOMAIN surfaces \ WindowsOf(win, idx)
    BY <2>2 DEF Reshapes, Stays, OpensFor, Closes
  <2> QED BY <1>2, <2>1, <2>3
<1>7. CASE Destroys
  <2>1. PICK idx \in Live : DestroyIdx(idx)
    BY <1>7 DEF Destroys
  <2>2. DOMAIN surfaces' = DOMAIN surfaces \ WindowsOf(win, idx)
    BY <2>1 DEF DestroyIdx, Closed, Restrict
  <2> QED BY <1>2, <2>2
<1> QED BY <1>3, <1>4, <1>5, <1>6, <1>7, StepKinds

\* A window only disappears while its output is there because its own item closed it.
THEOREM SpecCloseOnlyOwn == Spec => CloseOnlyOwn
BY SpecBooks, StepClosesOwn, PTL DEF Spec, CloseOnlyOwn

\* A step that takes an item out of its slot takes out all it had.
LEMMA StepDestroysAll ==
  ASSUME Books, [Next]_vars
  PROVE  \A idx \in Live : items'[idx] # items[idx] =>
           /\ items'[idx] = NoItem
           /\ \A id \in DOMAIN surfaces' : surfaces'[id].item # items[idx]
           /\ \A f \in Filter : <<f, idx>> \notin subscriptions'
           /\ \A id \in DOMAIN index' : index'[id] # idx
<1> SUFFICES ASSUME NEW idx \in Live, items'[idx] # items[idx]
    PROVE  /\ items'[idx] = NoItem
           /\ \A id \in DOMAIN surfaces' : surfaces'[id].item # items[idx]
           /\ \A f \in Filter : <<f, idx>> \notin subscriptions'
           /\ \A id \in DOMAIN index' : index'[id] # idx
  OBVIOUS
<1>1. Slots(items, free) /\ Live = LiveIn(items)
  BY LiveIs DEF Books
<1>2. CASE Quiet \/ Resyncs \/ Acts
  BY <1>2 DEF Quiet, Resyncs, Acts
<1>3. CASE Registers
  BY <1>1, <1>3 DEF Registers, Registered, Taken
<1>4. CASE Destroys
  <2>1. PICK gone \in Live : DestroyIdx(gone) /\ DropFromIndex(IdAt(gone))
    BY <1>4 DEF Destroys
  <2>2. /\ Live' = Live \ {gone} /\ \A i \in Live' : items'[i] = items[i]
        /\ items'[gone] = NoItem /\ Screen(win', surfaces', items') /\ Indexed(index', items')
        /\ subscriptions' \subseteq Filter \X Live'
    BY <2>1, DestroyKeeps
  <2>3. idx = gone
    BY <2>2
  <2>4. LiveIn(items') = Live'
    BY DEF LiveIn, Live
  <2>5. ASSUME NEW id \in DOMAIN surfaces' PROVE surfaces'[id].item # items[idx]
    <3>1. id \in Tracked(win') /\ win'.windows[id] \in Live' /\ surfaces'[id].item = items'[win'.windows[id]]
      BY <2>2, <2>4 DEF Screen, SurfaceOf
    <3>2. \A i \in Live : items[i] = items[idx] => i = idx
      BY <1>1 DEF Slots
    <3> QED BY <2>2, <2>3, <3>1, <3>2
  <2>6. \A id \in DOMAIN index' : index'[id] # idx
    BY <2>2, <2>3, <2>4 DEF Indexed
  <2> QED BY <2>2, <2>3, <2>5, <2>6
<1> QED BY <1>2, <1>3, <1>4, StepKinds

\* A slot changes its item only by being empty in between, and nothing is inherited.
THEOREM SpecDestroyLeavesNothing == Spec => DestroyLeavesNothing
BY SpecBooks, StepDestroysAll, PTL DEF Spec, DestroyLeavesNothing

----------------------------------------------------------------------------
(* Every item can be found by its id, and a hidden transient item has no    *)
(* window.                                                                  *)

\* Item ids are the caller's business: register() refuses none.
DistinctIds == \A a, b \in Item : IdOf[a] = IdOf[b] => a = b

\* An effect leaves the windows of the other slots alone.
LEMMA OtherWindows ==
  ASSUME Books, Books', NEW idx \in Live, Reshapes(idx), NEW i \in Slot \ {idx}
  PROVE  WindowsOf(win', i) = WindowsOf(win, i)
<1>1. Screen(win, surfaces, items) /\ Screen(win', surfaces', items') /\ idx \in Slot
  BY LiveIs, SlotsAre DEF Books
<1>2. CASE Stays
  BY <1>2 DEF Stays, WindowsOf
<1>3. CASE OpensFor(idx)
  <2> DEFINE places == {idx} \X LaunchOutputs(items[idx])
  <2>1. \A p \in places : p[1] # i
    OBVIOUS
  <2>2. Opens(win', win, places)
    BY <1>3 DEF OpensFor
  <2> HIDE DEF places
  <2> QED BY <1>1, <2>1, <2>2, OpenedElsewhere
<1>4. CASE Closes(idx)
  BY <1>1, <1>4, KeptWindows DEF Closes
<1> QED BY <1>2, <1>3, <1>4 DEF Reshapes

\* register() keeps both: the id is new, and so are the windows of the slot.
LEMMA RegistersShown ==
  ASSUME DistinctIds, Books, Books', IndexComplete, HiddenTransientHasNoWindow, Registers
  PROVE  IndexComplete' /\ HiddenTransientHasNoWindow'
<1>1. PICK it \in Item, idx \in Slot : Registered(it, idx) /\ it \notin Range(items)
  BY DEF Registers
<1>2. /\ idx \notin LiveIn(items) /\ items'[idx] = it /\ LiveIn(items') = LiveIn(items) \cup {idx}
      /\ \A i \in LiveIn(items) : items'[i] = items[i]
  BY <1>1 DEF Registered, Taken
<1>3. Live = LiveIn(items) /\ Live' = LiveIn(items') /\ \A i \in LiveIn(items) : items[i] \in Item /\ items[i] \in Range(items)
  BY LiveIs, SlotsAre DEF Books, Live, LiveIn, Range
<1>4. /\ Screen(win, surfaces, items) /\ Screen(win', surfaces', items') /\ Opens(win', win, RegisterPlaces(it, idx))
  BY <1>1, RegisterOpens DEF Books
<1>5. index' = Inserted(index, [id \in {IdOf[it]} |-> idx]) /\ active \subseteq active'
      /\ (VisibilityOf[it] = "Visible" => idx \in active')
  BY <1>1 DEF Registered
<1>6. /\ DOMAIN index' = DOMAIN index \cup {IdOf[it]}
      /\ index'[IdOf[it]] = idx
      /\ \A id \in DOMAIN index \ {IdOf[it]} : index'[id] = index[id]
  BY <1>5 DEF Inserted
<1>7. ASSUME NEW i \in Live'
      PROVE  IdOf[items'[i]] \in DOMAIN index' /\ index'[IdOf[items'[i]]] = i
  <2>1. CASE i = idx
    BY <1>2, <1>6, <2>1
  <2>2. CASE i \in Live
    <3>1. IdOf[items[i]] # IdOf[it]
      BY <1>1, <1>3, <2>2 DEF DistinctIds
    <3> QED BY <1>2, <1>3, <1>6, <2>2, <3>1 DEF IndexComplete
  <2> QED BY <1>2, <1>3, <2>1, <2>2
<1>8. ASSUME NEW i \in Live', VisibilityOf[items'[i]] = "Transient", i \notin active'
      PROVE  WindowsOf(win', i) = {}
  <2>1. i \in Slot
    BY <1>3, SlotsAre DEF Books
  <2>2. CASE i = idx
    <3>1. VisibilityOf[it] = "Transient"
      BY <1>2, <1>8, <2>2
    <3>2. RegisterPlaces(it, idx) = {}
      BY <3>1 DEF RegisterPlaces
    <3>3. WindowsOf(win', i) = WindowsOf(win, i)
      BY <1>4, <2>1, <3>2, OpenedElsewhere
    <3>4. \A id \in Tracked(win) : win.windows[id] # i
      BY <1>2, <1>4, <2>2 DEF Screen
    <3>5. /\ WindowsOf(win, i) \subseteq Tracked(win)
          /\ \A id \in Tracked(win) : id \in WindowsOf(win, i) <=> win.windows[id] = i
      BY <1>4, <2>1, WindowsOfAre
    <3> QED BY <3>3, <3>4, <3>5
  <2>3. CASE i \in Live
    <3>1. WindowsOf(win, i) = {}
      BY <1>2, <1>3, <1>5, <1>8, <2>3 DEF HiddenTransientHasNoWindow
    <3>2. \A p \in RegisterPlaces(it, idx) : p[1] # i
      BY <1>2, <1>3, <2>3 DEF RegisterPlaces
    <3> QED BY <1>4, <2>1, <3>1, <3>2, OpenedElsewhere
  <2> QED BY <1>2, <1>3, <2>2, <2>3
<1> QED BY <1>7, <1>8 DEF IndexComplete, HiddenTransientHasNoWindow

\* sync_monitors() opens nothing for a transient item.
LEMMA ResyncsShown ==
  ASSUME Books, Books', IndexComplete, HiddenTransientHasNoWindow, Resyncs
  PROVE  IndexComplete' /\ HiddenTransientHasNoWindow'
<1>1. PICK list \in MonitorList : SyncMonitors(list)
  BY DEF Resyncs
<1>2. UNCHANGED <<items, free, index, active>>
  BY DEF Resyncs
<1>3. PICK kept : Resynced(kept, list)
  BY <1>1, SyncMonitorsOpens
<1>4. PICK left : Screen(kept, left, items)
  BY <1>3 DEF Resynced
<1>5. Screen(win, surfaces, items) /\ Screen(win', surfaces', items') /\ Opens(win', kept, AddedWindows(kept, list))
  BY <1>3 DEF Books, Resynced
<1>6. Tracked(kept) \subseteq Tracked(win) /\ \A id \in Tracked(kept) : kept.windows[id] = win.windows[id]
  BY <1>3 DEF Resynced, Keeps
<1>7. ASSUME NEW i \in Live, VisibilityOf[items[i]] = "Transient", i \notin active
      PROVE  WindowsOf(win', i) = {}
  <2>1. i \in Slot /\ WindowsOf(win, i) = {}
    BY <1>7, LiveIs, SlotsAre DEF Books, HiddenTransientHasNoWindow
  <2>2. \A p \in AddedWindows(kept, list) : p[1] # i
    BY <1>7 DEF AddedWindows
  <2>3. WindowsOf(win', i) = WindowsOf(kept, i)
    BY <1>4, <1>5, <2>1, <2>2, OpenedElsewhere
  <2>4. /\ WindowsOf(kept, i) \subseteq Tracked(kept)
        /\ \A id \in Tracked(kept) : id \in WindowsOf(kept, i) <=> kept.windows[id] = i
    BY <1>4, <2>1, WindowsOfAre
  <2>5. \A id \in Tracked(win) : id \in WindowsOf(win, i) <=> win.windows[id] = i
    BY <1>5, <2>1, WindowsOfAre
  <2> QED BY <1>6, <2>1, <2>3, <2>4, <2>5
<1> QED BY <1>2, <1>7 DEF IndexComplete, HiddenTransientHasNoWindow, Live

\* An effect keeps both: hiding a transient item closes its windows.
LEMMA ActsShown ==
  ASSUME Books, Books', IndexComplete, HiddenTransientHasNoWindow, Acts
  PROVE  IndexComplete' /\ HiddenTransientHasNoWindow'
<1>1. PICK idx \in Live : WindowStep(idx) /\ Activates(idx) /\ UNCHANGED <<items, free, index, monitors>>
  BY DEF Acts
<1>2. ASSUME NEW i \in Live, VisibilityOf[items[i]] = "Transient", i \notin active'
      PROVE  WindowsOf(win', i) = {}
  <2>1. i \in Slot
    BY LiveIs, SlotsAre DEF Books
  <2>2. CASE i # idx
    <3>1. i \notin active
      BY <1>1, <1>2, <2>2 DEF Activates
    <3>2. WindowsOf(win, i) = {}
      BY <1>2, <3>1 DEF HiddenTransientHasNoWindow
    <3>3. Reshapes(idx)
      BY <1>1, StepReshapes
    <3> QED BY <2>1, <2>2, <3>2, <3>3, OtherWindows
  <2>3. CASE i = idx /\ Close(idx)
    <3>1. Vacated(win', i)
      BY <2>3, ClosesIts DEF Closes
    <3> QED BY <3>1, VacatedSlot
  <2>4. CASE i = idx /\ NoWindowChange(idx) /\ idx \notin active
    <3>1. WindowsOf(win, i) = {}
      BY <1>2, <2>4 DEF HiddenTransientHasNoWindow
    <3> QED BY <2>4, <3>1 DEF NoWindowChange, WindowsOf
  <2> QED BY <1>1, <1>2, <2>2, <2>3, <2>4 DEF Activates
<1> QED BY <1>1, <1>2 DEF IndexComplete, HiddenTransientHasNoWindow, Live

\* destroy_idx() keeps both: only the id of the slot leaves the index.
LEMMA DestroysShown ==
  ASSUME Books, Books', IndexComplete, HiddenTransientHasNoWindow, Destroys
  PROVE  IndexComplete' /\ HiddenTransientHasNoWindow'
<1>1. PICK idx \in Live : DestroyIdx(idx) /\ DropFromIndex(IdAt(idx))
  BY DEF Destroys
<1>2. /\ Live' = Live \ {idx} /\ \A i \in Live' : items'[i] = items[i]
      /\ Screen(win', surfaces', items') /\ Keeps(win', win, WindowsOf(win, idx))
  BY <1>1, DestroyKeeps
<1>3. /\ index' = Restrict(index, DOMAIN index \ {IdOf[items[idx]]})
      /\ active' = active \ {idx}
  BY <1>1 DEF DestroyIdx, DropFromIndex, IdAt, Live
<1>4. ASSUME NEW i \in Live' PROVE IdOf[items'[i]] \in DOMAIN index' /\ index'[IdOf[items'[i]]] = i
  <2>1. i \in Live /\ i # idx /\ items'[i] = items[i]
    BY <1>2
  <2>2. IdOf[items[i]] \in DOMAIN index /\ index[IdOf[items[i]]] = i /\ index[IdOf[items[idx]]] = idx
    BY <2>1 DEF IndexComplete
  <2>3. IdOf[items[i]] \in DOMAIN index \ {IdOf[items[idx]]}
    BY <2>1, <2>2
  <2> QED BY <1>3, <2>1, <2>2, <2>3 DEF Restrict
<1>5. ASSUME NEW i \in Live', VisibilityOf[items'[i]] = "Transient", i \notin active'
      PROVE  WindowsOf(win', i) = {}
  <2>1. i \in Live /\ i # idx /\ items'[i] = items[i] /\ i \notin active
    BY <1>2, <1>3, <1>5
  <2>2. WindowsOf(win, i) = {}
    BY <1>5, <2>1 DEF HiddenTransientHasNoWindow
  <2>3. Screen(win, surfaces, items) /\ idx \in Slot /\ i \in Slot
    BY <2>1, LiveIs, SlotsAre DEF Books
  <2> QED BY <1>2, <2>1, <2>2, <2>3, KeptWindows
<1> QED BY <1>4, <1>5 DEF IndexComplete, HiddenTransientHasNoWindow

\* The tables agree, in every order of commands, drawings and outputs.
THEOREM SpecTablesAgree ==
  ASSUME DistinctIds PROVE Spec => []TablesAgree
<1> DEFINE Inv == Books /\ IndexComplete /\ HiddenTransientHasNoWindow
<1>1. Init => Inv
  <2>1. Init => Live = {}
    BY DEF Init, Live
  <2> QED BY <2>1, InitBooks DEF IndexComplete, HiddenTransientHasNoWindow
<1>2. Inv /\ [Next]_vars => Inv'
  <2> SUFFICES ASSUME Inv, [Next]_vars PROVE Inv'
    OBVIOUS
  <2>1. Books'
    BY NextBooks
  <2>2. CASE Quiet
    <3>1. IndexComplete' /\ HiddenTransientHasNoWindow'
      BY <2>2 DEF Quiet, IndexComplete, HiddenTransientHasNoWindow, Live
    <3> QED BY <2>1, <3>1
  <2> QED BY <2>1, <2>2, StepKinds, RegistersShown, ResyncsShown, ActsShown, DestroysShown
<1>3. Inv => TablesAgree
  BY BooksGive DEF TablesAgree
<1> HIDE DEF Inv
<1> QED BY <1>1, <1>2, <1>3, PTL DEF Spec

----------------------------------------------------------------------------
(* What is stale is due for redrawing.                                      *)

\* Item code ran for the windows in `ids`, or they were opened, and they are marked.
Covers(ids) ==
  /\ dirty_windows.all => dirty_windows'.all
  /\ dirty_windows'.all \/ dirty_windows.set \cup ids \subseteq dirty_windows'.set
  /\ stale' \subseteq stale \cup ids
  /\ Tracked(win') \subseteq Tracked(win) \cup ids

\* A step that marks what it touches keeps the property.
LEMMA CoversKeep ==
  ASSUME NEW ids, Covers(ids), DirtyCoversStale PROVE DirtyCoversStale'
BY DEF Covers, DirtyCoversStale

\* Marked windows are due, by name or because everything is.
LEMMA Marked ==
  ASSUME NEW d \in [all : BOOLEAN, set : SUBSET Window], NEW ids
  PROVE  /\ d.all => MarkWindows(d, ids).all
         /\ d.set \cup ids \subseteq MarkWindows(d, ids).set \/ MarkWindows(d, ids).all
BY DEF MarkWindows

\* launch() tracks the windows it opens ...
LEMMA TrackedLaunch ==
  ASSUME NEW w, NEW new, NEW at PROVE Tracked(Launch(w, new, at)) = Tracked(w) \cup DOMAIN new
BY DEF Launch, Inserted, Tracked

\* ... close_item_windows() tracks no new one ...
LEMMA TrackedClosed ==
  ASSUME NEW w, NEW idx PROVE Tracked(CloseItem(w, idx)) \subseteq Tracked(w)
BY DEF CloseItem, Forget, Restrict, Tracked

\* ... and sync_window_layers() tracks those there were.
LEMMA TrackedSynced ==
  ASSUME win \in WindowTables, NEW idx PROVE Tracked(SyncLayers(win, idx)) = Tracked(win)
BY DEF SyncLayers, WindowTables, Tracked

\* The callers of apply_effect() mark the windows of the item that ran.
LEMMA RanMarks ==
  ASSUME Books, NEW idx
  PROVE  /\ dirty_windows.all => Ran(idx).all
         /\ dirty_windows.set \cup WindowsOf(win, idx) \subseteq Ran(idx).set \/ Ran(idx).all
BY Marked DEF Ran, MarkItem, Books, Drawn

\* Without a change of windows those are all.
LEMMA NoWindowChangeCovers ==
  ASSUME Books, NEW idx, NoWindowChange(idx) PROVE Covers(WindowsOf(win, idx))
BY RanMarks DEF NoWindowChange, Covers

\* Whatever an effect does to the windows, what it touches is marked.
LEMMA WindowStepCovers ==
  ASSUME Books, NEW idx \in Live, WindowStep(idx) PROVE \E ids : Covers(ids)
<1>1. dirty_windows \in [all : BOOLEAN, set : SUBSET Window] /\ win \in WindowTables
  BY DEF Books, Drawn, Screen
<1>2. CASE NoWindowChange(idx)
  BY <1>2, NoWindowChangeCovers
<1>3. CASE OpenAll(idx)
  <2>1. PICK new \in Allocations({idx} \X LaunchOutputs(items[idx])) :
          /\ win' = Launch(win, new, items)
          /\ dirty_windows' = MarkWindows(Ran(idx), DOMAIN new)
          /\ stale' = stale \cup WindowsOf(win, idx) \cup DOMAIN new
    BY <1>3 DEF OpenAll
  <2>2. Ran(idx) = IF dirty_windows.all THEN dirty_windows
                   ELSE [dirty_windows EXCEPT !.set = @ \cup WindowsOf(win, idx)]
    BY DEF Ran, MarkItem, MarkWindows
  <2>3. dirty_windows' = IF Ran(idx).all THEN Ran(idx) ELSE [Ran(idx) EXCEPT !.set = @ \cup DOMAIN new]
    BY <2>1 DEF MarkWindows
  <2>4. dirty_windows.all => dirty_windows'.all
    BY <2>2, <2>3
  <2>5. dirty_windows'.all \/ dirty_windows.set \cup (WindowsOf(win, idx) \cup DOMAIN new) \subseteq dirty_windows'.set
    BY <1>1, <2>2, <2>3
  <2>6. Tracked(win') = Tracked(win) \cup DOMAIN new
    BY <2>1, TrackedLaunch
  <2>7. Covers(WindowsOf(win, idx) \cup DOMAIN new)
    BY <2>1, <2>4, <2>5, <2>6 DEF Covers
  <2> QED BY <2>7
<1>4. CASE Synced(idx)
  <2>1. Covers(WindowsOf(win, idx))
    BY <1>1, <1>4, RanMarks, TrackedSynced DEF Synced, Covers
  <2> QED BY <2>1
<1>5. CASE Close(idx)
  <2>1. Covers(WindowsOf(win, idx))
    BY <1>5, RanMarks, TrackedClosed DEF Close, Covers
  <2> QED BY <2>1
<1> QED BY <1>2, <1>3, <1>4, <1>5 DEF WindowStep

\* Every step marks what it touches, draws it, or asks for everything to be redrawn.
LEMMA StepCovers ==
  ASSUME Books, [Next]_vars
  PROVE  (\E ids : Covers(ids)) \/ TakeDirtyWindows \/ dirty_windows'.all
<1>0. /\ Slots(items, free) /\ Screen(win, surfaces, items) /\ Indexed(index, items) /\ References(Live)
      /\ dirty_windows \in [all : BOOLEAN, set : SUBSET Window] /\ Live = LiveIn(items)
  BY LiveIs DEF Books, Drawn
<1>1. ASSUME NEW it \in Item, Register(it) PROVE \E ids : Covers(ids)
  <2>1. PICK idx \in Slot : Registered(it, idx)
    BY <1>0, <1>1, RegisterTakes
  <2>2. PICK new \in Allocations(RegisterPlaces(it, idx)) :
          /\ win' = Launch(win, new, items')
          /\ dirty_windows' = MarkWindows(dirty_windows, DOMAIN new)
          /\ stale' = stale \cup DOMAIN new
    BY <2>1 DEF Registered
  <2>3. Covers(DOMAIN new)
    BY <1>0, <2>2, Marked, TrackedLaunch DEF Covers
  <2> QED BY <2>3
<1>2. ASSUME NEW idx, DestroyIdx(idx), UNCHANGED <<dirty_windows, stale>> PROVE \E ids : Covers(ids)
  <2>1. Covers({})
    BY <1>2, TrackedClosed DEF DestroyIdx, Covers
  <2> QED BY <2>1
<1>3. ASSUME NEW id \in Id, Destroy(id) PROVE \E ids : Covers(ids)
  BY <1>2, <1>3 DEF Destroy
<1>4. ASSUME NEW list \in MonitorList, SyncMonitors(list) PROVE dirty_windows'.all
  BY <1>4 DEF SyncMonitors, AllDirty
<1>5. CASE Intialize
  <2> DEFINE shown == UNION {WindowsOf(win, idx) : idx \in uninitialized}
  <2>1. dirty_windows' = MarkWindows(dirty_windows, shown) /\ stale' = stale \cup shown /\ UNCHANGED win
    BY <1>5 DEF Intialize
  <2> HIDE DEF shown
  <2>2. Covers(shown)
    BY <1>0, <2>1, Marked DEF Covers
  <2> QED BY <2>2
<1>6. ASSUME NEW it \in Item, NEW layer \in Layer, ReloadConfig(it, layer) PROVE dirty_windows'.all
  BY <1>6 DEF ReloadConfig, AllDirty
<1>7. ASSUME UNCHANGED <<managed, stale>> PROVE \E ids : Covers(ids)
  <2>1. Covers({})
    BY <1>7 DEF managed, Covers
  <2> QED BY <2>1
<1>8. ASSUME NEW event \in Event, Update(event) PROVE \E ids : Covers(ids)
  BY <1>7, <1>8 DEF Update
<1>9. ASSUME NEW effect \in ItemEffect, UpdateItem(effect) PROVE \E ids : Covers(ids)
  <2>1. NextSlot \in Live
    BY <1>0, <1>9, NextSlotIsThere DEF UpdateItem, References
  <2>2. CASE effect.kind = "ReallyDestroy"
    BY <1>9, <2>2, NoWindowChangeCovers DEF UpdateItem
  <2>3. CASE effect.kind # "ReallyDestroy"
    <3>1. ApplyEffect(NextSlot, effect)
      BY <1>9, <2>3 DEF UpdateItem
    <3>2. WindowStep(NextSlot)
      BY <3>1, EffectSteps
    <3> QED BY <2>1, <3>2, WindowStepCovers
  <2> QED BY <2>2, <2>3
<1>10. CASE UpdateSkip \/ UNCHANGED vars
  BY <1>7, <1>10 DEF UpdateSkip, vars
<1>11. CASE UpdateDestroy
  BY <1>2, <1>11 DEF UpdateDestroy
<1>12. ASSUME NEW id \in Window, NEW effect \in ItemEffect, HandleMessage(id, effect) PROVE \E ids : Covers(ids)
  <2> DEFINE idx == win.windows[id]
             it == items[idx]
  <2>1. id \in Tracked(win)
    BY <1>12 DEF HandleMessage
  <2>2. idx \in Live
    BY <1>0, <2>1 DEF Screen
  <2>3. CASE effect.kind # "ReallyDestroy"
    <3>1. ApplyEffect(idx, effect)
      BY <1>12, <2>3 DEF HandleMessage
    <3> HIDE DEF idx
    <3>2. WindowStep(idx)
      BY <3>1, EffectSteps
    <3> QED BY <2>2, <3>2, WindowStepCovers
  <2>4. CASE effect.kind = "ReallyDestroy" /\ IdOf[it] \in DOMAIN index
    <3> DEFINE doomed == index[IdOf[it]]
    <3>1. DestroyIdx(doomed) /\ dirty_windows' = Ran(idx) /\ stale' = stale \cup WindowsOf(win, idx)
      BY <1>12, <2>4 DEF HandleMessage
    <3> HIDE DEF doomed, idx
    <3>2. Tracked(win') \subseteq Tracked(win)
      BY <3>1, TrackedClosed DEF DestroyIdx
    <3>3. Covers(WindowsOf(win, idx))
      BY <3>1, <3>2, RanMarks DEF Covers
    <3> QED BY <3>3
  <2>5. CASE effect.kind = "ReallyDestroy" /\ IdOf[it] \notin DOMAIN index
    <3>1. NoWindowChange(idx)
      BY <1>12, <2>5 DEF HandleMessage
    <3> HIDE DEF idx
    <3> QED BY <3>1, NoWindowChangeCovers
  <2> QED BY <2>3, <2>4, <2>5
<1> QED BY <1>1, <1>3, <1>4, <1>5, <1>6, <1>8, <1>9, <1>10, <1>11, <1>12 DEF Next

\* What may have changed since it was drawn is due for redrawing, in every order of
\* effects, commands and drawings.
THEOREM SpecDirtyCoversStale == Spec => []DirtyCoversStale
<1>1. Init => DirtyCoversStale
  BY DEF Init, DirtyCoversStale
<1>2. Books /\ DirtyCoversStale /\ [Next]_vars => DirtyCoversStale'
  <2> SUFFICES ASSUME Books, DirtyCoversStale, [Next]_vars PROVE DirtyCoversStale'
    OBVIOUS
  <2>1. CASE \E ids : Covers(ids)
    BY <2>1, CoversKeep
  <2>2. CASE dirty_windows'.all
    BY <2>2 DEF DirtyCoversStale
  <2>3. CASE TakeDirtyWindows
    BY <2>3 DEF TakeDirtyWindows, DirtyCoversStale
  <2> QED BY <2>1, <2>2, <2>3, StepCovers
<1> QED BY <1>1, <1>2, SpecBooks, PTL DEF Spec

----------------------------------------------------------------------------
(* One window on each output.                                               *)

KindAt(at, idx) == ScopeOf[at[idx]].kind

\* OneWindowPerOutput of the tables `w`, when `at` are the slots.
OneEach(w, at) ==
  \A a, b \in Tracked(w) :
    /\ w.windows[a] = w.windows[b]
    /\ w.window_monitors[a] = w.window_monitors[b]
    /\ KindAt(at, w.windows[a]) # "OnMonitors"
    => a = b

\* The windows of an item that follows the outputs are on outputs there are.
OnKnown(w, at, outputs) ==
  \A id \in Tracked(w) : KindAt(at, w.windows[id]) = "PerMonitor" => w.window_monitors[id] \in outputs

\* The property, in terms of tables and slots that are parameters.
LEMMA OneEachIs == OneWindowPerOutput <=> OneEach(win, items)
BY DEF OneWindowPerOutput, OneEach, KindAt

\* Closing windows keeps both.
LEMMA OneEachKept ==
  ASSUME NEW v, NEW w, NEW gone, NEW at, NEW outputs, Keeps(v, w, gone)
  PROVE  /\ OneEach(w, at) => OneEach(v, at)
         /\ OnKnown(w, at, outputs) => OnKnown(v, at, outputs)
<1>1. Tracked(v) \subseteq Tracked(w)
      /\ \A id \in Tracked(v) : v.windows[id] = w.windows[id] /\ v.window_monitors[id] = w.window_monitors[id]
  BY DEF Keeps
<1> QED BY <1>1 DEF OneEach, OnKnown

\* Renaming what is in slots without windows keeps both.
LEMMA OneEachElsewhere ==
  ASSUME NEW w, NEW at, NEW next, NEW outputs, \A id \in Tracked(w) : next[w.windows[id]] = at[w.windows[id]]
  PROVE  /\ OneEach(w, at) => OneEach(w, next)
         /\ OnKnown(w, at, outputs) => OnKnown(w, next, outputs)
BY DEF OneEach, OnKnown, KindAt

\* The places have no window yet, and are on outputs there are.
Vacant(w, at, places) ==
  \A id \in Tracked(w) : KindAt(at, w.windows[id]) # "OnMonitors" => <<w.windows[id], w.window_monitors[id]>> \notin places

Present(at, places, outputs) == \A p \in places : KindAt(at, p[1]) = "PerMonitor" => p[2] \in outputs

\* Opening windows at vacant places, on outputs there are, keeps both.
LEMMA OneEachOpened ==
  ASSUME NEW v, NEW w, NEW places, NEW at, NEW outputs, Opens(v, w, places)
  PROVE  /\ OneEach(w, at) /\ Vacant(w, at, places) => OneEach(v, at)
         /\ OnKnown(w, at, outputs) /\ Present(at, places, outputs) => OnKnown(v, at, outputs)
<1>1. /\ Tracked(w) \subseteq Tracked(v)
      /\ \A id \in Tracked(w) : v.windows[id] = w.windows[id] /\ v.window_monitors[id] = w.window_monitors[id]
  BY DEF Opens
<1>2. \A id \in Tracked(v) \ Tracked(w) : <<v.windows[id], v.window_monitors[id]>> \in places
  BY DEF Opens
<1>3. \A a, b \in Tracked(v) \ Tracked(w) :
        v.windows[a] = v.windows[b] /\ v.window_monitors[a] = v.window_monitors[b] => a = b
  BY DEF Opens
<1>4. ASSUME OneEach(w, at), Vacant(w, at, places),
             NEW a \in Tracked(v), NEW b \in Tracked(v),
             v.windows[a] = v.windows[b], v.window_monitors[a] = v.window_monitors[b],
             KindAt(at, v.windows[a]) # "OnMonitors"
      PROVE  a = b
  <2>1. CASE a \in Tracked(w) /\ b \in Tracked(w)
    <3>1. w.windows[a] = w.windows[b] /\ w.window_monitors[a] = w.window_monitors[b]
          /\ KindAt(at, w.windows[a]) # "OnMonitors"
      BY <1>1, <1>4, <2>1
    <3> QED BY <1>4, <2>1, <3>1 DEF OneEach
  <2>2. ASSUME NEW x \in Tracked(w), NEW y \in Tracked(v) \ Tracked(w),
               v.windows[x] = v.windows[y], v.window_monitors[x] = v.window_monitors[y],
               KindAt(at, v.windows[x]) # "OnMonitors"
        PROVE  FALSE
    <3>1. <<w.windows[x], w.window_monitors[x]>> = <<v.windows[y], v.window_monitors[y]>>
      BY <1>1, <2>2
    <3>2. <<w.windows[x], w.window_monitors[x]>> \notin places
      BY <1>1, <1>4, <2>2 DEF Vacant
    <3>3. <<v.windows[y], v.window_monitors[y]>> \in places
      BY <1>2
    <3> QED BY <3>1, <3>2, <3>3
  <2>3. CASE a \in Tracked(w) /\ b \notin Tracked(w)
    BY <1>4, <2>2, <2>3
  <2>4. CASE a \notin Tracked(w) /\ b \in Tracked(w)
    BY <1>4, <2>2, <2>4
  <2>5. CASE a \notin Tracked(w) /\ b \notin Tracked(w)
    BY <1>3, <1>4, <2>5
  <2> QED BY <2>1, <2>3, <2>4, <2>5
<1>5. ASSUME OnKnown(w, at, outputs), Present(at, places, outputs), NEW id \in Tracked(v),
             KindAt(at, v.windows[id]) = "PerMonitor"
      PROVE  v.window_monitors[id] \in outputs
  <2>1. CASE id \in Tracked(w)
    BY <1>1, <1>5, <2>1 DEF OnKnown
  <2>2. CASE id \notin Tracked(w)
    <3> DEFINE p == <<v.windows[id], v.window_monitors[id]>>
    <3>1. p \in places /\ p[1] = v.windows[id] /\ p[2] = v.window_monitors[id]
      BY <1>2, <2>2
    <3> HIDE DEF p
    <3> QED BY <1>5, <3>1 DEF Present
  <2> QED BY <2>1, <2>2
<1>6. OneEach(w, at) /\ Vacant(w, at, places) => OneEach(v, at)
  BY <1>4 DEF OneEach
<1>7. OnKnown(w, at, outputs) /\ Present(at, places, outputs) => OnKnown(v, at, outputs)
  BY <1>5 DEF OnKnown
<1> QED BY <1>6, <1>7

Tidy == OneEach(win, items) /\ OnKnown(win, items, Range(monitors))

\* What register() and apply_effect() launch is on outputs there are.
LEMMA LaunchedPresent ==
  ASSUME NEW at, NEW idx, NEW it, at[idx] = it
  PROVE  Present(at, {idx} \X LaunchOutputs(it), Range(monitors))
<1>1. ASSUME NEW p \in {idx} \X LaunchOutputs(it), KindAt(at, p[1]) = "PerMonitor" PROVE p[2] \in Range(monitors)
  <2>1. p[1] = idx /\ p[2] \in LaunchOutputs(it)
    BY PairIs
  <2> QED BY <1>1, <2>1 DEF KindAt, LaunchOutputs
<1> QED BY <1>1 DEF Present

\* A slot without windows is vacant.
LEMMA EmptySlotVacant ==
  ASSUME NEW w, NEW at, NEW idx, NEW outputs, \A id \in Tracked(w) : w.windows[id] # idx
  PROVE  Vacant(w, at, {idx} \X outputs)
BY DEF Vacant

\* A slot without an entry in reverse_windows has no windows.
LEMMA NoEntryNoWindow ==
  ASSUME NEW w, NEW s, NEW at, Screen(w, s, at), NEW idx \in Slot, idx \notin DOMAIN w.reverse_windows
  PROVE  \A id \in Tracked(w) : w.windows[id] # idx
<1>1. WindowsOf(w, idx) = {}
  BY DEF WindowsOf
<1>2. \A id \in Tracked(w) : id \in WindowsOf(w, idx) <=> w.windows[id] = idx
  BY WindowsOfAre
<1> QED BY <1>1, <1>2

\* register() opens windows for a slot that had none.
LEMMA RegistersTidy ==
  ASSUME Books, Tidy, Registers PROVE Tidy'
<1>1. PICK it \in Item, idx \in Slot : Registered(it, idx) /\ UNCHANGED monitors
  BY DEF Registers
<1>2. /\ idx \notin LiveIn(items) /\ items'[idx] = it /\ \A i \in LiveIn(items) : items'[i] = items[i]
  BY <1>1 DEF Registered, Taken
<1>3. Screen(win, surfaces, items) /\ Opens(win', win, RegisterPlaces(it, idx))
  BY <1>1, RegisterOpens DEF Books
<1>4. \A id \in Tracked(win) : win.windows[id] \in LiveIn(items)
  BY <1>3 DEF Screen
<1>5. OneEach(win, items') /\ OnKnown(win, items', Range(monitors))
  BY <1>2, <1>4, OneEachElsewhere DEF Tidy
<1>6. Vacant(win, items', RegisterPlaces(it, idx))
  BY <1>2, <1>4, EmptySlotVacant DEF RegisterPlaces, Vacant
<1>7. Present(items', RegisterPlaces(it, idx), Range(monitors))
  BY <1>2, LaunchedPresent DEF RegisterPlaces, Present
<1>8. OneEach(win', items') /\ OnKnown(win', items', Range(monitors))
  BY <1>3, <1>5, <1>6, <1>7, OneEachOpened
<1> QED BY <1>1, <1>8 DEF Tidy

\* An effect opens windows only for a slot without an entry.
LEMMA ActsTidy ==
  ASSUME Books, Tidy, Acts PROVE Tidy'
<1>1. PICK idx \in Live : WindowStep(idx) /\ UNCHANGED <<items, monitors>>
  BY DEF Acts
<1>2. Screen(win, surfaces, items) /\ idx \in Slot /\ Reshapes(idx)
  BY <1>1, LiveIs, SlotsAre, StepReshapes DEF Books
<1>3. OneEach(win', items) /\ OnKnown(win', items, Range(monitors))
  <2>1. CASE Stays
    BY <2>1 DEF Stays, Tidy, OneEach, OnKnown, Tracked
  <2>2. CASE OpensFor(idx)
    <3> DEFINE places == {idx} \X LaunchOutputs(items[idx])
    <3>1. Opens(win', win, places) /\ idx \notin DOMAIN win.reverse_windows
      BY <2>2 DEF OpensFor, HasWindowEntry
    <3>2. Vacant(win, items, places)
      BY <1>2, <3>1, NoEntryNoWindow, EmptySlotVacant
    <3>3. Present(items, places, Range(monitors))
      BY LaunchedPresent
    <3> HIDE DEF places
    <3> QED BY <3>1, <3>2, <3>3, OneEachOpened DEF Tidy
  <2>3. CASE Closes(idx)
    BY <2>3, OneEachKept DEF Closes, Tidy
  <2> QED BY <1>2, <2>1, <2>2, <2>3 DEF Reshapes
<1> QED BY <1>1, <1>3 DEF Tidy

\* destroy_idx() only closes windows.
LEMMA DestroysTidy ==
  ASSUME Books, Tidy, Destroys PROVE Tidy'
<1>1. PICK idx \in Live : DestroyIdx(idx) /\ DropFromIndex(IdAt(idx))
  BY DEF Destroys
<1>2. /\ Live' = Live \ {idx} /\ \A i \in Live' : items'[i] = items[i]
      /\ Screen(win', surfaces', items') /\ Keeps(win', win, WindowsOf(win, idx))
  BY <1>1, DestroyKeeps
<1>3. \A id \in Tracked(win') : win'.windows[id] \in Live'
  BY <1>2 DEF Screen, LiveIn, Live
<1>4. OneEach(win', items) /\ OnKnown(win', items, Range(monitors))
  BY <1>2, OneEachKept DEF Tidy
<1>5. UNCHANGED monitors
  BY <1>1 DEF DestroyIdx
<1> QED BY <1>2, <1>3, <1>4, <1>5, OneEachElsewhere DEF Tidy

\* sync_monitors() opens windows where the item has none: on added outputs, or for
\* an item without an entry.
LEMMA ResyncsTidy ==
  ASSUME Books, Tidy, Resyncs PROVE Tidy'
<1>1. PICK list \in MonitorList : SyncMonitors(list) /\ UNCHANGED items
  BY DEF Resyncs
<1>2. monitors' = list
  BY <1>1 DEF SyncMonitors
<1>3. PICK kept : Resynced(kept, list)
  BY <1>1, SyncMonitorsOpens
<1>4. PICK left : Screen(kept, left, items)
  BY <1>3 DEF Resynced
<1>5. /\ Opens(win', kept, AddedWindows(kept, list)) /\ Unplugged(kept, Range(monitors) \ Range(list))
      /\ OneEach(kept, items) /\ OnKnown(kept, items, Range(monitors))
  BY <1>3, OneEachKept DEF Resynced, Tidy
<1>6. OnKnown(kept, items, Range(list))
  BY <1>5 DEF OnKnown, Unplugged
<1>7. ASSUME NEW p \in AddedWindows(kept, list)
      PROVE  p[1] \in Live /\ p[2] \in AddedOutputs(kept, p[1], list)
  <2>1. PICK idx \in Live : p \in {idx} \X AddedOutputs(kept, idx, list)
    BY DEF AddedWindows
  <2> QED BY <2>1
<1>8. Live \subseteq Slot /\ \A i \in Live : KindAt(items, i) \in {"First", "PerMonitor", "Single", "OnMonitors"}
  BY LiveIs, SlotsAre, ItemAssumption DEF Books, KindAt, MonitorScope
<1>9. Present(items, AddedWindows(kept, list), Range(list))
  <2>1. ASSUME NEW idx, KindAt(items, idx) = "PerMonitor"
        PROVE  AddedOutputs(kept, idx, list) = Range(list) \ Range(monitors)
    BY <2>1 DEF AddedOutputs, KindAt
  <2> QED BY <1>7, <2>1 DEF Present
<1>10. Vacant(kept, items, AddedWindows(kept, list))
  <2> SUFFICES ASSUME NEW id \in Tracked(kept), KindAt(items, kept.windows[id]) # "OnMonitors",
                      <<kept.windows[id], kept.window_monitors[id]>> \in AddedWindows(kept, list)
               PROVE  FALSE
    BY DEF Vacant
  <2> DEFINE idx == kept.windows[id]
             output == kept.window_monitors[id]
             p == <<idx, output>>
  <2>1. p \in AddedWindows(kept, list) /\ p[1] = idx /\ p[2] = output
    OBVIOUS
  <2>2. idx \in Live /\ output \in AddedOutputs(kept, idx, list)
    <3> HIDE DEF p, idx, output
    <3> QED BY <1>7, <2>1
  <2>3. idx \in DOMAIN kept.reverse_windows
    BY <1>4, <1>8, <2>2, NoEntryNoWindow
  <2>4. KindAt(items, idx) # "OnMonitors"
    OBVIOUS
  <2>5. KindAt(items, idx) = "PerMonitor" => output \in Range(monitors)
    BY <1>5 DEF OnKnown
  <2>6. KindAt(items, idx) \in {"First", "PerMonitor", "Single"}
    BY <1>8, <2>2, <2>4
  <2> HIDE DEF idx, output
  <2>7. CASE KindAt(items, idx) = "PerMonitor"
    BY <2>2, <2>5, <2>7 DEF AddedOutputs, KindAt
  <2>8. CASE KindAt(items, idx) \in {"First", "Single"}
    BY <2>2, <2>3, <2>8 DEF AddedOutputs, KindAt
  <2> QED BY <2>6, <2>7, <2>8
<1>11. OneEach(win', items) /\ OnKnown(win', items, Range(list))
  BY <1>5, <1>6, <1>9, <1>10, OneEachOpened
<1> QED BY <1>1, <1>2, <1>11 DEF Tidy

\* Outside OnMonitors an item has one window per output at most, through any order of
\* registering, hiding, showing and plugging monitors.
THEOREM SpecOneWindowPerOutput == Spec => []OneWindowPerOutput
<1>1. Init => Tidy
  BY DEF Init, NoWindows, Tidy, OneEach, OnKnown, Tracked
<1>2. Books /\ Tidy /\ [Next]_vars => Tidy'
  <2> SUFFICES ASSUME Books, Tidy, [Next]_vars PROVE Tidy'
    OBVIOUS
  <2>1. CASE Quiet
    BY <2>1 DEF Quiet, Tidy, OneEach, OnKnown, Tracked, KindAt
  <2> QED BY <2>1, StepKinds, RegistersTidy, ResyncsTidy, ActsTidy, DestroysTidy
<1>3. Tidy => OneWindowPerOutput
  BY OneEachIs DEF Tidy
<1> QED BY <1>1, <1>2, <1>3, SpecBooks, PTL DEF Spec
=============================================================================
