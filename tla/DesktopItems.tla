---------------------------- MODULE DesktopItems ----------------------------
(***************************************************************************)
(* The manager of desktop items (crates/desktop/src/manager.rs): the slots *)
(* that own the items, the tables that find an item by id, by window and   *)
(* by event filter, the windows each item has on each monitor, and the set *)
(* of windows to redraw.                                                   *)
(*                                                                         *)
(* The manager is called from one thread.  Every public operation is one   *)
(* action, except update(), whose loop over the matching items runs one    *)
(* item per step: `loop` holds the locals of that loop, and no other       *)
(* action is enabled while it is running.                                  *)
(*                                                                         *)
(* What an item does is code behind a trait, in this repository or in a    *)
(* plugin.  Here it returns any ItemEffect, at any time.                   *)
(***************************************************************************)
EXTENDS EventFilters, Sequences, FiniteSets, Functions

CONSTANTS
  Item,        \* the desktop items that can be registered
  Id,          \* the strings returned by DesktopItem::id
  Monitor,     \* output names
  Unnamed,     \* the empty output name: "whatever output is active"
  Window,      \* layer-shell window ids
  Layer,       \* layer-shell layers
  NoItem,      \* an empty slot
  IdOf,        \* [Item -> Id]
  VisibilityOf, StrategyOf, ScopeOf, InitEventsOf,
  EffectsOf,   \* [Item -> the kinds of effect the item's code returns]
  Filter,      \* the filters in use, a subset of EventFilter
  Event,       \* the actions that arrive, a subset of ListenerAction
  EffectFilter, \* the filter sets an effect may subscribe to
  MonitorList, \* the monitor lists a compositor may report
  MaxSlots     \* bound on Len(items)

Visibility == {"Visible", "Toggleable", "Transient"}
UpdateWhen == {"EveryFrame", "OnEvent", "OnDemand"}

\* Single(None) is the scope "First"; the other scopes carry their outputs.
MonitorScope ==
  [kind : {"First", "PerMonitor"}, names : {{}}]
    \cup [kind : {"Single", "OnMonitors"}, names : SUBSET Monitor]

EffectKind == {"None", "Redraw", "UpdateWindow", "Show", "ShowAndSubscribe", "Hide",
               "ReallyHide", "Destroy", "ReallyDestroy", "Subscribe"}

Slot == 1..MaxSlots

ASSUME ItemAssumption ==
  /\ NoItem \notin Item
  /\ IdOf \in [Item -> Id]
  /\ VisibilityOf \in [Item -> Visibility]
  /\ StrategyOf \in [Item -> UpdateWhen]
  /\ ScopeOf \in [Item -> MonitorScope]
  /\ InitEventsOf \in [Item -> SUBSET Filter]
  /\ EffectsOf \in [Item -> SUBSET EffectKind]

ASSUME EventAssumption ==
  /\ Filter \subseteq EventFilter
  /\ Event \subseteq ListenerAction
  /\ PlainFilter("Frame") \in Filter
  /\ EffectFilter \subseteq SUBSET Filter

ASSUME MonitorAssumption ==
  /\ Unnamed \notin Monitor
  /\ MonitorList \subseteq Seq(Monitor)
  /\ <<>> \in MonitorList

ASSUME SlotAssumption == MaxSlots \in Nat

Output == Monitor \cup {Unnamed}

VARIABLES
  items,          \* the slots: a sequence of items and NoItem
  free,           \* the empty slots, a stack
  index,          \* the slot an id was last registered in
  active,         \* the slots whose item is shown
  win,            \* the four window tables
  subscriptions,  \* pairs <<filter, slot>>
  monitors,       \* the monitors known, in order
  uninitialized,  \* the slots whose item has not been initialized
  dirty_windows,  \* the windows to redraw; `all` stands for None
  loop,           \* the locals of update()
  \* Not state of the manager:
  layer_of,       \* the layer each item's layer() returns now
  surfaces,       \* the windows the shell was asked to open and not to close
  stale           \* the windows whose view may have changed since last drawn

managed == <<items, free, index, active, win, subscriptions, monitors,
             uninitialized, dirty_windows>>
vars == <<managed, loop, layer_of, surfaces, stale>>

----------------------------------------------------------------------------
(***************************************************************************)
(* The window tables are changed together, by launch(), close_item_windows *)
(* and destroy_monitor(), so they are one record of partial functions.     *)
(***************************************************************************)
NoWindows == [windows         |-> <<>>,
              window_monitors |-> <<>>,
              window_layers   |-> <<>>,
              reverse_windows |-> <<>>]

Tracked(w) == DOMAIN w.windows

\* The windows a slot has; the entry may be missing, or there and empty.
WindowsOf(w, idx) ==
  IF idx \in DOMAIN w.reverse_windows THEN w.reverse_windows[idx] ELSE {}

\* The windows launch() opens: a fresh id for each <<slot, output>>.
Allocations(targets) ==
  UNION {Bijection(ids, targets) : ids \in SUBSET (Window \ DOMAIN surfaces)}

OpenedFor(new, idx) == {id \in DOMAIN new : new[id][1] = idx}

\* HashMap::insert, for every key of `new`.
Inserted(map, new) ==
  [key \in DOMAIN map \cup DOMAIN new |-> IF key \in DOMAIN new THEN new[key] ELSE map[key]]

\* launch() for every window in `new`; `at` is the item of each slot.
Launch(w, new, at) ==
  [windows         |-> Inserted(w.windows, [id \in DOMAIN new |-> new[id][1]]),
   window_monitors |-> Inserted(w.window_monitors, [id \in DOMAIN new |-> new[id][2]]),
   window_layers   |-> Inserted(w.window_layers,
                                [id \in DOMAIN new |-> layer_of[at[new[id][1]]]]),
   reverse_windows |->
     Inserted(w.reverse_windows, [idx \in {new[id][1] : id \in DOMAIN new} |->
                                    WindowsOf(w, idx) \cup OpenedFor(new, idx)])]

\* Mutant: a closed window stays in window_layers.
WrongForget(w, ids, reverse) ==
  [windows         |-> Restrict(w.windows, DOMAIN w.windows \ ids),
   window_monitors |-> Restrict(w.window_monitors, DOMAIN w.window_monitors \ ids),
   window_layers   |-> w.window_layers,
   reverse_windows |-> reverse]

\* Forget the windows in `ids`; `reverse` is what is left of reverse_windows.
Forget(w, ids, reverse) ==
  [windows         |-> Restrict(w.windows, DOMAIN w.windows \ ids),
   window_monitors |-> Restrict(w.window_monitors, DOMAIN w.window_monitors \ ids),
   window_layers   |-> Restrict(w.window_layers, DOMAIN w.window_layers \ ids),
   reverse_windows |-> reverse]

\* close_item_windows()
CloseItem(w, idx) ==
  Forget(w, WindowsOf(w, idx), Restrict(w.reverse_windows, DOMAIN w.reverse_windows \ {idx}))

\* Mutant: any unplugged output takes every window with it.
WrongOnOutputs(w, outputs) == IF outputs = {} THEN {} ELSE DOMAIN w.window_monitors

OnOutputs(w, outputs) ==
  {id \in DOMAIN w.window_monitors : w.window_monitors[id] \in outputs}

\* destroy_monitor() for each output: a slot that loses its last window keeps
\* an entry with an empty set.
DestroyMonitors(w, outputs) ==
  LET gone == OnOutputs(w, outputs) IN
  Forget(w, gone, [idx \in DOMAIN w.reverse_windows |-> w.reverse_windows[idx] \ gone])

\* sync_window_layers()
SyncLayers(w, idx) ==
  [w EXCEPT !.window_layers =
     [id \in DOMAIN @ |->
        IF id \in WindowsOf(w, idx) /\ items[idx] # NoItem
        THEN layer_of[items[idx]] ELSE @[id]]]

\* The tasks handed to the shell, applied in the order they are returned.
Opened(new, at) ==
  Inserted(surfaces, [id \in DOMAIN new |->
     [item |-> at[new[id][1]], monitor |-> new[id][2], layer |-> layer_of[at[new[id][1]]]]])

Closed(ids) == Restrict(surfaces, DOMAIN surfaces \ ids)

\* Mutant: the tables are synced but no LayerChange is sent.
WrongRelayered(idx) == surfaces

Relayered(idx) ==
  LET changed == {id \in WindowsOf(win, idx) :
                    /\ items[idx] # NoItem
                    /\ win.window_layers[id] # layer_of[items[idx]]}
  IN [id \in DOMAIN surfaces |->
        IF id \in changed THEN [surfaces[id] EXCEPT !.layer = layer_of[items[idx]]]
        ELSE surfaces[id]]

----------------------------------------------------------------------------
AllDirty == [all |-> TRUE, set |-> {}]

MarkWindows(d, ids) == IF d.all THEN d ELSE [d EXCEPT !.set = @ \cup ids]

\* Mutant: the windows of the item are not looked up.
WrongMarkItem(d, w, idx) == d

\* mark_item_dirty()
MarkItem(d, w, idx) == MarkWindows(d, WindowsOf(w, idx))

Live == {idx \in DOMAIN items : items[idx] # NoItem}

\* Mutant: remove_subscriptions() forgets nothing.
WrongUnsubscribed(idx) == subscriptions

Unsubscribed(idx) == {s \in subscriptions : s[2] # idx}

Subscribed(idx, filters) == Unsubscribed(idx) \cup (filters \X {idx})

First == IF monitors = <<>> THEN Unnamed ELSE Head(monitors)

\* Where register() and launch_all() put the windows of an item.
LaunchOutputs(it) ==
  LET scope == ScopeOf[it] IN
  CASE scope.kind = "First"      -> {First}
    [] scope.kind = "PerMonitor" -> Range(monitors)
    [] OTHER                     -> scope.names

NotRunning ==
  [event |-> AnAction("None", NoName, {}, FALSE), todo |-> {}, pending_destroy |-> {}]

Running(event, todo, doomed) ==
  IF todo = {} /\ doomed = {} THEN NotRunning
  ELSE [event |-> event, todo |-> todo, pending_destroy |-> doomed]

Idle == loop.todo = {} /\ loop.pending_destroy = {}

Init ==
  /\ items = <<>> /\ free = <<>> /\ index = <<>>
  /\ active = {} /\ win = NoWindows
  /\ subscriptions = {} /\ monitors = <<>> /\ uninitialized = {}
  /\ dirty_windows = AllDirty
  /\ loop = NotRunning
  /\ layer_of \in [Item -> Layer]
  /\ surfaces = <<>>
  /\ stale = {}
----------------------------------------------------------------------------
\* Mutant: register() always pushes a new slot.
WrongTakesFreeSlot == FALSE

TakesFreeSlot == free # <<>>

\* register(): the item goes to the last freed slot, or to a new one.
Register(it) ==
  /\ Idle
  /\ it \notin Range(items)
  /\ free # <<>> \/ Len(items) < MaxSlots
  /\ LET idx     == IF TakesFreeSlot THEN free[Len(free)] ELSE Len(items) + 1
         slots   == IF TakesFreeSlot THEN [items EXCEPT ![idx] = it] ELSE Append(items, it)
         visible == VisibilityOf[it] = "Visible"
         events  == InitEventsOf[it]
                      \cup (IF StrategyOf[it] = "EveryFrame" THEN {PlainFilter("Frame")} ELSE {})
     IN /\ \E new \in Allocations(IF visible THEN {idx} \X LaunchOutputs(it) ELSE {}) :
             /\ win' = Launch(win, new, slots)
             /\ surfaces' = Opened(new, slots)
             /\ dirty_windows' = MarkWindows(dirty_windows, DOMAIN new)
             /\ stale' = stale \cup DOMAIN new
        /\ items' = slots
        /\ free' = IF TakesFreeSlot THEN SubSeq(free, 1, Len(free) - 1) ELSE free
        /\ subscriptions' = subscriptions \cup (events \X {idx})
        /\ active' = IF visible THEN active \cup {idx} ELSE active
        /\ index' = Inserted(index, [id \in {IdOf[it]} |-> idx])
        /\ uninitialized' = uninitialized \cup {idx}
  /\ UNCHANGED <<monitors, loop, layer_of>>

Freed(idx) == IF items[idx] # NoItem THEN Append(free, idx) ELSE free

\* destroy_idx(), from destroy(), handle_message() and the end of update().
DestroyIdx(idx) ==
  /\ win' = CloseItem(win, idx)
  /\ surfaces' = Closed(WindowsOf(win, idx))
  /\ subscriptions' = Unsubscribed(idx)
  /\ active' = active \ {idx}
  /\ uninitialized' = uninitialized \ {idx}
  /\ items' = [items EXCEPT ![idx] = NoItem]
  /\ free' = Freed(idx)
  /\ UNCHANGED <<monitors, layer_of>>

\* destroy() takes the id out of the index, destroy_idx() the id of the item.
DropFromIndex(ids) == index' = Restrict(index, DOMAIN index \ ids)

IdAt(idx) == IF items[idx] = NoItem THEN {} ELSE {IdOf[items[idx]]}

\* destroy(), called for a DeployDesktopItemAction::Destroy.
Destroy(id) ==
  /\ Idle
  /\ id \in DOMAIN index
  /\ DestroyIdx(index[id])
  /\ DropFromIndex({id} \cup IdAt(index[id]))
  /\ UNCHANGED <<dirty_windows, loop, stale>>

\* Where sync_monitors() opens windows for the item in a slot; `kept` are the
\* tables without the windows of the outputs that are gone.
AddedOutputs(kept, idx, list) ==
  LET scope  == ScopeOf[items[idx]]
      added  == Range(list) \ Range(monitors)
      hasKey == idx \in DOMAIN kept.reverse_windows
  IN CASE scope.kind = "PerMonitor" -> added
       [] scope.kind = "OnMonitors" -> scope.names \cap added
       [] scope.kind = "Single"     -> IF hasKey THEN {} ELSE scope.names \cap added
       [] scope.kind = "First"      -> IF hasKey \/ list = <<>> THEN {} ELSE {Head(list)}

AddedWindows(kept, list) ==
  UNION {{idx} \X AddedOutputs(kept, idx, list) :
           idx \in {i \in Live : VisibilityOf[items[i]] = "Visible"}}

\* sync_monitors()
SyncMonitors(list) ==
  /\ Idle
  /\ Range(list) # Range(monitors)
  /\ LET gone == Range(monitors) \ Range(list)
         kept == DestroyMonitors(win, gone)
     IN \E new \in Allocations(AddedWindows(kept, list)) :
          /\ win' = Launch(kept, new, items)
          /\ surfaces' = Restrict(Opened(new, items),
                (DOMAIN surfaces \ OnOutputs(win, gone)) \cup DOMAIN new)
          /\ stale' = stale \cup DOMAIN new
  /\ monitors' = list
  /\ dirty_windows' = AllDirty
  /\ UNCHANGED <<items, free, index, active, subscriptions, uninitialized, loop, layer_of>>

\* intialize(): item code runs, whatever it does the windows are redrawn.
Intialize ==
  /\ Idle
  /\ uninitialized # {}
  /\ LET shown == UNION {WindowsOf(win, idx) : idx \in uninitialized} IN
       /\ dirty_windows' = MarkWindows(dirty_windows, shown)
       /\ stale' = stale \cup shown
  /\ uninitialized' = {}
  /\ UNCHANGED <<items, free, index, active, win, subscriptions, monitors, loop,
                 layer_of, surfaces>>

\* take_dirty_windows(), after which the shell draws what it is given.
TakeDirtyWindows ==
  /\ Idle
  /\ dirty_windows' = [all |-> FALSE, set |-> {}]
  /\ stale' = IF dirty_windows.all THEN {} ELSE stale \ dirty_windows.set
  /\ UNCHANGED <<items, free, index, active, win, subscriptions, monitors,
                 uninitialized, loop, layer_of, surfaces>>

\* The configuration is reloaded: the App calls mark_all_dirty(), and layer()
\* may return something else from now on.
ReloadConfig(it, layer) ==
  /\ Idle
  /\ layer_of' = [layer_of EXCEPT ![it] = layer]
  /\ dirty_windows' = AllDirty
  /\ stale' = Tracked(win)
  /\ UNCHANGED <<items, free, index, active, win, subscriptions, monitors,
                 uninitialized, loop, surfaces>>
----------------------------------------------------------------------------
\* `UpdateWindow` and `Custom` only send tasks about the windows' geometry.
Subscribing == {"Subscribe", "ShowAndSubscribe"}

ItemEffect ==
  [kind : EffectKind \ Subscribing, filters : {{}}]
    \cup [kind : Subscribing, filters : EffectFilter]

\* What the code of the item in a slot may return.
Returns(idx) == {effect \in ItemEffect : effect.kind \in EffectsOf[items[idx]]}

\* The item's own code ran: its views may differ, and the callers of
\* apply_effect() have marked them before they look at the effect.
Ran(idx) == MarkItem(dirty_windows, win, idx)

NoWindowChange(idx) ==
  /\ dirty_windows' = Ran(idx)
  /\ stale' = stale \cup WindowsOf(win, idx)
  /\ UNCHANGED <<win, surfaces>>

OpenAll(idx) ==
  \E new \in Allocations({idx} \X LaunchOutputs(items[idx])) :
    /\ win' = Launch(win, new, items)
    /\ surfaces' = Opened(new, items)
    /\ dirty_windows' = MarkWindows(Ran(idx), DOMAIN new)
    /\ stale' = stale \cup WindowsOf(win, idx) \cup DOMAIN new

\* Mutant: showing always launches.
WrongHasWindowEntry(idx) == FALSE

HasWindowEntry(idx) == idx \in DOMAIN win.reverse_windows

Close(idx) ==
  /\ win' = CloseItem(win, idx)
  /\ surfaces' = Closed(WindowsOf(win, idx))
  /\ dirty_windows' = Ran(idx)
  /\ UNCHANGED stale

Show(idx) ==
  /\ IF HasWindowEntry(idx) THEN NoWindowChange(idx) ELSE OpenAll(idx)
  /\ active' = active \cup {idx}
  /\ UNCHANGED subscriptions

ShowAndSubscribe(idx, filters) ==
  /\ IF HasWindowEntry(idx)
     THEN /\ win' = SyncLayers(win, idx)
          /\ surfaces' = Relayered(idx)
          /\ dirty_windows' = Ran(idx)
          /\ stale' = stale \cup WindowsOf(win, idx)
     ELSE OpenAll(idx)
  /\ active' = active \cup {idx}
  /\ subscriptions' = Subscribed(idx, filters)

Hide(idx, really) ==
  /\ IF really \/ VisibilityOf[items[idx]] = "Transient"
     THEN Close(idx) ELSE NoWindowChange(idx)
  /\ active' = active \ {idx}
  /\ UNCHANGED subscriptions

\* The effect Destroy silences the item but leaves it in its slot.
Silence(idx) ==
  /\ Close(idx)
  /\ active' = active \ {idx}
  /\ subscriptions' = Unsubscribed(idx)

Subscribe(idx, filters) ==
  /\ NoWindowChange(idx)
  /\ subscriptions' = Subscribed(idx, filters)
  /\ UNCHANGED active

\* apply_effect(), for every effect but ReallyDestroy, which both callers
\* take care of themselves.
ApplyEffect(idx, effect) ==
  /\ \/ effect.kind \in {"None", "Redraw", "UpdateWindow"}
        /\ NoWindowChange(idx) /\ UNCHANGED <<active, subscriptions>>
     \/ effect.kind = "Show"             /\ Show(idx)
     \/ effect.kind = "ShowAndSubscribe" /\ ShowAndSubscribe(idx, effect.filters)
     \/ effect.kind = "Hide"             /\ Hide(idx, FALSE)
     \/ effect.kind = "ReallyHide"       /\ Hide(idx, TRUE)
     \/ effect.kind = "Destroy"          /\ Silence(idx)
     \/ effect.kind = "Subscribe"        /\ Subscribe(idx, effect.filters)
  /\ UNCHANGED <<items, free, index, monitors, uninitialized, layer_of>>

----------------------------------------------------------------------------
\* matching_items(), and the compositor masks that update() adds.
Matching(event) == {s[2] : s \in {t \in subscriptions : Dispatched(t[1], event)}}

\* The entry of update(): the slots to visit are fixed before any item runs.
Update(event) ==
  /\ Idle
  /\ Matching(event) # {}
  /\ loop' = Running(event, Matching(event), {})
  /\ UNCHANGED <<managed, layer_of, surfaces, stale>>

NextSlot == CHOOSE idx \in loop.todo : \A other \in loop.todo : idx <= other

\* An inactive OnDemand item is only woken by an activation event.
Woken(idx) ==
  /\ items[idx] # NoItem
  /\ \/ idx \in active
     \/ StrategyOf[items[idx]] # "OnDemand"
     \/ ActivationEvent(loop.event)

\* One iteration of the loop.  An item that fails counts as the effect None.
UpdateItem(effect) ==
  /\ loop.todo # {}
  /\ Woken(NextSlot)
  /\ effect \in Returns(NextSlot)
  /\ IF effect.kind = "ReallyDestroy"
     THEN /\ loop' = Running(loop.event, loop.todo \ {NextSlot}, loop.pending_destroy \cup {NextSlot})
          /\ NoWindowChange(NextSlot)
          /\ UNCHANGED <<items, free, index, active, subscriptions, monitors,
                         uninitialized, layer_of>>
     ELSE /\ loop' = Running(loop.event, loop.todo \ {NextSlot}, loop.pending_destroy)
          /\ ApplyEffect(NextSlot, effect)

UpdateSkip ==
  /\ loop.todo # {}
  /\ ~Woken(NextSlot)
  /\ loop' = Running(loop.event, loop.todo \ {NextSlot}, loop.pending_destroy)
  /\ UNCHANGED <<managed, layer_of, surfaces, stale>>

LastDoomed ==
  CHOOSE idx \in loop.pending_destroy : \A other \in loop.pending_destroy : other <= idx

\* After the loop the items that asked for it are destroyed, last slot first.
UpdateDestroy ==
  /\ loop.todo = {}
  /\ loop.pending_destroy # {}
  /\ DestroyIdx(LastDoomed)
  /\ DropFromIndex(IdAt(LastDoomed))
  /\ loop' = Running(loop.event, {}, loop.pending_destroy \ {LastDoomed})
  /\ UNCHANGED <<dirty_windows, stale>>

\* handle_message() for the item whose window the message names.  Destruction
\* goes through the item's id.
HandleMessage(id, effect) ==
  /\ Idle
  /\ id \in Tracked(win)
  /\ LET idx == win.windows[id]
         it  == items[idx]
     IN /\ it # NoItem
        /\ effect \in Returns(idx)
        /\ IF effect.kind # "ReallyDestroy" THEN ApplyEffect(idx, effect)
           ELSE IF IdOf[it] \in DOMAIN index
           THEN /\ LET doomed == index[IdOf[it]] IN
                     /\ DestroyIdx(doomed)
                     /\ DropFromIndex({IdOf[it]} \cup IdAt(doomed))
                /\ dirty_windows' = Ran(idx)
                /\ stale' = stale \cup WindowsOf(win, idx)
           ELSE /\ NoWindowChange(idx)
                /\ UNCHANGED <<items, free, index, active, subscriptions, monitors,
                               uninitialized, layer_of>>
  /\ UNCHANGED loop

Next ==
  \/ \E it \in Item : Register(it)
  \/ \E id \in Id : Destroy(id)
  \/ \E list \in MonitorList : SyncMonitors(list)
  \/ Intialize
  \/ TakeDirtyWindows
  \/ \E it \in Item, layer \in Layer : ReloadConfig(it, layer)
  \/ \E event \in Event : Update(event)
  \/ \E effect \in ItemEffect : UpdateItem(effect)
  \/ UpdateSkip
  \/ UpdateDestroy
  \/ \E id \in Window, effect \in ItemEffect : HandleMessage(id, effect)

Spec == Init /\ [][Next]_vars

----------------------------------------------------------------------------
WindowTables ==
  [windows         : UNION {[ids -> Slot] : ids \in SUBSET Window},
   window_monitors : UNION {[ids -> Output] : ids \in SUBSET Window},
   window_layers   : UNION {[ids -> Layer] : ids \in SUBSET Window},
   reverse_windows : UNION {[slots -> SUBSET Window] : slots \in SUBSET Slot}]

\* Every variable has its type.
TypeOK ==
  /\ items \in Seq(Item \cup {NoItem}) /\ Len(items) <= MaxSlots
  /\ free \in Seq(Slot)
  /\ index \in UNION {[ids -> Slot] : ids \in SUBSET Id}
  /\ active \subseteq Slot
  /\ win \in WindowTables
  /\ subscriptions \subseteq Filter \X Slot
  /\ monitors \in Seq(Monitor)
  /\ uninitialized \subseteq Slot
  /\ dirty_windows \in [all : BOOLEAN, set : SUBSET Window]
  /\ loop.todo \subseteq Slot /\ loop.pending_destroy \subseteq Slot
  /\ layer_of \in [Item -> Layer]
  /\ surfaces \in UNION {[ids -> [item : Item, monitor : Output, layer : Layer]]
                           : ids \in SUBSET Window}
  /\ stale \subseteq Window

\* The four window tables tell the same story: a window is in all of the three
\* forward tables or in none, and a slot's set in reverse_windows is exactly
\* the windows that point back to the slot (launch, close_item_windows and
\* destroy_monitor each update them by hand).
WindowTablesAgree ==
  /\ DOMAIN win.window_monitors = Tracked(win)
  /\ DOMAIN win.window_layers = Tracked(win)
  /\ \A idx \in Slot, id \in Window :
       id \in WindowsOf(win, idx) <=> id \in Tracked(win) /\ win.windows[id] = idx

\* No window outlives its item or changes hands: every surface on the screen is
\* a window the manager tracks, at the place the tables say, and the slot it
\* points to still holds the very item it was opened for, even though freed
\* slots are handed to the next item that registers.
SurfacesKeepTheirItem ==
  /\ DOMAIN surfaces = Tracked(win)
  /\ \A id \in Tracked(win) :
       surfaces[id] = [item    |-> items[win.windows[id]],
                       monitor |-> win.window_monitors[id],
                       layer   |-> win.window_layers[id]]

\* The free list is exact: it names every empty slot, once, so register()
\* never drops an item that is still in its slot.
FreeListExact ==
  /\ Range(free) = DOMAIN items \ Live
  /\ \A i, j \in DOMAIN free : free[i] = free[j] => i = j

\* Whatever is still referred to is still there: no table names a slot that
\* has been emptied, in the middle of update()'s loop either, where items ask
\* to be destroyed while slots wait to be visited.
OnlyLiveSlotsReferenced ==
  /\ active \cup uninitialized \cup {s[2] : s \in subscriptions} \subseteq Live
  /\ loop.todo \cup loop.pending_destroy \subseteq Live
  /\ Range(win.windows) \cup DOMAIN win.reverse_windows \subseteq Live

\* An id never leads to another item's slot.
IndexSound == \A id \in DOMAIN index : index[id] \in Live /\ IdOf[items[index[id]]] = id

\* While no two live items share an id, every item can be found by its id, so
\* destroy() reaches it.  (Nothing in register() refuses a duplicate.)
IndexComplete == \A idx \in Live : IdOf[items[idx]] \in DOMAIN index /\ index[IdOf[items[idx]]] = idx

\* Whenever item code has run for a slot since the last drawing, or a window
\* was opened or moved in or out of view, its windows are due for redrawing.
DirtyCoversStale == stale \cap Tracked(win) \subseteq dirty_windows.set \/ dirty_windows.all

\* A transient item that is not shown has no window left on the screen: an
\* inactive window draws nothing, but would still take input and space.
HiddenTransientHasNoWindow ==
  \A idx \in Live : VisibilityOf[items[idx]] = "Transient" /\ idx \notin active
                    => WindowsOf(win, idx) = {}

\* Outside OnMonitors an item has at most one window per output, through any
\* order of registering, hiding, showing and plugging monitors.
OneWindowPerOutput ==
  \A a, b \in Tracked(win) :
    /\ win.windows[a] = win.windows[b]
    /\ win.window_monitors[a] = win.window_monitors[b]
    /\ ScopeOf[items[win.windows[a]]].kind # "OnMonitors"
    => a = b

\* A slot changes its item only by being empty in between, and it loses its
\* item only with everything that item had: no window, subscription or id
\* is inherited by the item that takes the slot next.
DestroyLeavesNothing ==
  [][\A idx \in Live : items'[idx] # items[idx] =>
       /\ items'[idx] = NoItem
       /\ \A id \in DOMAIN surfaces' : surfaces'[id].item # items[idx]
       /\ \A f \in Filter : <<f, idx>> \notin subscriptions'
       /\ \A id \in DOMAIN index' : index'[id] # idx]_vars

\* A window only disappears while its output is still there because its own
\* item closed it: the table operations of one item never close another's.
CloseOnlyOwn ==
  [][\A id \in DOMAIN surfaces \ DOMAIN surfaces' :
       \/ monitors' # monitors /\ surfaces[id].monitor \notin Range(monitors')
       \/ \A other \in DOMAIN surfaces \ DOMAIN surfaces' :
            surfaces[other].item = surfaces[id].item]_vars

\* docs/content/modules/widgets.md:41: the `monitor` of a desktop widget is by
\* default the "first monitor".  A widget is a Visible item of scope First.
ShownOnFirstMonitor ==
  \A idx \in active :
    /\ VisibilityOf[items[idx]] = "Visible" /\ ScopeOf[items[idx]].kind = "First"
    /\ monitors # <<>>
    => WindowsOf(win, idx) # {}

\* The tables agree, in every order of commands, drawings and outputs: those of the
\* windows with one another, the index with the slots, and what a transient item
\* has open with whether it is shown.
TablesAgree == WindowTablesAgree /\ IndexComplete /\ HiddenTransientHasNoWindow

\* Slots that are freed and taken again mix nothing up: surfaces keep their item,
\* the free list is exact, nobody refers to an empty slot, and no id leads to another's.
SlotsAreSound == SurfacesKeepTheirItem /\ FreeListExact /\ OnlyLiveSlotsReferenced /\ IndexSound
=============================================================================
