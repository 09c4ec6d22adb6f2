----------------------------- MODULE Bluetooth -----------------------------
(***************************************************************************)
(* The Bluetooth service (crates/services/src/bluetooth.rs), the panel's   *)
(* component, the menu and the commands of the user.                       *)
(*                                                                         *)
(* bt_loop reads all of BlueZ's objects on every signal and every tick.    *)
(* Every command is a task of its own that calls BlueZ, then reads all     *)
(* objects too: a snapshot may be published after a newer one.  The menu's *)
(* buttons act on what was drawn.                                          *)
(***************************************************************************)
EXTENDS Naturals, Sequences

CONSTANTS
  Device, NoDevice,
  ForegroundOp,  \* of power, scan, connect, disconnect, pair, remove, confirm and trust
  MaxBtEvents    \* bound: clicks, commands of others and changes of BlueZ

VARIABLES
  bluez,       \* BlueZ itself: its adapter, its devices
  bt_loop,     \* "down", "select", or "refresh": it has read, and publishes next
  adapter_path, bt_dirty, \* what the loop found; a signal waits
  bt_snapshot, \* what the loop has read
  tasks,       \* one for each command
  bt_state,    \* what is published
  bt_cmds, bt_menu, bt_drawn, bt_panel, bt_signal, bt_unseen, bt_count

btVars == <<bluez, bt_loop, adapter_path, bt_dirty, bt_snapshot, tasks, bt_state, bt_cmds, bt_menu, bt_drawn,
            bt_panel, bt_signal, bt_unseen, bt_count>>
loop  == <<bt_loop, adapter_path, bt_dirty, bt_snapshot>>
shell == <<bt_cmds, bt_drawn, bt_panel>>
pipe  == <<bt_signal, bt_unseen>>

\* A device is out of reach, in reach, paired or connected.
DeviceState == {"gone", "near", "paired", "connected"}
BtCmd(op, addr, on) == [op |-> op, addr |-> addr, on |-> on]
Bump == bt_signal' = "written" /\ bt_unseen' = TRUE
Counted == bt_count < MaxBtEvents /\ bt_count' = bt_count + 1

Snapshot(b) == IF b.adapter THEN b ELSE [b EXCEPT !.powered = FALSE, !.discovering = FALSE, !.discoverable = FALSE]

----------------------------------------------------------------------------
Start ==
  /\ bt_loop = "down" /\ bt_loop' = "select"
  /\ bt_state' = Snapshot(bluez) /\ adapter_path' = bluez.adapter /\ bt_dirty' = FALSE /\ Bump
  /\ UNCHANGED <<bluez, bt_snapshot, tasks, bt_menu, shell, bt_count>>

Read(why) ==
  /\ bt_loop = "select" /\ why /\ bt_loop' = "refresh"
  /\ bt_snapshot' = Snapshot(bluez) /\ bt_dirty' = FALSE
  /\ UNCHANGED <<bluez, adapter_path, tasks, bt_state, bt_menu, shell, pipe, bt_count>>
OnSignal == Read(bt_dirty)
Tick == Read(Snapshot(bluez) # bt_state)

\* The path of an adapter is kept when the adapter has gone.
Publish ==
  /\ bt_loop = "refresh" /\ bt_loop' = "select"
  /\ bt_state' = bt_snapshot /\ bt_snapshot' = NoDevice /\ adapter_path' = (adapter_path \/ bt_snapshot.adapter) /\ Bump
  /\ UNCHANGED <<bluez, bt_dirty, tasks, bt_menu, shell, bt_count>>

\* A command becomes a task; one that meets no adapter only refreshes.
Spawn ==
  /\ bt_loop = "select" /\ bt_cmds # <<>>
  /\ bt_cmds' = Tail(bt_cmds)
  /\ tasks' = tasks \cup {[id |-> bt_count - Len(bt_cmds), cmd |-> Head(bt_cmds),
                           at |-> IF adapter_path THEN "call" ELSE "read", snap |-> NoDevice]}
  /\ UNCHANGED <<bluez, loop, bt_state, bt_menu, bt_drawn, bt_panel, pipe, bt_count>>

Goes(t, at) == tasks' = (tasks \ {t}) \cup {[t EXCEPT !.at = at]}

\* BlueZ does what it was asked to, or refuses; what it does it announces.
With(dev, s) == [bluez EXCEPT !.devices = [@ EXCEPT ![dev] = s]]
Asked(c) ==
  CASE c.op = "power" -> [bluez EXCEPT !.powered = ~bt_state.powered]
    [] c.op = "scan" -> [bluez EXCEPT !.discovering = c.on]
    [] c.op = "discoverable" -> [bluez EXCEPT !.discoverable = ~bt_state.discoverable]
    [] c.op = "connect" -> With(c.addr, "connected")
    [] c.op = "disconnect" -> With(c.addr, "paired")
    [] c.op = "pair" -> [With(c.addr, "paired") EXCEPT !.trusted = @ \cup {c.addr}]
    [] c.op = "trust" -> [bluez EXCEPT !.trusted = IF c.on THEN @ \cup {c.addr} ELSE @ \ {c.addr}]
    [] OTHER -> [With(c.addr, "near") EXCEPT !.trusted = @ \ {c.addr}]
Answer(c, ok) ==
  /\ ok => bluez.adapter /\ (c.addr # NoDevice => bluez.devices[c.addr] # "gone")
  /\ bluez' = IF ok THEN Asked(c) ELSE bluez
  /\ bt_dirty' = (bt_dirty \/ ok)

Call(t, ok) ==
  /\ t.at = "call" /\ t.cmd.op # "connect" /\ Answer(t.cmd, ok) /\ Goes(t, "read")
  /\ UNCHANGED <<bt_loop, adapter_path, bt_snapshot, bt_state, bt_menu, shell, pipe, bt_count>>

\* Connecting to a device that is not paired pairs it, trusts it and tries
\* again; connecting_device says that an attempt is under way.
ConnectBegins(t) ==
  /\ t.at = "call" /\ t.cmd.op = "connect" /\ Goes(t, "connect")
  /\ bt_menu' = [bt_menu EXCEPT !.connecting = t.cmd.addr]
  /\ UNCHANGED <<bluez, loop, bt_state, shell, pipe, bt_count>>
ConnectEnds(t, ok) ==
  /\ t.at \in {"connect", "again"} /\ Answer(t.cmd, ok)
  /\ IF t.at = "connect" /\ ~ok /\ bt_state.devices[t.cmd.addr] = "near"
     THEN Goes(t, "pair") /\ UNCHANGED bt_menu
     ELSE Goes(t, "read") /\ bt_menu' = [bt_menu EXCEPT !.connecting = NoDevice]
  /\ UNCHANGED <<bt_loop, adapter_path, bt_snapshot, bt_state, shell, pipe, bt_count>>
ConnectPairs(t, ok) ==
  /\ t.at = "pair" /\ Answer(BtCmd("pair", t.cmd.addr, FALSE), ok) /\ Goes(t, "again")
  /\ UNCHANGED <<bt_loop, adapter_path, bt_snapshot, bt_state, bt_menu, shell, pipe, bt_count>>

TaskReads(t) ==
  /\ t.at = "read"
  /\ tasks' = (tasks \ {t}) \cup {[t EXCEPT !.at = "publish", !.snap = Snapshot(bluez)]}
  /\ UNCHANGED <<bluez, loop, bt_state, bt_menu, shell, pipe, bt_count>>
TaskPublishes(t) ==
  /\ t.at = "publish" /\ tasks' = tasks \ {t} /\ bt_state' = t.snap /\ Bump
  /\ UNCHANGED <<bluez, loop, bt_menu, shell, bt_count>>

----------------------------------------------------------------------------
Face == [powered |-> bt_state.powered, connected |-> \E d \in Device : bt_state.devices[d] = "connected"]
Drawn == [state |-> bt_state, menu |-> bt_menu]

\* What the menu offers: rows for the adapter while it is on, and for each
\* device its own click, a button, its trust and its removal, which asks back.
DeviceRow(d, a) ==
  LET s == d.state.devices[a]  t == a \in d.state.trusted  asks == d.menu.confirming = a
  IN  (CASE s = "connected" -> {BtCmd("disconnect", a, FALSE)}
         [] s = "paired" -> {BtCmd("connect", a, FALSE)}
         [] OTHER -> {BtCmd("pair", a, FALSE), BtCmd("connect", a, FALSE)})
      \cup (IF s = "near" THEN {} ELSE {BtCmd("trust", a, ~t), BtCmd(IF asks THEN "remove" ELSE "confirm", a, FALSE)})
      \cup (IF asks THEN {BtCmd("cancel", a, FALSE)} ELSE {})
ToggleRow == {BtCmd("power", NoDevice, FALSE)}
DiscoverableRow == {BtCmd("discoverable", NoDevice, FALSE)}
ScanRow(d) == {BtCmd("scan", NoDevice, ~d.state.discovering)}
Offers(d) ==
  ToggleRow \cup (IF d.state.powered
    THEN DiscoverableRow \cup ScanRow(d)
         \cup UNION {DeviceRow(d, a) : a \in {x \in Device : d.state.devices[x] # "gone"}}
    ELSE {})

\* A click sends the command itself; the foreground service sends the same
\* commands for others, at any time.
Click(c) ==
  /\ Counted /\ c \in Offers(bt_drawn)
  /\ bt_cmds' = IF c.op \in {"confirm", "cancel"} THEN bt_cmds ELSE Append(bt_cmds, c)
  /\ bt_menu' = [bt_menu EXCEPT !.confirming = IF c.op = "confirm" THEN c.addr
                                               ELSE IF c.op \in {"cancel", "remove"} THEN NoDevice ELSE @]
  /\ bt_drawn' = [Drawn EXCEPT !.menu = bt_menu']
  /\ UNCHANGED <<bluez, loop, tasks, bt_state, bt_panel, pipe>>

Foreground(op, a) ==
  /\ Counted
  /\ bt_cmds' = CASE op = "confirm" -> bt_cmds
                  [] op = "scan" -> Append(bt_cmds, BtCmd("scan", NoDevice, ~bt_state.discovering))
                  [] op = "power" -> Append(bt_cmds, BtCmd("power", NoDevice, FALSE))
                  [] OTHER -> Append(bt_cmds, BtCmd(op, a, op = "trust"))
  /\ bt_menu' = [bt_menu EXCEPT !.confirming = IF op = "confirm" THEN IF @ = a THEN NoDevice ELSE a
                                               ELSE IF op = "remove" THEN NoDevice ELSE @]
  /\ UNCHANGED <<bluez, loop, tasks, bt_state, bt_drawn, bt_panel, pipe>>

Drain ==
  /\ bt_signal = "written" /\ bt_signal' = "drained"
  /\ UNCHANGED <<bluez, loop, tasks, bt_state, bt_menu, shell, bt_unseen, bt_count>>
\* Only the panel is drawn anew: the menu has no on_event.
Look ==
  /\ bt_signal = "drained" /\ bt_signal' = "empty"
  /\ bt_panel' = IF bt_unseen THEN Face ELSE bt_panel
  /\ bt_unseen' = FALSE
  /\ UNCHANGED <<bluez, loop, tasks, bt_state, bt_menu, bt_cmds, bt_drawn, bt_count>>

BluezChanges ==
  /\ Counted
  /\ \/ bluez' = [bluez EXCEPT !.adapter = ~@]
     \/ \E a \in Device, s \in DeviceState : s # bluez.devices[a] /\ bluez' = With(a, s)
  /\ bt_dirty' = (bt_loop # "down")
  /\ UNCHANGED <<bt_loop, adapter_path, bt_snapshot, tasks, bt_state, bt_menu, shell, pipe>>

----------------------------------------------------------------------------
Init ==
  /\ bluez \in [adapter : {TRUE}, powered : {TRUE}, discovering : {FALSE}, discoverable : {FALSE},
                devices : [Device -> {"near"}], trusted : {{}}]
  /\ bt_loop = "down" /\ adapter_path = FALSE /\ bt_dirty = FALSE /\ tasks = {} /\ bt_cmds = <<>>
  /\ bt_state = [adapter |-> FALSE, powered |-> FALSE, discovering |-> FALSE, discoverable |-> FALSE,
                 devices |-> [d \in Device |-> "gone"], trusted |-> {}]
  /\ bt_snapshot = NoDevice
  /\ bt_menu = [confirming |-> NoDevice, connecting |-> NoDevice]
  /\ bt_drawn = Drawn /\ bt_panel = Face /\ bt_signal = "empty" /\ bt_unseen = FALSE
  /\ bt_count = 0

Task(t) ==
  \/ ConnectBegins(t) \/ TaskReads(t) \/ TaskPublishes(t)
  \/ \E ok \in BOOLEAN : Call(t, ok) \/ ConnectEnds(t, ok) \/ ConnectPairs(t, ok)
Loop == Start \/ OnSignal \/ Tick \/ Publish \/ Spawn
Next == \/ Loop \/ Drain \/ Look \/ BluezChanges \/ (\E t \in tasks : Task(t))
        \/ (\E c \in Offers(bt_drawn) : Click(c)) \/ (\E op \in ForegroundOp, a \in Device : Foreground(op, a))

\* The runtime polls the loop and its tasks, BlueZ answers every call, and
\* the ticker comes round.
Fairness ==
  /\ WF_btVars(Start \/ Publish) /\ WF_btVars(Spawn) /\ SF_btVars(OnSignal) /\ SF_btVars(Tick)
  /\ WF_btVars(\E t \in tasks : Task(t)) /\ WF_btVars(Drain \/ Look)
Spec == Init /\ [][Next]_btVars /\ Fairness

----------------------------------------------------------------------------
TypeOK ==
  /\ bt_loop \in {"down", "select", "refresh"} /\ bt_state.devices \in [Device -> DeviceState]
  /\ \A t \in tasks : t.at \in {"call", "connect", "pair", "again", "read", "publish"}
  /\ {bt_menu.confirming, bt_menu.connecting} \subseteq Device \cup {NoDevice}
  /\ bt_signal \in {"empty", "written", "drained"}

\* When nothing is signalled, the panel shows what the service published.
PanelFresh == bt_signal = "empty" => bt_panel = Face

\* The menu says that it is connecting only while a task is at it: every way
\* out of the attempts, the failed ones too, takes the mark back.
ConnectingIsReal ==
  bt_menu.connecting # NoDevice => \E t \in tasks : t.at \in {"connect", "pair", "again"}
=============================================================================
