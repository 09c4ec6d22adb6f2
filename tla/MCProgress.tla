----------------------------- MODULE MCProgress -----------------------------
(***************************************************************************)
(* The parts of the shell that promise progress: the plugins' services,    *)
(* the mirrors of the network, Bluetooth and power, the pop-ups of         *)
(* notifications and the panels.  None shares state with another, so one   *)
(* run takes them one at a time: `part` is the one that runs, and the      *)
(* others stay as they were started.                                       *)
(***************************************************************************)
EXTENDS MCPluginServices, Sequences

CONSTANTS
  a1, a2, b1,
  Ap, SsidOf, Signal, Late, Secured, NoSsid, MaxNetEvents,
  Device, NoDevice, ForegroundOp, MaxBtEvents,
  MaxBrightness, Charge, Profile, MaxPowerEvents,
  Block, MaxVisible, MaxCards, MaxCardEvents,
  Output, MaxPanelEvents

ASSUME ProgressAssumption ==
  /\ MaxCards \in Nat /\ MaxVisible \in Nat \ {0}
  /\ MaxBrightness \in Nat \ {0} /\ Charge # {} /\ Profile # {}
  /\ Late \subseteq Ap /\ Ap \cap {"radio", "devices", "device"} = {} /\ NoSsid \notin Ap
  /\ ForegroundOp \subseteq {"power", "scan", "connect", "disconnect", "pair", "remove", "confirm", "trust"}
  /\ Output # {}

VARIABLES
  part,
  nm, net_loop, signals, known, saved_ssids, net_state, net_busy, scanning,
  scan_until, net_cmds, net_menu, net_drawn, net_panel, net_signal, unseen, missed,
  net_count,
  bluez, bt_loop, adapter_path, bt_dirty, bt_snapshot, tasks, bt_state, bt_cmds,
  bt_menu, bt_drawn, bt_panel, bt_signal, bt_unseen, bt_count,
  power, proxies, power_loop, news, power_state, power_cmds, power_panel,
  power_signal, power_unseen, intended, power_count,
  cards, cards_next, cards_wake, cards_queue, last_count, closing, last_items,
  cards_item, cards_drawn, announced, cards_dirty, replies, crossed, cards_count,
  panel_file, panel_watch, animate, last_configs, panel, panel_wins, outputs,
  reserved, panel_drawn, panel_dirty, astray, panel_count

Net == INSTANCE Network
Bt == INSTANCE Bluetooth
Pow == INSTANCE Power
Cards == INSTANCE NotificationPopups
Pan == INSTANCE Panels

netVars ==
  <<nm, net_loop, signals, known, saved_ssids, net_state, net_busy, scanning,
    scan_until, net_cmds, net_menu, net_drawn, net_panel, net_signal, unseen,
    missed, net_count>>
btVars ==
  <<bluez, bt_loop, adapter_path, bt_dirty, bt_snapshot, tasks, bt_state, bt_cmds,
    bt_menu, bt_drawn, bt_panel, bt_signal, bt_unseen, bt_count>>
powerVars ==
  <<power, proxies, power_loop, news, power_state, power_cmds, power_panel,
    power_signal, power_unseen, intended, power_count>>
cardVars ==
  <<cards, cards_next, cards_wake, cards_queue, last_count, closing, last_items,
    cards_item, cards_drawn, announced, cards_dirty, replies, crossed, cards_count>>
panelVars ==
  <<panel_file, panel_watch, animate, last_configs, panel, panel_wins, outputs,
    reserved, panel_drawn, panel_dirty, astray, panel_count>>

Parts == {"plugins", "network", "bluetooth", "power", "cards", "panels"}

PartsInit ==
  /\ part \in Parts
  /\ Init
  /\ Net!Init /\ Bt!Init /\ Pow!Init /\ Cards!Init /\ Pan!Init
  /\ part = "power" \/ power.brightness = 0
  /\ part = "panels" \/ ~panel.autohide

PluginServicesRun ==
  /\ part = "plugins" /\ Next
  /\ UNCHANGED <<part, netVars, btVars, powerVars, cardVars, panelVars>>
NetworkRuns ==
  /\ part = "network" /\ Net!Next
  /\ UNCHANGED <<part, vars, btVars, powerVars, cardVars, panelVars>>
BluetoothRuns ==
  /\ part = "bluetooth" /\ Bt!Next
  /\ UNCHANGED <<part, vars, netVars, powerVars, cardVars, panelVars>>
PowerRuns ==
  /\ part = "power" /\ Pow!Next
  /\ UNCHANGED <<part, vars, netVars, btVars, cardVars, panelVars>>
CardsRun ==
  /\ part = "cards" /\ Cards!Next
  /\ UNCHANGED <<part, vars, netVars, btVars, powerVars, panelVars>>
PanelsRun ==
  /\ part = "panels" /\ Pan!Next
  /\ UNCHANGED <<part, vars, netVars, btVars, powerVars, cardVars>>

PartsNext ==
  \/ PluginServicesRun \/ NetworkRuns \/ BluetoothRuns \/ PowerRuns \/ CardsRun
  \/ PanelsRun

partsVars ==
  <<part, vars, netVars, btVars, powerVars, cardVars, panelVars>>

\* The Fairness of each part, for the part that runs.
Fair ==
  /\ \A c \in Callers : WF_vars(part = "plugins" /\ InStart(c))
  /\ \A t \in Thread : WF_vars(part = "plugins" /\ Ending(t))
  /\ WF_netVars(part = "network" /\ (Net!Start \/ Net!Subscribe))
  /\ WF_netVars(part = "network" /\ Net!ScanOver)
  /\ WF_netVars(part = "network" /\ Net!Shell)
  /\ WF_netVars(part = "network" /\ (Net!TakeCmd \/ Net!FinishCmd))
  /\ WF_netVars(part = "network" /\ \E sig \in signals : Net!OnSignal(sig))
  /\ WF_btVars(part = "bluetooth" /\ (Bt!Start \/ Bt!Publish))
  /\ WF_btVars(part = "bluetooth" /\ Bt!Spawn)
  /\ SF_btVars(part = "bluetooth" /\ Bt!OnSignal)
  /\ SF_btVars(part = "bluetooth" /\ Bt!Tick)
  /\ WF_btVars(part = "bluetooth" /\ \E t \in tasks : Bt!Task(t))
  /\ WF_btVars(part = "bluetooth" /\ (Bt!Drain \/ Bt!Look))
  /\ WF_powerVars(part = "power" /\ (Pow!Start \/ Pow!OpenUevents))
  /\ WF_powerVars(part = "power" /\ Pow!OnSignal)
  /\ WF_powerVars(part = "power" /\ Pow!OnUevent)
  /\ WF_powerVars(part = "power" /\ Pow!Poll)
  /\ WF_powerVars(part = "power" /\ (Pow!TakeCmd \/ Pow!FinishCmd))
  /\ WF_powerVars(part = "power" /\ Pow!ProxiesLearn)
  /\ WF_powerVars(part = "power" /\ Pow!Shell)
  /\ WF_cardVars(part = "cards" /\ Cards!Shell)
  /\ WF_cardVars(part = "cards" /\ Cards!SlideEnds)
  /\ WF_panelVars(part = "panels" /\ Pan!Arrives)
  /\ WF_panelVars(part = "panels" /\ Pan!Settles)

PartsSpec == PartsInit /\ [][PartsNext]_partsVars /\ Fair

-----------------------------------------------------------------------------
\* Two access points of one network, and a stronger one of another.
MCSsidOf == [p \in Ap |-> IF p = b1 THEN "b" ELSE "a"]
MCSignal == [p \in Ap |-> CASE p = a1 -> 1 [] p = a2 -> 2 [] OTHER -> 3]

-----------------------------------------------------------------------------
\* Every variable of the parts has its type.
PartsTypeOK ==
  /\ TypeOK
  /\ part \in Parts /\ Net!TypeOK /\ Bt!TypeOK /\ Pow!TypeOK /\ Cards!TypeOK /\ Pan!TypeOK

\* A notification pipe with nothing in it means that the panel shows what the
\* service published: a service publishes and then writes, a panel empties the
\* pipe and then looks, and no publication falls between the two.  And a loop that
\* listens, has nothing to handle and missed nothing mirrors NetworkManager.
PanelsFollow == Net!PanelFresh /\ Bt!PanelFresh /\ Pow!PanelFresh /\ Net!MirrorFollows

\* What is asked for is what was meant: a password goes to the network it was
\* typed for, brightness steps add up however stale what was drawn, and the menu
\* says that it is connecting only while a task is at it.
CommandsFit == Net!PasswordFits /\ Pow!StepsAddUp /\ Bt!ConnectingIsReal

\* Cards that everybody has heard of have a window, unless a late end of the
\* closing animation, or a monitor that went, took it from them.
CardsHaveWindow == Cards!CardsHaveWindow

\* A panel that is shown keeps its place reserved and has its window on every
\* output; at rest it is tucked away or not as the pointer says; and it asks for
\* frames exactly while it moves: through reloads, commands, outputs and moves.
PanelsAreWhole ==
  Pan!ShownPanelReserves /\ Pan!ShownEverywhere /\ Pan!RestsAsHovered /\ Pan!FramesFollowAnimation

\* What is under way ends: the scan of networks, unless its loop was lost; a mirror
\* of Bluetooth or power that is behind (snapshots are published out of order, and
\* signals come before the proxies know); a window without cards; a panel's move.
UnderWay ==
  CASE part = "network" -> scanning /\ scan_until
    [] part = "bluetooth" -> bt_state # Bt!Snapshot(bluez)
    [] part = "power" -> power_state # power
    [] part = "cards" -> cards_item.window /\ cards = <<>>
    [] part = "panels" -> panel.anim # "none"
    [] OTHER -> FALSE
Over ==
  CASE part = "network" -> ~scanning \/ net_loop = "down"
    [] part = "panels" -> panel.anim = "none" \/ ~panel.active
    [] OTHER -> ~UnderWay
EverythingSettles == UnderWay ~> Over
=============================================================================
