------------------------------ MODULE Network ------------------------------
(***************************************************************************)
(* The network service (crates/services/src/network.rs), the panel's       *)
(* component and the menu that show it, and the commands of the user.      *)
(*                                                                         *)
(* net_loop mirrors NetworkManager: a signal only says what to read again. *)
(* Every publication raises a revision and writes a pipe; the shell drains *)
(* the pipe, then compares revisions, then draws.  A click acts on what    *)
(* was drawn, and may meet a mirror that has changed since.                *)
(*                                                                         *)
(* One wireless and one wired device; reads that fail one by one are left  *)
(* out, and so are addresses and icons.                                    *)
(***************************************************************************)
EXTENDS Naturals, Sequences, FiniteSets

CONSTANTS
  Ap,          \* access points (paths)
  SsidOf,      \* the name each announces
  Signal,      \* its strength
  Late,        \* those that come into reach later (no path is used twice)
  Secured,     \* the names that ask for a password
  NoSsid,      \* no name, no access point
  MaxNetEvents \* bound: clicks, changes of NetworkManager and lost loops

VARIABLES
  nm,          \* NetworkManager itself
  net_loop,    \* the task: "down", "starting", "listening" or the command it runs
  signals,     \* signals net_loop has not handled
  known,       \* its access points, the names it marks as saved, its devices
  saved_ssids, \* the cache of saved names: a set of at most one set
  net_state, net_busy, scanning, scan_until,  \* what is published; the timer
  net_cmds,
  net_menu,    \* selected_ssid, password and info_ssid
  net_drawn, net_panel, \* what the menu and the panel show
  net_signal,  \* the pipe: "empty", "written", or "drained" and not yet acted upon
  unseen,      \* the revision is not the one the panel saw last
  missed,      \* NetworkManager changed while nobody listened
  net_count

netVars == <<nm, net_loop, signals, known, saved_ssids, net_state, net_busy, scanning, scan_until,
             net_cmds, net_menu, net_drawn, net_panel, net_signal, unseen, missed, net_count>>
service == <<net_loop, signals, known, saved_ssids, net_state, net_busy, scanning, scan_until>>
shown   == <<net_drawn, net_panel, net_menu>>

Ssid == {SsidOf[p] : p \in Ap}
NetCmd(op, ssid, password) == [op |-> op, ssid |-> ssid, password |-> password]
\* A password is the name of the network it was typed for.
NoMenu == [selected |-> NoSsid, password |-> NoSsid, info |-> NoSsid]
Bump == net_signal' = "written" /\ unseen' = TRUE
Counted == net_count < MaxNetEvents /\ net_count' = net_count + 1

----------------------------------------------------------------------------
\* Of the access points of one name the one in use is shown, else the strongest.
Best(aps, active, s) ==
  LET same == {p \in aps : SsidOf[p] = s}
  IN  IF active \in same THEN active ELSE CHOOSE p \in same : \A q \in same : Signal[q] <= Signal[p]

Publish(radio, k) ==
  LET joined == k.active \in k.aps /\ k.up
  IN  [radio |-> radio, eth |-> k.eth,
       networks |-> {[ssid |-> s, in_use |-> Best(k.aps, k.active, s) = k.active, saved |-> s \in k.marks] :
                       s \in {SsidOf[p] : p \in k.aps}},
       wifi |-> IF joined THEN SsidOf[k.active] ELSE NoSsid,
       connected |-> CASE joined -> SsidOf[k.active]
                       [] k.up /\ ~joined -> "Network"
                       [] ~k.up /\ k.eth = "up" -> "Ethernet"
                       [] OTHER -> NoSsid]

LoadSaved == IF saved_ssids = {} THEN nm.saved ELSE UNION saved_ssids

\* Reads devices anew; access points only join, and only an empty map is
\* filled by refresh_devices.
Refreshed(all, cache) ==
  [aps |-> known.aps \cup (IF all /\ known.aps # {} THEN {} ELSE nm.present),
   marks |-> cache, active |-> nm.active, up |-> nm.up, eth |-> nm.eth]

Refresh(all, cache) ==
  /\ known' = Refreshed(all, cache)
  /\ saved_ssids' = {cache}
  /\ net_state' = Publish(net_state.radio, known')

\* Nothing is signalled when the radio has not changed.
RefreshRadio ==
  IF nm.radio # net_state.radio
  THEN net_state' = [net_state EXCEPT !.radio = nm.radio] /\ Bump
  ELSE UNCHANGED <<net_state, net_signal, unseen>>

----------------------------------------------------------------------------
\* The connection is made and everything is read, and only then subscribed to.
Start ==
  /\ net_loop = "down"
  /\ net_loop' = "starting"
  /\ known' = [aps |-> nm.present, marks |-> LoadSaved, active |-> nm.active, up |-> nm.up, eth |-> nm.eth]
  /\ saved_ssids' = {LoadSaved}
  /\ net_state' = Publish(nm.radio, known')
  /\ missed' = FALSE /\ Bump
  /\ UNCHANGED <<nm, signals, net_busy, scanning, scan_until, net_cmds, shown, net_count>>

Subscribe ==
  /\ net_loop = "starting"
  /\ net_loop' = "listening" /\ scan_until' = FALSE /\ signals' = {}
  /\ UNCHANGED <<nm, known, saved_ssids, net_state, net_busy, scanning, net_cmds, net_signal, unseen,
                 missed, shown, net_count>>

\* An error ends the loop, and run() starts another after a while: the timer
\* of a scan goes with it, the flag does not.
Lose ==
  /\ net_loop \in {"starting", "listening"} /\ Counted
  /\ net_loop' = "down" /\ signals' = {} /\ scan_until' = FALSE /\ missed' = TRUE
  /\ UNCHANGED <<nm, known, saved_ssids, net_state, net_busy, scanning, net_cmds, net_signal, unseen, shown>>

OnSignal(sig) ==
  /\ net_loop = "listening" /\ sig \in signals
  /\ signals' = signals \ {sig}
  /\ CASE sig = "radio" -> RefreshRadio /\ UNCHANGED <<known, saved_ssids>>
       [] sig = "devices" -> Refresh(TRUE, LoadSaved) /\ Bump
       [] sig = "device" -> Refresh(FALSE, LoadSaved) /\ Bump
       [] OTHER -> /\ known' = [known EXCEPT !.aps = @ \ {sig}]
                   /\ net_state' = Publish(net_state.radio, known') /\ Bump
                   /\ UNCHANGED saved_ssids
  /\ UNCHANGED <<nm, net_loop, net_busy, scanning, scan_until, net_cmds, missed, shown, net_count>>

\* A command blocks the loop until NetworkManager has answered.
TakeCmd ==
  /\ net_loop = "listening" /\ net_cmds # <<>>
  /\ net_cmds' = Tail(net_cmds)
  /\ IF Head(net_cmds).op = "scan"
     THEN /\ scanning' = TRUE /\ scan_until' = TRUE
          /\ UNCHANGED <<net_loop, net_busy>>
     ELSE /\ net_loop' = Head(net_cmds).op /\ net_busy' = TRUE
          /\ UNCHANGED <<scanning, scan_until>>
  /\ Bump
  /\ UNCHANGED <<nm, signals, known, saved_ssids, net_state, missed, shown, net_count>>

\* What NetworkManager makes of a command: all of it, or an error.
Outcome(op) ==
  {nm} \cup
  CASE op = "connect" -> {[nm EXCEPT !.active = p, !.up = TRUE, !.saved = @ \cup {SsidOf[p]}] : p \in nm.present}
    [] op = "disconnect" -> {[nm EXCEPT !.active = NoSsid, !.up = FALSE]}
    [] op = "wired" -> {[nm EXCEPT !.eth = CASE @ = "none" -> "none" [] @ = "up" -> "down" [] OTHER -> "up"]}
    [] OTHER -> {[nm EXCEPT !.radio = ~@]}

FinishCmd ==
  /\ net_loop \in {"connect", "disconnect", "wired", "toggle"}
  /\ net_loop' = "listening" /\ net_busy' = FALSE
  /\ nm' \in Outcome(net_loop)
  /\ IF net_loop = "toggle"
     THEN /\ net_state' = [net_state EXCEPT !.radio = nm'.radio]
          /\ UNCHANGED <<known, saved_ssids, signals>>
     ELSE LET cache == IF net_loop = "wired" THEN LoadSaved ELSE nm'.saved
          IN  /\ known' = [aps |-> IF known.aps # {} THEN known.aps ELSE nm'.present,
                           marks |-> cache, active |-> nm'.active, up |-> nm'.up, eth |-> nm'.eth]
              /\ saved_ssids' = {cache}
              /\ net_state' = Publish(net_state.radio, known')
              /\ signals' = signals \cup {"device"}
  /\ Bump
  /\ UNCHANGED <<scanning, scan_until, net_cmds, missed, shown, net_count>>

ScanOver ==
  /\ net_loop = "listening" /\ scan_until
  /\ scan_until' = FALSE /\ scanning' = FALSE /\ Bump
  /\ UNCHANGED <<nm, net_loop, signals, known, saved_ssids, net_state, net_busy, net_cmds, missed, shown, net_count>>

----------------------------------------------------------------------------
\* What the panel and the menu read when they are drawn.
Face == [wifi |-> net_state.wifi,
         icon |-> CASE net_state.wifi # NoSsid -> "signal"
                    [] net_state.wifi = NoSsid /\ net_state.eth = "up" -> "wired"
                    [] OTHER -> IF net_state.radio THEN "offline" ELSE "disabled"]
Drawn == [state |-> net_state, scanning |-> scanning, menu |-> net_menu]

Item(what, ssid, password) == [what |-> what, ssid |-> ssid, password |-> password]

\* The rows the menu offers: those of the connection it gives details of, or
\* the list with, below a selected network, the field for its password.
ApRow(n) ==
  Item(CASE n.in_use -> "info"
         [] ~n.in_use /\ (n.ssid \notin Secured \/ n.saved) -> "connect"
         [] OTHER -> "select", n.ssid, NoSsid)
PasswordRow(d, n) ==
  IF n.ssid \in Secured /\ ~n.in_use /\ ~n.saved /\ d.menu.selected = n.ssid
  THEN {Item("password", n.ssid, n.ssid), Item("connect", n.ssid, d.menu.password)} ELSE {}
ToggleRow == {Item("toggle", NoSsid, NoSsid)}
ScanRow(d) == IF d.scanning THEN {} ELSE {Item("scan", NoSsid, NoSsid)}
EthRow(d) == IF d.state.eth = "none" THEN {} ELSE {Item("wired", NoSsid, NoSsid)}
InfoRows == {Item(w, NoSsid, NoSsid) : w \in {"disconnect", "edit", "back"}}
Offers(d) ==
  IF d.menu.info # NoSsid /\ d.state.wifi = d.menu.info THEN InfoRows
  ELSE ToggleRow \cup ScanRow(d) \cup EthRow(d)
       \cup UNION {{ApRow(n)} \cup PasswordRow(d, n) : n \in d.state.networks}

\* A click: the foreground service acts, and the menu is drawn anew.
Click(i) ==
  /\ i \in Offers(net_drawn)
  /\ net_cmds' = IF i.what \in {"connect", "disconnect", "wired", "toggle", "scan"}
                 THEN Append(net_cmds, NetCmd(i.what, i.ssid, i.password)) ELSE net_cmds
  /\ net_menu' = CASE i.what \in {"disconnect", "wired"} -> NoMenu
                   [] i.what = "info" -> [NoMenu EXCEPT !.info = i.ssid]
                   [] i.what = "back" -> [net_menu EXCEPT !.info = NoSsid]
                   [] i.what = "select" -> [net_menu EXCEPT !.selected = i.ssid, !.password = NoSsid]
                   [] i.what = "password" -> [net_menu EXCEPT !.password = i.password]
                   [] OTHER -> net_menu
  /\ net_drawn' = [Drawn EXCEPT !.menu = net_menu'] /\ Counted
  /\ UNCHANGED <<nm, service, net_panel, net_signal, unseen, missed>>

\* NET_CHANGED: the component empties the pipe, then looks at the revision.
Drain ==
  /\ net_signal = "written" /\ net_signal' = "drained"
  /\ UNCHANGED <<nm, service, net_cmds, shown, unseen, missed, net_count>>
Look ==
  /\ net_signal = "drained" /\ net_signal' = "empty"
  /\ net_panel' = IF unseen THEN Face ELSE net_panel
  /\ unseen' = FALSE /\ net_drawn' = Drawn
  /\ UNCHANGED <<nm, service, net_cmds, net_menu, missed, net_count>>

\* NetworkManager changes, and announces it.
NmChanges(next, sig) ==
  /\ Counted
  /\ nm' = next /\ next # nm
  /\ signals' = IF net_loop \in {"down", "starting"} THEN {} ELSE signals \cup {sig}
  /\ missed' = (missed \/ net_loop = "starting")
  /\ UNCHANGED <<net_loop, known, saved_ssids, net_state, net_busy, scanning, scan_until, net_cmds,
                 shown, net_signal, unseen>>

RadioToggled == NmChanges([nm EXCEPT !.radio = ~@], "radio")
Appears == \E p \in nm.late : NmChanges([nm EXCEPT !.present = @ \cup {p}, !.late = @ \ {p}], "device")
Vanishes == \E p \in nm.present \ {nm.active} : NmChanges([nm EXCEPT !.present = @ \ {p}], p)
Drops == nm.active # NoSsid /\ NmChanges([nm EXCEPT !.active = NoSsid, !.up = FALSE], "device")
Plugged == \E e \in {"none", "down", "up"} : NmChanges([nm EXCEPT !.eth = e], "devices")
Forgotten == \E s \in nm.saved : NmChanges([nm EXCEPT !.saved = @ \ {s}], "device")

----------------------------------------------------------------------------
Init ==
  /\ nm = [radio |-> TRUE, present |-> Ap \ Late, late |-> Late, active |-> NoSsid, up |-> FALSE, eth |-> "down", saved |-> {}]
  /\ net_loop = "down" /\ signals = {} /\ saved_ssids = {} /\ net_cmds = <<>>
  /\ known = [aps |-> {}, marks |-> {}, active |-> NoSsid, up |-> FALSE, eth |-> "none"]
  /\ net_state = Publish(TRUE, known)
  /\ net_busy = FALSE /\ scanning = FALSE /\ scan_until = FALSE
  /\ net_menu = NoMenu /\ net_drawn = Drawn /\ net_panel = Face
  /\ net_signal = "empty" /\ unseen = FALSE /\ missed = TRUE
  /\ net_count = 0

Loop == Start \/ Subscribe \/ (\E sig \in signals : OnSignal(sig)) \/ TakeCmd \/ FinishCmd \/ ScanOver
Shell == Drain \/ Look
World == RadioToggled \/ Appears \/ Vanishes \/ Drops \/ Plugged \/ Forgotten
Next == Loop \/ Shell \/ World \/ Lose \/ (\E i \in Offers(net_drawn) : Click(i))

\* The runtime polls its tasks and timers, the event loop delivers what it
\* watches; NetworkManager, users and errors are free.
Fairness ==
  /\ WF_netVars(Start \/ Subscribe) /\ WF_netVars(ScanOver) /\ WF_netVars(Shell)
  /\ WF_netVars(TakeCmd \/ FinishCmd) /\ WF_netVars(\E sig \in signals : OnSignal(sig))
Spec == Init /\ [][Next]_netVars /\ Fairness

----------------------------------------------------------------------------
TypeOK ==
  /\ net_loop \in {"down", "starting", "listening", "connect", "disconnect", "wired", "toggle"}
  /\ signals \subseteq Ap \cup {"radio", "devices", "device"}
  /\ known.aps \subseteq Ap /\ known.marks \subseteq Ssid
  /\ net_signal \in {"empty", "written", "drained"}

\* When nothing is signalled, the panel shows what the service published:
\* draining before comparing revisions loses no publication.
PanelFresh == net_signal = "empty" => net_panel = Face

\* A loop that listens, has nothing to handle and missed nothing mirrors
\* NetworkManager: its access points, its devices and the radio.
MirrorFollows ==
  net_loop = "listening" /\ signals = {} /\ ~missed
    => /\ net_state.radio = nm.radio /\ net_state.eth = nm.eth
       /\ {n.ssid : n \in net_state.networks} = {SsidOf[p] : p \in nm.present}
       /\ net_state.wifi = IF nm.up THEN SsidOf[nm.active] ELSE NoSsid

\* A password goes to the network it was typed for: choosing another network,
\* or asking for details, forgets it.
PasswordFits ==
  /\ net_menu.password \in {NoSsid, net_menu.selected}
  /\ \A k \in DOMAIN net_cmds : net_cmds[k].password \in {NoSsid, net_cmds[k].ssid}
=============================================================================
