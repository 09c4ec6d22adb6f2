------------------------------- MODULE Power -------------------------------
(***************************************************************************)
(* The power service (crates/services/src/power.rs), the panel's component *)
(* and the menu that show battery and brightness, and their commands.      *)
(*                                                                         *)
(* power_loop reads everything again whenever anything is announced, after *)
(* each command and once a minute, and publishes when something shown has  *)
(* changed.  Battery and profile come through proxies that remember what   *)
(* they were told; brightness is read from the kernel, which announces it  *)
(* on a socket that is opened after the first reading.                     *)
(***************************************************************************)
EXTENDS Integers, Sequences, FiniteSets, FiniteSetsExt

CONSTANTS
  MaxBrightness,  \* the brightest of the levels 1, 2, ...; 0 is dark
  Charge,         \* what a battery may say
  Profile,
  MaxPowerEvents  \* bound: clicks and changes of the world

VARIABLES
  power,       \* the world: brightness, charge, profile
  proxies,     \* what the proxies remember of charge and profile
  power_loop,  \* "down", "starting", "listening" or "refresh" (after a command)
  news,        \* signals and events that wait
  power_state, \* what is published
  power_cmds, power_panel, power_signal, power_unseen,
  intended,    \* the brightness the commands so far ask for
  power_count

powerVars == <<power, proxies, power_loop, news, power_state, power_cmds, power_panel,
               power_signal, power_unseen, intended, power_count>>
pipe == <<power_signal, power_unseen>>

Level == 0..MaxBrightness
PowerCmd(op, arg) == [op |-> op, arg |-> arg]
Bump == power_signal' = "written" /\ power_unseen' = TRUE
Counted == power_count < MaxPowerEvents /\ power_count' = power_count + 1
\* Commands never turn the screen off.
Clamp(n) == Max({1, Min({MaxBrightness, n})})
\* What a command makes of a brightness: a step starts from the one it finds.
After(c, b) == CASE c.op = "set" -> Clamp(c.arg) [] c.op = "step" -> Clamp(b + c.arg) [] OTHER -> b
\* The commands that wait lead from one brightness to another, one after the other.
Lead(b, end) ==
  \E r \in [0..Len(power_cmds) -> Level] :
    /\ r[0] = b /\ r[Len(power_cmds)] = end
    /\ \A i \in DOMAIN power_cmds : r[i] = After(power_cmds[i], r[i - 1])

----------------------------------------------------------------------------
Reading == [brightness |-> power.brightness, charge |-> proxies.charge, profile |-> proxies.profile]

RefreshAll(always) ==
  /\ power_state' = Reading
  /\ IF always \/ Reading # power_state THEN Bump ELSE UNCHANGED pipe

\* Mutant: a change of the brightness is not told.
WrongRefreshBrightness ==
  power_state' = [power_state EXCEPT !.brightness = power.brightness] /\ UNCHANGED pipe

RefreshBrightness ==
  /\ power_state' = [power_state EXCEPT !.brightness = power.brightness]
  /\ IF power_state' # power_state THEN Bump ELSE UNCHANGED pipe

Start ==
  /\ power_loop = "down" /\ power_loop' = "starting"
  /\ proxies' = [charge |-> power.charge, profile |-> power.profile]
  /\ power_state' = [brightness |-> power.brightness, charge |-> power.charge, profile |-> power.profile]
  /\ Bump
  /\ UNCHANGED <<power, news, power_cmds, power_panel, intended, power_count>>

OpenUevents ==
  /\ power_loop = "starting" /\ power_loop' = "listening"
  /\ UNCHANGED <<power, proxies, news, power_state, power_cmds, power_panel, pipe, intended, power_count>>

\* A signal of the daemons: the streams give it to the loop, and elsewhere to
\* the proxies, whichever comes first.
OnSignal ==
  /\ power_loop = "listening" /\ "signal" \in news /\ news' = news \ {"signal"}
  /\ RefreshAll(FALSE)
  /\ UNCHANGED <<power, proxies, power_loop, power_cmds, power_panel, intended, power_count>>
OnUevent ==
  /\ power_loop = "listening" /\ "uevent" \in news /\ news' = news \ {"uevent"}
  /\ RefreshBrightness
  /\ UNCHANGED <<power, proxies, power_loop, power_cmds, power_panel, intended, power_count>>
\* Mutant: the minute's reading is one of the brightness only.
WrongPoll ==
  /\ power_loop = "listening" /\ Reading # power_state /\ RefreshBrightness
  /\ UNCHANGED <<power, proxies, power_loop, news, power_cmds, power_panel, intended, power_count>>
Poll ==
  /\ power_loop = "listening" /\ Reading # power_state /\ RefreshAll(FALSE)
  /\ UNCHANGED <<power, proxies, power_loop, news, power_cmds, power_panel, intended, power_count>>
ProxiesLearn ==
  /\ power_loop # "down" /\ proxies' = [charge |-> power.charge, profile |-> power.profile]
  /\ proxies' # proxies
  /\ UNCHANGED <<power, power_loop, news, power_state, power_cmds, power_panel, pipe, intended, power_count>>

\* Mutant: a step starts from the brightness that was published.
WrongTakeCmd ==
  LET c == Head(power_cmds)
      b == After(c, power_state.brightness)
  IN  /\ power_loop = "listening" /\ power_cmds # <<>>
      /\ power_cmds' = Tail(power_cmds) /\ power_loop' = "refresh"
      /\ power' = [power EXCEPT !.brightness = b]
      /\ news' = news \cup (IF b # power.brightness THEN {"uevent"} ELSE {})
      /\ UNCHANGED <<proxies, power_state, power_panel, pipe, intended, power_count>>

\* The command is carried out, and the kernel announces what it did; what was
\* done is read and published afterwards.
TakeCmd ==
  LET c == Head(power_cmds)
      b == After(c, power.brightness)
  IN  /\ power_loop = "listening" /\ power_cmds # <<>>
      /\ power_cmds' = Tail(power_cmds) /\ power_loop' = "refresh"
      /\ power' = [power EXCEPT !.brightness = b]
      /\ news' = news \cup (IF b # power.brightness THEN {"uevent"} ELSE {})
      /\ UNCHANGED <<proxies, power_state, power_panel, pipe, intended, power_count>>
FinishCmd ==
  /\ power_loop = "refresh" /\ power_loop' = "listening" /\ RefreshAll(TRUE)
  /\ UNCHANGED <<power, proxies, news, power_cmds, power_panel, intended, power_count>>

----------------------------------------------------------------------------
Face == [brightness |-> power_state.brightness, charge |-> power_state.charge]

\* The menu always has a slider from 1, two buttons, and a pill per profile.
\* The wheel over the panel steps as well.
Buttons == {PowerCmd("step", -1), PowerCmd("step", 1)}
Slider == {PowerCmd("set", v) : v \in 1..MaxBrightness}
Pills == {PowerCmd("profile", p) : p \in Profile}
Offers == Slider \cup Buttons \cup Pills

\* The foreground service passes on what has the payload it expects: a pill
\* sends the name of its profile instead of the profile, and nothing comes of it.
Carries(c) == c.op # "profile"
Click(c) ==
  /\ Counted /\ c \in Offers
  /\ power_cmds' = IF Carries(c) THEN Append(power_cmds, c) ELSE power_cmds
  /\ intended' = After(c, intended)
  /\ UNCHANGED <<power, proxies, power_loop, news, power_state, power_panel, pipe>>

\* The component compares revisions.
Drain ==
  /\ power_signal = "written" /\ power_signal' = "drained"
  /\ UNCHANGED <<power, proxies, power_loop, news, power_state, power_cmds, power_panel,
                 power_unseen, intended, power_count>>
Look ==
  /\ power_signal = "drained" /\ power_signal' = "empty"
  /\ power_panel' = IF power_unseen THEN Face ELSE power_panel
  /\ power_unseen' = FALSE
  /\ UNCHANGED <<power, proxies, power_loop, news, power_state, power_cmds, intended, power_count>>

\* The keys of a laptop, its battery, another program.
BrightnessChanges ==
  /\ Counted
  /\ \E b \in Level : /\ b # power.brightness /\ power' = [power EXCEPT !.brightness = b]
                      /\ intended' \in {end \in Level : Lead(b, end)}
  /\ news' = news \cup (IF power_loop \in {"down", "starting"} THEN {} ELSE {"uevent"})
  /\ UNCHANGED <<proxies, power_loop, power_state, power_cmds, power_panel, pipe>>
DaemonChanges ==
  /\ Counted
  /\ \E c \in Charge, p \in Profile : power' = [power EXCEPT !.charge = c, !.profile = p]
  /\ power' # power
  /\ news' = news \cup (IF power_loop = "down" THEN {} ELSE {"signal"})
  /\ UNCHANGED <<proxies, power_loop, power_state, power_cmds, power_panel, pipe, intended>>

----------------------------------------------------------------------------
Init ==
  /\ power \in [brightness : Level, charge : {CHOOSE c \in Charge : TRUE}, profile : {CHOOSE p \in Profile : TRUE}]
  /\ proxies = [charge |-> power.charge, profile |-> power.profile]
  /\ power_loop = "down" /\ news = {} /\ power_cmds = <<>>
  /\ power_state = [power EXCEPT !.brightness = 0]
  /\ power_panel = Face
  /\ power_signal = "empty" /\ power_unseen = FALSE
  /\ intended = power.brightness /\ power_count = 0

Loop == Start \/ OpenUevents \/ OnSignal \/ OnUevent \/ Poll \/ TakeCmd \/ FinishCmd
Shell == Drain \/ Look
Next == Loop \/ ProxiesLearn \/ Shell \/ BrightnessChanges \/ DaemonChanges \/ \E c \in Offers : Click(c)

\* The runtime polls its tasks and timers, the proxies' task among them, and
\* the event loop delivers what it watches.
Fairness ==
  /\ WF_powerVars(Start \/ OpenUevents) /\ WF_powerVars(OnSignal) /\ WF_powerVars(OnUevent)
  /\ WF_powerVars(Poll) /\ WF_powerVars(TakeCmd \/ FinishCmd) /\ WF_powerVars(ProxiesLearn) /\ WF_powerVars(Shell)
Spec == Init /\ [][Next]_powerVars /\ Fairness

TypeOK ==
  /\ power_loop \in {"down", "starting", "listening", "refresh"} /\ news \subseteq {"signal", "uevent"}
  /\ power.brightness \in Level /\ power_state.brightness \in Level
  /\ power_signal \in {"empty", "written", "drained"}

\* When nothing is signalled, the panel shows what the service published.
PanelFresh == power_signal = "empty" => power_panel = Face

\* Steps add up: the brightness that the commands still waiting will lead to is
\* the one asked for, however stale what was drawn, published or announced.
StepsAddUp == Lead(power.brightness, intended)
=============================================================================
