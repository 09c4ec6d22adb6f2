------------------------------- MODULE Audio -------------------------------
(***************************************************************************)
(* The audio service (crates/services/src/audio.rs): the volume and the    *)
(* output devices as wpctl and pactl tell them, the media players on the   *)
(* session bus and the one that is primary; the panel's components for     *)
(* sound and for what is playing, and the sound menu.                      *)
(*                                                                         *)
(* The user's choice of a player goes two ways at once: to a file, at      *)
(* once, and to the loop, as a command.  A restart reads the file.         *)
(***************************************************************************)
EXTENDS Naturals, Sequences, FiniteSets, FiniteSetsExt

CONSTANTS
  Bus,          \* the names players have on the bus, in their order: numbers
  IdentityOf,   \* which player each is
  NoBus,
  MaxAudioEvents \* bound: clicks, changes of players and volume, restarts

VARIABLES
  sound, players,       \* the world: volume and sink, and each bus's player
  audio_loop,           \* "down", "select", or the command whose refresh is next
  pactl, owners, props, \* lines and signals that wait
  audio_state, mpris,         \* what is published: sound; the players and the primary one
  audio_selected, file,       \* the choice, in memory and on disk
  audio_cmds, audio_panel, audio_drawn, audio_signal, audio_unseen,
  unsaved, audio_count

audioVars == <<sound, players, audio_loop, pactl, owners, props, audio_state, mpris, audio_selected, file, audio_cmds,
               audio_panel, audio_drawn, audio_signal, audio_unseen, unsaved, audio_count>>
waiting == <<pactl, owners, props>>
shell == <<audio_panel, audio_drawn, file, unsaved>>
pipe  == <<audio_signal, audio_unseen>>

Volume == 0..2
PlayerState == {"gone", "idle", "stopped", "playing"} \* idle: without a title
AudioCmd(op, arg) == [op |-> op, arg |-> arg]
NoSelection == [bus |-> NoBus, identity |-> NoBus]
Selection(b) == [bus |-> b, identity |-> IdentityOf[b]]
Bump == audio_signal' = "written" /\ audio_unseen' = TRUE
Counted == audio_count < MaxAudioEvents /\ audio_count' = audio_count + 1

----------------------------------------------------------------------------
\* The chosen player, under its name or under another name with the same
\* identity; else the first that plays, that has a title, that is there.
Preferred(ps, sel) ==
  LET here == {b \in Bus : ps[b] # "gone"}
      kinds == <<{b \in here : b = sel.bus},
                 {b \in here : sel.identity # NoBus /\ IdentityOf[b] = sel.identity},
                 {b \in here : ps[b] = "playing"}, {b \in here : ps[b] # "idle"}, here>>
      k == Min({i \in 1..5 : kinds[i] # {}} \cup {6})
  IN  IF k = 6 THEN NoBus ELSE Min(kinds[k])
ChoosePlayer(ps, sel) == [players |-> ps, primary |-> Preferred(ps, sel)]

RefreshMpris(sel, always) ==
  /\ mpris' = ChoosePlayer(players, sel)
  /\ IF always \/ mpris' # mpris THEN Bump ELSE UNCHANGED pipe

Start ==
  /\ audio_loop = "down" /\ audio_loop' = "select"
  /\ audio_state' = sound /\ RefreshMpris(audio_selected, TRUE)
  /\ pactl' = FALSE /\ owners' = FALSE /\ props' = FALSE
  /\ UNCHANGED <<sound, players, audio_selected, audio_cmds, shell, audio_count>>

OnPactl ==
  /\ audio_loop = "select" /\ pactl /\ pactl' = FALSE
  /\ audio_state' = sound /\ IF sound # audio_state THEN Bump ELSE UNCHANGED pipe
  /\ UNCHANGED <<sound, players, audio_loop, owners, props, mpris, audio_selected, audio_cmds, shell, audio_count>>
OnOwners ==
  /\ audio_loop = "select" /\ owners /\ owners' = FALSE /\ RefreshMpris(audio_selected, TRUE)
  /\ UNCHANGED <<sound, players, audio_loop, pactl, props, audio_state, audio_selected, audio_cmds, shell, audio_count>>
OnProps ==
  /\ audio_loop = "select" /\ props /\ props' = FALSE /\ RefreshMpris(audio_selected, FALSE)
  /\ UNCHANGED <<sound, players, audio_loop, pactl, owners, audio_state, audio_selected, audio_cmds, shell, audio_count>>
Fallback ==
  /\ audio_loop = "select" /\ mpris # ChoosePlayer(players, audio_selected) /\ RefreshMpris(audio_selected, FALSE)
  /\ UNCHANGED <<sound, players, audio_loop, waiting, audio_state, audio_selected, audio_cmds, shell, audio_count>>

\* A command is carried out first, and the mirrors are read again afterwards.
\* Media keys go to the player that is primary in the mirror: it may be gone.
Toggled(b) == [players EXCEPT ![b] = CASE @ = "gone" -> @ [] @ = "playing" -> "stopped" [] OTHER -> "playing"]
TakeCmd ==
  LET c == Head(audio_cmds) IN
  /\ audio_loop = "select" /\ audio_cmds # <<>> /\ audio_cmds' = Tail(audio_cmds) /\ audio_loop' = c.op
  /\ sound' = CASE c.op = "volume" -> [sound EXCEPT !.volume = c.arg]
                [] c.op = "louder" -> [sound EXCEPT !.volume = Min({2, @ + 1})]
                [] c.op = "quieter" -> [sound EXCEPT !.volume = Max({0, @ - 1})]
                [] c.op = "mute" -> [sound EXCEPT !.muted = ~@]
                [] c.op = "sink" -> [sound EXCEPT !.sink = c.arg]
                [] OTHER -> sound
  /\ players' = IF c.op = "play_pause" /\ mpris.primary # NoBus THEN Toggled(mpris.primary) ELSE players
  /\ pactl' = (pactl \/ sound' # sound) /\ props' = (props \/ players' # players)
  /\ audio_selected' = IF c.op = "select_player" THEN Selection(c.arg) ELSE audio_selected
  /\ UNCHANGED <<owners, audio_state, mpris, shell, pipe, audio_count>>
FinishCmd ==
  /\ audio_loop \notin {"down", "select"} /\ audio_loop' = "select"
  /\ mpris' = IF audio_loop = "select_player" THEN ChoosePlayer(players, audio_selected) ELSE mpris
  /\ audio_state' = sound /\ Bump
  /\ UNCHANGED <<sound, players, waiting, audio_selected, audio_cmds, shell, audio_count>>

----------------------------------------------------------------------------
Titled(m) == m.primary # NoBus /\ m.players[m.primary] # "idle"
NowPlaying == Titled(mpris)     \* the component is there at all
Track == IF Titled(mpris) THEN mpris.players[mpris.primary] ELSE "none"
Face == [volume |-> audio_state.volume, muted |-> audio_state.muted, track |-> Track, now |-> NowPlaying]
Drawn == [state |-> audio_state, mpris |-> mpris]

\* The menu: volume, the primary player's card, the players when there are
\* several, and the sinks.  The panel offers steps, mute and media keys.
Header == {AudioCmd("mute", NoBus), AudioCmd("louder", NoBus), AudioCmd("quieter", NoBus)}
Slider == {AudioCmd("volume", v) : v \in Volume}
Card(d) == IF Titled(d.mpris) THEN {AudioCmd("play_pause", NoBus)} ELSE {}
PlayerRow(b) == AudioCmd("select_player", b)
SinkRow(s) == AudioCmd("sink", s)
Offers(d) ==
  LET here == {b \in Bus : d.mpris.players[b] # "gone"}
  IN  Header \cup Slider \cup Card(d) \cup {SinkRow(s) : s \in 1..2}
      \cup (IF Cardinality(here) > 1 THEN {PlayerRow(b) : b \in here} ELSE {})
PanelOffers == Header \cup (IF audio_panel.now THEN {AudioCmd("play_pause", NoBus)} ELSE {})

\* The foreground service passes commands on; a chosen player is also saved,
\* which may fail.
Click(c, saved) ==
  /\ Counted /\ c \in Offers(audio_drawn) \cup PanelOffers
  /\ audio_cmds' = Append(audio_cmds, c)
  /\ file' = IF c.op = "select_player" /\ saved THEN Selection(c.arg) ELSE file
  /\ unsaved' = (unsaved \/ (c.op = "select_player" /\ ~saved))
  /\ audio_drawn' = Drawn
  /\ UNCHANGED <<sound, players, audio_loop, waiting, audio_state, mpris, audio_selected, audio_panel, pipe>>

Drain ==
  /\ audio_signal = "written" /\ audio_signal' = "drained"
  /\ UNCHANGED <<sound, players, audio_loop, waiting, audio_state, mpris, audio_selected, audio_cmds, shell, audio_unseen, audio_count>>
\* The component for sound compares revisions, the one for what is playing
\* draws at every signal.
Look ==
  /\ audio_signal = "drained" /\ audio_signal' = "empty" /\ audio_unseen' = FALSE
  /\ audio_panel' = IF audio_unseen THEN Face ELSE [audio_panel EXCEPT !.now = NowPlaying]
  /\ UNCHANGED <<sound, players, audio_loop, waiting, audio_state, mpris, audio_selected, audio_cmds, file, unsaved,
                 audio_drawn, audio_count>>

VolumeChanges ==
  /\ Counted /\ \E v \in Volume : v # sound.volume /\ sound' = [sound EXCEPT !.volume = v]
  /\ pactl' = (audio_loop # "down")
  /\ UNCHANGED <<players, audio_loop, owners, props, audio_state, mpris, audio_selected, audio_cmds, shell, pipe>>
PlayerChanges ==
  /\ Counted
  /\ \E b \in Bus, s \in PlayerState :
       /\ s # players[b] /\ players' = [players EXCEPT ![b] = s]
       /\ owners' = (owners \/ (audio_loop # "down" /\ "gone" \in {s, players[b]}))
       /\ props' = (props \/ (audio_loop # "down" /\ "gone" \notin {s, players[b]}))
  /\ UNCHANGED <<sound, audio_loop, pactl, audio_state, mpris, audio_selected, audio_cmds, shell, pipe>>

\* The shell restarts: what it had in memory is gone, commands too.
Restart ==
  /\ Counted /\ audio_loop' = "down" /\ audio_cmds' = <<>> /\ audio_selected' = file
  /\ pactl' = FALSE /\ owners' = FALSE /\ props' = FALSE
  /\ audio_state' = [volume |-> 0, muted |-> FALSE, sink |-> 1]
  /\ mpris' = [players |-> [b \in Bus |-> "gone"], primary |-> NoBus]
  /\ audio_signal' = "empty" /\ audio_unseen' = FALSE
  /\ audio_panel' = [volume |-> 0, muted |-> FALSE, track |-> "none", now |-> FALSE]
  /\ audio_drawn' = [state |-> audio_state', mpris |-> mpris'] /\ unsaved' = FALSE
  /\ UNCHANGED <<sound, players, file>>

----------------------------------------------------------------------------
Init ==
  /\ sound = [volume |-> 1, muted |-> FALSE, sink |-> 1] /\ players = [b \in Bus |-> IF b = 1 THEN "gone" ELSE "stopped"]
  /\ audio_loop = "down" /\ pactl = FALSE /\ owners = FALSE /\ props = FALSE
  /\ audio_state = [volume |-> 0, muted |-> FALSE, sink |-> 1]
  /\ mpris = [players |-> [b \in Bus |-> "gone"], primary |-> NoBus]
  /\ file \in {NoSelection} \cup {Selection(b) : b \in Bus} /\ audio_selected = file
  /\ audio_cmds = <<>> /\ audio_panel = Face /\ audio_drawn = Drawn
  /\ audio_signal = "empty" /\ audio_unseen = FALSE /\ unsaved = FALSE /\ audio_count = 0

Loop == Start \/ OnPactl \/ OnOwners \/ OnProps \/ Fallback \/ TakeCmd \/ FinishCmd
Next == \/ Loop \/ Drain \/ Look \/ VolumeChanges \/ PlayerChanges \/ Restart
        \/ \E c \in Offers(audio_drawn) \cup PanelOffers, saved \in BOOLEAN : Click(c, saved)
Spec == Init /\ [][Next]_audioVars

TypeOK ==
  /\ audio_loop \in {"down", "select", "volume", "louder", "quieter", "mute", "sink", "play_pause", "select_player"}
  /\ audio_state.volume \in Volume /\ mpris.primary \in Bus \cup {NoBus}
  /\ audio_signal \in {"empty", "written", "drained"}

\* When nothing is signalled, the panel shows what the service published.
PanelFresh == audio_signal = "empty" => audio_panel = Face

\* Between two commands the primary player is the one the choice makes it:
\* the chosen one as long as it is there, under whatever name.
PrimaryFollowsSelection ==
  audio_loop = "select" => mpris.primary = Preferred(mpris.players, audio_selected)

\* A restart brings back the player that was chosen last: the choice in memory
\* differs from the saved one only while the command is under way.
SelectionSurvives ==
  LET choices == {i \in DOMAIN audio_cmds : audio_cmds[i].op = "select_player"}
  IN  unsaved \/ file = IF choices = {} THEN audio_selected ELSE Selection(audio_cmds[Max(choices)].arg)
=============================================================================
