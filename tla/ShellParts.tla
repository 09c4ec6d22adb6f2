----------------------------- MODULE ShellParts -----------------------------
(***************************************************************************)
(* The parts of the shell that the user looks at and clicks: audio, the    *)
(* tray, popups and menus, the components of a panel and the spotlight.    *)
(* None shares state with another.                                         *)
(***************************************************************************)
EXTENDS Integers, Sequences, FiniteSets

CONSTANTS
  Bus, IdentityOf, NoBus, MaxAudioEvents,
  Icon, NoIcon, MaxDepth, MaxTrayEvents,
  Win, NoWin, Action, MaxPopupEvents,
  Configs, NewItems, MaxCompEvents,
  App, Named, Pathed, Page, MaxQuery, MaxSpotEvents

VARIABLES
  sound, players, audio_loop, pactl, owners, props, audio_state, mpris,
  audio_selected, file, audio_cmds, audio_panel, audio_drawn, audio_signal,
  audio_unseen, unsaved, audio_count,
  icons, tray_task, tray_news, tray_missed, tray_shared, tray_bump, tray_wake,
  tray_panel, tray_panel_dirty, selected, nav, tray_open, tray_drawn,
  tray_drawn_dirty, tray_cmds, tray_count,
  desk, known, popup, popup_drawn, popup_dirty, executed, popup_count,
  sections, timers, orphans, subscribed, comp_conf, comp_deployed, muted, comp_count,
  spot, inbox, seen, stale, entries, library, ran, spot_count

Sound == INSTANCE Audio
Icons == INSTANCE Tray
Pop == INSTANCE Popups
Comp == INSTANCE PanelComponents
Spot == INSTANCE Spotlight

audioVars ==
  <<sound, players, audio_loop, pactl, owners, props, audio_state, mpris,
    audio_selected, file, audio_cmds, audio_panel, audio_drawn, audio_signal,
    audio_unseen, unsaved, audio_count>>
trayVars ==
  <<icons, tray_task, tray_news, tray_missed, tray_shared, tray_bump, tray_wake,
    tray_panel, tray_panel_dirty, selected, nav, tray_open, tray_drawn,
    tray_drawn_dirty, tray_cmds, tray_count>>
popupVars ==
  <<desk, known, popup, popup_drawn, popup_dirty, executed, popup_count>>
compVars ==
  <<sections, timers, orphans, subscribed, comp_conf, comp_deployed, muted,
    comp_count>>
spotVars ==
  <<spot, inbox, seen, stale, entries, library, ran, spot_count>>

-----------------------------------------------------------------------------
(* What the parts may be used with.  The cells a file can have are of any   *)
(* length and options; outside a group a cell is its one item.              *)

Styles == {"list", "grid", "image-list"}
MenuNames == STRING \cup {"none"}
ConfItems == [label : STRING, comp : STRING, opt : Nat]
ConfCells ==
  {c \in [label : STRING, group : BOOLEAN, items : Seq(ConfItems), prefix : Seq(ConfItems), menu : MenuNames] :
     Len(c.prefix) <= 1 /\ (~c.group => Len(c.items) = 1 /\ c.items[1].label = c.label)}

ASSUME AudioAssumption == Bus \subseteq Nat
ASSUME TrayAssumption == MaxDepth \in Nat
ASSUME PopupsAssumption == MaxPopupEvents \in Nat
ASSUME ComponentsAssumption == Configs \subseteq [Comp!Section -> Seq(ConfCells)] /\ NewItems \subseteq ConfItems
ASSUME SpotlightAssumption ==
  App \in SUBSET Nat /\ IsFiniteSet(App) /\ Page \in [Styles -> Nat \ {0}] /\ MaxQuery \in Nat

=============================================================================
