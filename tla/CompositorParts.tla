-------------------------- MODULE CompositorParts ---------------------------
(***************************************************************************)
(* The clients of the four kinds of compositor (crates/compositor/src):    *)
(* a session has one of them.  None shares state with another.             *)
(***************************************************************************)
EXTENDS Integers, Sequences, FiniteSets

CONSTANTS
  SwayWin, NoSwayWin, SwayWorkspace, SwayOutput, MaxSwayEvents,
  NiriWin, NoNiriWin, NiriSpace, OutputOf, MaxNiriEvents,
  HyprWin, NoHyprWin, HyprSpace, HomeOf, HyprOutput, MaxHyprEvents,
  Toplevel, NoToplevel, FbSpace, FbOutput, NoFbOutput, MaxFbEvents

VARIABLES
  sway, sway_events, sway_state, sway_step, sway_changed, sway_resync, sway_untold,
  sway_lost, sway_ended, sway_count,
  niri, niri_events, replayed, niri_state, niri_untold, niri_lost, niri_ended,
  niri_count,
  hypr, hypr_socket, hypr_bridge, hypr_channel, hypr_wake, hypr_state, hypr_urgent,
  hypr_known, hypr_step, hypr_changed, hypr_answer, hypr_untold, hypr_lost,
  hypr_count,
  fb, fb_events, fb_bound, fb_inner, fb_state, fb_untold, fb_broken, fb_count

Sw == INSTANCE Sway
Ni == INSTANCE Niri
Hy == INSTANCE Hyprland
Fb == INSTANCE Fallback

swayVars ==
  <<sway, sway_events, sway_state, sway_step, sway_changed, sway_resync,
    sway_untold, sway_lost, sway_ended, sway_count>>
niriVars ==
  <<niri, niri_events, replayed, niri_state, niri_untold, niri_lost, niri_ended,
    niri_count>>
hyprVars ==
  <<hypr, hypr_socket, hypr_bridge, hypr_channel, hypr_wake, hypr_state,
    hypr_urgent, hypr_known, hypr_step, hypr_changed, hypr_answer, hypr_untold,
    hypr_lost, hypr_count>>
fbVars ==
  <<fb, fb_events, fb_bound, fb_inner, fb_state, fb_untold, fb_broken, fb_count>>

-----------------------------------------------------------------------------
(* What the clients may be used with.                                       *)

ASSUME SwayAssumption == NoSwayWin \notin SwayWin
ASSUME HyprlandAssumption == \A w \in HyprWin : HomeOf[w] \in HyprSpace
ASSUME FallbackAssumption ==
  /\ NoToplevel \notin Toplevel /\ NoFbOutput \notin FbOutput
  /\ IsFiniteSet(FbSpace) /\ FbSpace # {} /\ FbOutput # {}

=============================================================================
