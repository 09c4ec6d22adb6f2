------------------------------ MODULE MCSession -----------------------------
(***************************************************************************)
(* What the shell shows of the session, and does for the user: audio, the  *)
(* tray, the clients of the four kinds of compositor, popups and menus,    *)
(* the components of a panel and the spotlight.  None shares state with    *)
(* another, so one run takes them one at a time: `part` is the one that    *)
(* runs, and the others stay as they were started.                         *)
(***************************************************************************)
EXTENDS ShellParts, CompositorParts, TLC

VARIABLE part

\* Two buses of one player and one of another; three workspaces on two outputs;
\* windows and the workspaces they are on; how many results each style shows.
MCIdentityOf == <<"x", "y", "x">>
MCOutputOf == <<"o1", "o1", "o2">>
MCHomeOf == [w \in HyprWin |-> IF w = CHOOSE v \in HyprWin : TRUE THEN 2 ELSE 1]
MCPage == [style \in Styles |-> IF style = "grid" THEN 2 ELSE 1]

\* Files in which clocks and the notch move, change their options, share a label,
\* and are grouped.
AnItem(label, comp, opt) == [label |-> label, comp |-> comp, opt |-> opt]
Single(label, comp, opt) ==
  [label |-> label, group |-> FALSE, items |-> <<AnItem(label, comp, opt)>>, prefix |-> <<>>, menu |-> "none"]
Group(items, prefix, menu) == [label |-> "a", group |-> TRUE, items |-> items, prefix |-> prefix, menu |-> menu]
File(left, center, right) == [left |-> left, center |-> center, right |-> right]
X(opt) == AnItem("x", "clock", opt)
Notch == Single("n", "notch", 1)
Empty == File(<<>>, <<>>, <<>>)
MCConfigs ==
  {Empty,
   File(<<Single("a", "clock", 1)>>, <<>>, <<Notch>>),
   File(<<>>, <<Notch>>, <<Single("a", "clock", 1)>>),
   File(<<Single("a", "clock", 2), Single("b", "clock", 1)>>, <<>>, <<>>),
   File(<<Single("b", "clock", 1), Single("a", "clock", 1)>>, <<>>, <<>>),
   File(<<Single("a", "clock", 1), Single("a", "clock", 2)>>, <<>>, <<>>),
   File(<<Group(<<X(1)>>, <<AnItem("p", "clock", 1)>>, "m")>>, <<>>, <<>>),
   File(<<Group(<<X(2), X(1)>>, <<>>, "m")>>, <<>>, <<>>),
   File(<<Group(<<AnItem("y", "clock", 1), X(1)>>, <<AnItem("q", "clock", 2)>>, "none")>>,
        <<Group(<<X(1)>>, <<>>, "none")>>, <<>>),
   File(<<Single("a", "notch", 1)>>, <<>>, <<>>)}
MCNewItems == {AnItem("b", "clock", 1), AnItem("a", "notch", 1)}

Parts ==
  {"audio", "tray", "sway", "niri", "hyprland", "fallback", "popups", "components", "spotlight"}

PartsInit ==
  /\ part \in Parts
  /\ Sound!Init /\ Icons!Init /\ Sw!Init /\ Ni!Init /\ Hy!Init /\ Fb!Init /\ Pop!Init /\ Comp!Init /\ Spot!Init
  /\ part = "audio" \/ file = Sound!NoSelection
  /\ part = "tray" \/ icons = Icons!Nothing
  /\ part = "components" \/ comp_conf = Empty
  /\ part = "spotlight" \/ ~library.cache_enabled

AudioRuns ==
  /\ part = "audio" /\ Sound!Next
  /\ UNCHANGED <<part, trayVars, swayVars, niriVars, hyprVars, fbVars, popupVars,
                   compVars, spotVars>>
TrayRuns ==
  /\ part = "tray" /\ Icons!Next
  /\ UNCHANGED <<part, audioVars, swayVars, niriVars, hyprVars, fbVars, popupVars,
                   compVars, spotVars>>
SwayRuns ==
  /\ part = "sway" /\ Sw!Next
  /\ UNCHANGED <<part, audioVars, trayVars, niriVars, hyprVars, fbVars, popupVars,
                   compVars, spotVars>>
NiriRuns ==
  /\ part = "niri" /\ Ni!Next
  /\ UNCHANGED <<part, audioVars, trayVars, swayVars, hyprVars, fbVars, popupVars,
                   compVars, spotVars>>
HyprlandRuns ==
  /\ part = "hyprland" /\ Hy!Next
  /\ UNCHANGED <<part, audioVars, trayVars, swayVars, niriVars, fbVars, popupVars,
                   compVars, spotVars>>
FallbackRuns ==
  /\ part = "fallback" /\ Fb!Next
  /\ UNCHANGED <<part, audioVars, trayVars, swayVars, niriVars, hyprVars, popupVars,
                   compVars, spotVars>>
PopupsRun ==
  /\ part = "popups" /\ Pop!Next
  /\ UNCHANGED <<part, audioVars, trayVars, swayVars, niriVars, hyprVars, fbVars,
                   compVars, spotVars>>
ComponentsRun ==
  /\ part = "components" /\ Comp!Next
  /\ UNCHANGED <<part, audioVars, trayVars, swayVars, niriVars, hyprVars, fbVars,
                   popupVars, spotVars>>
SpotlightRuns ==
  /\ part = "spotlight" /\ Spot!Next
  /\ UNCHANGED <<part, audioVars, trayVars, swayVars, niriVars, hyprVars, fbVars,
                   popupVars, compVars>>

PartsNext ==
  \/ AudioRuns \/ TrayRuns \/ SwayRuns \/ NiriRuns \/ HyprlandRuns
  \/ FallbackRuns \/ PopupsRun \/ ComponentsRun \/ SpotlightRuns

partsVars ==
  <<part, audioVars, trayVars, swayVars, niriVars, hyprVars, fbVars, popupVars,
    compVars, spotVars>>

PartsSpec == PartsInit /\ [][PartsNext]_partsVars

-----------------------------------------------------------------------------
\* Every variable of the parts has its type.
PartsTypeOK ==
  /\ part \in Parts /\ Sound!TypeOK /\ Icons!TypeOK /\ Sw!TypeOK /\ Ni!TypeOK /\ Hy!TypeOK /\ Fb!TypeOK
  /\ Pop!TypeOK /\ Comp!TypeOK /\ Spot!TypeOK

\* What is copied is what is there, and what is shown is what was copied, unless
\* word of it is under way: the player the user chose, across buses and restarts,
\* and the icons and menus of the tray.  A row goes to the application it is of.
MirrorsFollow ==
  /\ Sound!PanelFresh /\ Sound!PrimaryFollowsSelection /\ Sound!SelectionSurvives
  /\ Icons!PanelFresh /\ Icons!MirrorFollows /\ Icons!AsksForItsOwn

\* The clients of Sway, Niri, Hyprland and of other compositors implement what
\* the shell relies on (CompositorView), Niri's shows what it replayed, and
\* Hyprland's bridge leaves no event behind without a wake-up.
ImplementView ==
  /\ Sw!ImplementsView /\ Ni!ImplementsView /\ Hy!ImplementsView /\ Fb!ImplementsView
  /\ [](Ni!ShowsWhatItReplayed /\ Hy!NothingStranded)

\* A surface over the whole screen always has something to show, the window menu
\* goes with its window, and timers and sampling run for the menu that is current.
MenusFit == [](Pop!SurfaceHasContent /\ Pop!ResourcesFollow) /\ Pop!GoneTargetCloses

\* The actions menu does what its prompt names; the spotlight acts on the results
\* as they were drawn, closing, and moves its selection into view; and a list of
\* applications that is kept is the one that a search would give now.
ActsOnWhatIsShown ==
  /\ Pop!ExecutesWhatItNamed
  /\ [](Spot!ActsOnWhatIsShown /\ Spot!CacheIsCurrent) /\ Spot!RunsAsItCloses /\ Spot!ArrowsReveal

\* A reload gives a panel the cells of the file, and whatever was moved, added or
\* removed, the timers that run are those of its clocks, and the events that it
\* hears those its components want.
ComponentsFollowFile ==
  [](Comp!TimersAreTheClocks /\ Comp!HearsForItsComponents) /\ Comp!ReloadFollowsFile

=============================================================================
