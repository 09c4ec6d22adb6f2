-------------------------------- MODULE Tray --------------------------------
(***************************************************************************)
(* The tray service (crates/services/src/tray.rs), the panel's icons and   *)
(* the pop-up with an icon's menu.                                         *)
(*                                                                         *)
(* A client library keeps the icons and their menus, and broadcasts that   *)
(* something changed; whatever it was, everything is copied again.  The    *)
(* menu shown is that of the icon selected last, or a submenu of it that   *)
(* was entered: a copy, made when it was drawn, kept on a stack.           *)
(***************************************************************************)
EXTENDS Integers, Sequences, SequencesExt

CONSTANTS
  Icon, NoIcon,
  MaxDepth,        \* bound: submenus on the stack
  MaxTrayEvents    \* bound: what icons do, failures, and clicks

VARIABLES
  icons,         \* the library's: icon -> version of its menu, 0 while there is none
  tray_task,     \* "starting", "synced", "running" or "dead"
  tray_news,     \* has something been broadcast?
  tray_missed,   \* has something changed before the task subscribed?
  tray_shared,   \* what was copied
  tray_bump, tray_wake,   \* about to write the pipe; written
  tray_panel, tray_panel_dirty,
  selected, nav,
  tray_open, tray_drawn, tray_drawn_dirty,
  tray_cmds,
  tray_count

trayVars == <<icons, tray_task, tray_news, tray_missed, tray_shared, tray_bump, tray_wake, tray_panel,
              tray_panel_dirty, selected, nav, tray_open, tray_drawn, tray_drawn_dirty, tray_cmds, tray_count>>
taskVars == <<tray_task, tray_missed, tray_shared, tray_bump>>
shellVars == <<tray_panel, tray_panel_dirty, selected, nav, tray_open, tray_drawn, tray_drawn_dirty>>

Counted == tray_count < MaxTrayEvents /\ tray_count' = tray_count + 1

\* A menu has a row, and a submenu with a row that is another one in another version.
Row(icon, version, n) == [icon |-> icon, version |-> version, n |-> n]
Submenu == 2
Menu(icon, version) == {Row(icon, 0, 1), Row(icon, version, Submenu)}
Children(row) == {Row(row.icon, row.version, 3)}
Nothing == [icon \in {} |-> 0]

----------------------------------------------------------------------------
(* The library.                                                             *)

Happens(now) ==
  /\ Counted /\ icons' = now
  /\ IF tray_task = "running" THEN tray_news' = TRUE ELSE UNCHANGED tray_news
  /\ tray_missed' = (tray_missed \/ tray_task = "synced")
  /\ UNCHANGED <<tray_task, tray_shared, tray_bump, tray_wake, shellVars, tray_cmds>>
IconComes == \E i \in Icon \ DOMAIN icons :
  Happens([j \in DOMAIN icons \cup {i} |-> IF j = i THEN 0 ELSE icons[j]])
MenuChanges == \E i \in DOMAIN icons : Happens([icons EXCEPT ![i] = IF @ = 1 THEN 2 ELSE 1])
IconGoes == \E i \in DOMAIN icons : Happens([j \in DOMAIN icons \ {i} |-> icons[j]])

----------------------------------------------------------------------------
(* The task.                                                                *)

\* Mutant: the panel is not told.
WrongSync == tray_shared' = icons /\ tray_missed' = FALSE /\ UNCHANGED tray_bump

Sync == tray_shared' = icons /\ tray_missed' = FALSE /\ tray_bump' = TRUE

Start ==
  /\ tray_task = "starting" /\ tray_task' = "synced" /\ Sync
  /\ UNCHANGED <<icons, tray_news, tray_wake, shellVars, tray_cmds, tray_count>>
StartFails ==
  /\ tray_task = "starting" /\ Counted /\ tray_task' = "dead"
  /\ UNCHANGED <<icons, tray_news, tray_missed, tray_shared, tray_bump, tray_wake, shellVars, tray_cmds>>
Notify ==
  /\ tray_bump /\ tray_bump' = FALSE /\ tray_wake' = TRUE
  /\ UNCHANGED <<icons, tray_task, tray_news, tray_missed, tray_shared, shellVars, tray_cmds, tray_count>>
Subscribe ==
  /\ tray_task = "synced" /\ ~tray_bump /\ tray_task' = "running"
  /\ UNCHANGED <<icons, tray_news, tray_missed, tray_shared, tray_bump, tray_wake, shellVars, tray_cmds, tray_count>>
\* A receiver that lags behind is told so, and that is a reason to copy as well.
OnEvent ==
  /\ tray_task = "running" /\ ~tray_bump /\ tray_news /\ tray_news' = FALSE /\ Sync
  /\ UNCHANGED <<icons, tray_task, tray_wake, shellVars, tray_cmds, tray_count>>
Closes ==
  /\ tray_task = "running" /\ ~tray_bump /\ Counted /\ tray_task' = "dead"
  /\ UNCHANGED <<icons, tray_news, tray_missed, tray_shared, tray_bump, tray_wake, shellVars, tray_cmds>>
\* A task of its own passes it on to the icon's application.
TakeCmd ==
  /\ tray_task = "running" /\ ~tray_bump /\ tray_cmds # <<>> /\ tray_cmds' = Tail(tray_cmds)
  /\ UNCHANGED <<icons, tray_news, tray_wake, taskVars, shellVars, tray_count>>
Task == Start \/ StartFails \/ Notify \/ Subscribe \/ OnEvent \/ Closes \/ TakeCmd

----------------------------------------------------------------------------
(* The panel and the pop-up.                                                *)

PanelUpdate ==
  /\ tray_wake /\ tray_wake' = FALSE /\ tray_panel_dirty' = TRUE /\ tray_drawn_dirty' = TRUE
  /\ UNCHANGED <<icons, tray_news, taskVars, tray_panel, selected, nav, tray_open, tray_drawn, tray_cmds, tray_count>>
DrawPanel ==
  /\ tray_panel_dirty /\ tray_panel' = DOMAIN tray_shared /\ tray_panel_dirty' = FALSE
  /\ UNCHANGED <<icons, tray_news, taskVars, tray_wake, selected, nav, tray_open, tray_drawn, tray_drawn_dirty,
                 tray_cmds, tray_count>>

\* Without its menu, the icon that is selected is none.
SelectedMenu ==
  IF selected \in DOMAIN tray_shared THEN (IF tray_shared[selected] > 0 THEN selected ELSE NoIcon) ELSE NoIcon
View ==
  LET i == SelectedMenu
  IN  [icon |-> i, drilled |-> nav # <<>>,
       rows |-> IF nav # <<>> THEN Last(nav) ELSE IF i = NoIcon THEN {} ELSE Menu(i, tray_shared[i])]
Draw ==
  /\ tray_open /\ tray_drawn_dirty /\ tray_drawn' = View /\ tray_drawn_dirty' = FALSE
  /\ UNCHANGED <<icons, tray_news, taskVars, tray_wake, tray_panel, tray_panel_dirty, selected, nav, tray_open,
                 tray_cmds, tray_count>>
Blank == [icon |-> NoIcon, drilled |-> FALSE, rows |-> {}]
Toggled(open) ==
  /\ tray_open' = open /\ tray_drawn_dirty' = TRUE
  /\ tray_drawn' = IF tray_open /\ open THEN tray_drawn ELSE Blank
Cmd(op, icon, row) == [op |-> op, icon |-> icon, row |-> row]
Whole(icon) == Row(icon, 0, 0)

\* The pop-up is toggled: a click on another icon closes it.
ClickIcon == \E i \in tray_panel :
  /\ Counted /\ selected' = i /\ nav' = <<>>
  /\ tray_cmds' = Append(tray_cmds, Cmd("about", i, Whole(i))) /\ Toggled(~tray_open)
  /\ UNCHANGED <<icons, tray_news, taskVars, tray_wake, tray_panel, tray_panel_dirty>>
\* By a command, and by a click beside it.
OpenOrClose == \E open \in BOOLEAN :
  /\ open # tray_open /\ Counted /\ Toggled(open)
  /\ UNCHANGED <<icons, tray_news, taskVars, tray_wake, tray_panel, tray_panel_dirty, selected, nav, tray_cmds>>

\* Rows drawn without an icon send nothing to it.
Send(op, row) ==
  tray_cmds' = IF tray_drawn.icon = NoIcon THEN tray_cmds ELSE Append(tray_cmds, Cmd(op, tray_drawn.icon, row))
ClickSubmenu == \E row \in tray_drawn.rows :
  /\ tray_open /\ row.n = Submenu /\ Len(nav) < MaxDepth /\ Counted
  /\ Send("about", row) /\ nav' = Append(nav, Children(row)) /\ tray_drawn_dirty' = TRUE
  /\ UNCHANGED <<icons, tray_news, taskVars, tray_wake, tray_panel, tray_panel_dirty, selected, tray_open, tray_drawn>>
ClickBack ==
  /\ tray_open /\ tray_drawn.drilled /\ Counted
  /\ nav' = (IF nav = <<>> THEN nav ELSE Front(nav)) /\ tray_drawn_dirty' = TRUE
  /\ UNCHANGED <<icons, tray_news, taskVars, tray_wake, tray_panel, tray_panel_dirty, selected, tray_open, tray_drawn,
                 tray_cmds>>
ClickRow == \E row \in tray_drawn.rows :
  /\ tray_open /\ row.n # Submenu /\ Counted
  /\ Send("activate", row) /\ Toggled(FALSE)
  /\ UNCHANGED <<icons, tray_news, taskVars, tray_wake, tray_panel, tray_panel_dirty, selected, nav>>
Shell == PanelUpdate \/ DrawPanel \/ Draw \/ ClickIcon \/ OpenOrClose \/ ClickSubmenu \/ ClickBack \/ ClickRow

Init ==
  /\ icons \in {Nothing, [i \in Icon |-> 1]} /\ tray_task = "starting" /\ tray_news = FALSE /\ tray_missed = FALSE
  /\ tray_shared = Nothing /\ tray_bump = FALSE /\ tray_wake = FALSE
  /\ tray_panel = {} /\ tray_panel_dirty = FALSE /\ selected = NoIcon /\ nav = <<>>
  /\ tray_open = FALSE /\ tray_drawn = Blank /\ tray_drawn_dirty = FALSE /\ tray_cmds = <<>> /\ tray_count = 0

Next == IconComes \/ MenuChanges \/ IconGoes \/ Task \/ Shell
Spec == Init /\ [][Next]_trayVars

----------------------------------------------------------------------------
TypeOK ==
  /\ tray_task \in {"starting", "synced", "running", "dead"} /\ selected \in Icon \cup {NoIcon}
  /\ Len(nav) <= MaxDepth /\ tray_panel \subseteq Icon /\ tray_drawn.icon \in Icon \cup {NoIcon}

\* Whatever is not shown as it was copied will be: there is a wake-up under way.
PanelFresh ==
  /\ tray_panel # DOMAIN tray_shared => tray_bump \/ tray_wake \/ tray_panel_dirty
  /\ tray_open /\ tray_drawn # View => tray_bump \/ tray_wake \/ tray_drawn_dirty

\* What was copied is what is there, unless word of a change waits, or the change
\* came between the first copy and the subscription, or the task is over.
MirrorFollows ==
  tray_shared # icons => tray_news \/ tray_missed \/ tray_task \in {"starting", "dead"}

\* An application is only asked for rows of its own, however its menu and other
\* icons were opened before.
AsksForItsOwn == \A i \in DOMAIN tray_cmds : tray_cmds[i].row.icon = tray_cmds[i].icon
=============================================================================
