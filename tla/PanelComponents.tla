--------------------------- MODULE PanelComponents ---------------------------
(***************************************************************************)
(* The components of a panel (crates/panels/src/lib.rs) and the timers     *)
(* they have in the event loop (crates/components/src/clock.rs, sysmon.rs).*)
(*                                                                         *)
(* A reload compares each section with the configuration, label by label:  *)
(* a component whose label stays is kept, with its timer; the others are   *)
(* stopped, and new ones watch.                                            *)
(***************************************************************************)
EXTENDS Integers, Sequences, FiniteSets, SequencesExt

CONSTANTS
  Configs,         \* what the file may say: a sequence of cells for each section
  NewItems,        \* the items that commands add
  MaxCompEvents    \* bound: reloads and commands

VARIABLES
  sections,        \* the cells, each with its items, of which each is an instance
  timers,          \* the intervals that run in the loop: [id, opt], opt being what they were set with
  orphans,         \* instances dropped with their timer running
  subscribed,      \* the events the panel has asked for, beyond those of its own
  comp_conf,       \* the configuration that was heard last
  comp_deployed,
  muted,           \* has a component's answer to a reload taken the place of the panel's?
  comp_count

compVars == <<sections, timers, orphans, subscribed, comp_conf, comp_deployed, muted, comp_count>>

Section == {"left", "center", "right"}
Counted == comp_count < MaxCompEvents /\ comp_count' = comp_count + 1

\* An item of the configuration: [label, comp, opt]; one of the panel has an id too.
Instance(conf, id) == [label |-> conf.label, comp |-> conf.comp, opt |-> conf.opt, id |-> id]
Reopted(item, conf) == [item EXCEPT !.opt = conf.opt]
ItemsOf(cell) == ToSet(cell.items) \cup ToSet(cell.prefix)
AllItems(cells) == UNION {ItemsOf(cells[k]) : k \in DOMAIN cells}
PanelItems(secs) == UNION {AllItems(secs[s]) : s \in Section}
Ids(items) == {i.id : i \in items}
\* Neither a clock nor a monitor minds its options once its timer runs.
Timed(items) == {i \in items : i.comp = "clock"}
Events(items) == UNION {IF i.comp = "clock" THEN {"tick"} ELSE {"audio", "config.reload"} : i \in items}

----------------------------------------------------------------------------
(* What a label finds: the last of the old ones, for the first that asks.   *)

LabelAt(seq, k) == seq[k].label
Finds(olds, confs, k) ==
  {o \in DOMAIN olds :
     /\ LabelAt(olds, o) = LabelAt(confs, k) /\ \A j \in 1..(k - 1) : LabelAt(confs, j) # LabelAt(confs, k)
     /\ \A j \in (o + 1)..Len(olds) : LabelAt(olds, j) # LabelAt(olds, o)}
Found(olds, confs, k) == olds[CHOOSE o \in Finds(olds, confs, k) : TRUE]
Overwritten(olds) == {olds[o] : o \in {j \in DOMAIN olds : \E l \in (j + 1)..Len(olds) : LabelAt(olds, l) = LabelAt(olds, j)}}

DiffItems(olds, confs, id) ==
  [j \in DOMAIN confs |-> IF Finds(olds, confs, j) # {} THEN Reopted(Found(olds, confs, j), confs[j])
                          ELSE Instance(confs[j], id \o <<j>>)]
\* A prefix keeps its component, whatever its label.
DiffPrefix(olds, confs, id) ==
  [j \in DOMAIN confs |-> IF olds # <<>> THEN Reopted(olds[1], confs[1]) ELSE Instance(confs[1], id \o <<0>>)]

Blank == [items |-> <<>>, prefix |-> <<>>]
DiffCell(olds, confs, k, id) ==
  LET old == IF Finds(olds, confs, k) # {} /\ Found(olds, confs, k).group = confs[k].group
             THEN Found(olds, confs, k) ELSE Blank
  IN  [confs[k] EXCEPT !.items = DiffItems(old.items, @, id), !.prefix = DiffPrefix(old.prefix, @, id)]
DiffSection(olds, confs, id) == [k \in DOMAIN confs |-> DiffCell(olds, confs, k, id \o <<k>>)]

\* Of what is no longer there, these are dropped and not stopped; not when the section goes as a whole.
DroppedItems(cell) == IF cell.group THEN Overwritten(cell.items) ELSE {}
Kept(olds, confs) == {o \in DOMAIN olds : \E k \in DOMAIN confs : o \in Finds(olds, confs, k) /\ confs[k].group = olds[o].group}
Dropped(olds, confs) ==
  IF confs = <<>> THEN {}
  ELSE UNION ({ItemsOf(c) : c \in Overwritten(olds)} \cup {DroppedItems(olds[o]) : o \in Kept(olds, confs)})

----------------------------------------------------------------------------
(* watch and stop of the components.                                        *)

Started(items) == {[id |-> i.id, opt |-> i.opt] : i \in {j \in Timed(items) : \A t \in timers : t.id # j.id}}
\* Mutant: nobody stops what is gone.
WrongReplaced(secs, dropped) ==
  /\ sections' = secs
  /\ timers' = timers \cup Started(PanelItems(secs))
  /\ orphans' = orphans \cup Ids(Timed(dropped))

Replaced(secs, dropped) ==
  LET gone == Ids(PanelItems(sections)) \ Ids(PanelItems(secs))
      stopped == gone \ Ids(dropped)
  IN  /\ sections' = secs
      /\ timers' = {t \in timers : t.id \notin stopped} \cup Started(PanelItems(secs))
      /\ orphans' = orphans \cup Ids(Timed(dropped))

\* A menu, an option, an item or a cell that came or went; not a component under the same label.
Menus(olds, cells) == \E k \in DOMAIN cells : Finds(olds, cells, k) # {} /\ cells[k].group /\ Found(olds, cells, k).menu # cells[k].menu
Gone(olds, cells) == \E o \in DOMAIN olds : olds[o] \notin Overwritten(olds) /\ o \notin Kept(olds, cells)
Changed(secs, dropped) ==
  \/ PanelItems(secs) # PanelItems(sections) \ dropped
  \/ \E s \in Section : Menus(sections[s], secs[s]) \/ Gone(sections[s], secs[s])

Subscribe(secs) == subscribed' = Events(PanelItems(secs))
\* A notch has an answer to the command: it takes the place of the panel's.
Answered(secs, command) == command /\ \E i \in PanelItems(secs) : i.comp = "notch"

Reload(conf, command) ==
  LET secs == [s \in Section |-> DiffSection(sections[s], conf[s], <<comp_count, s>>)]
      dropped == UNION {Dropped(sections[s], conf[s]) : s \in Section}
      speaks == Changed(secs, dropped) /\ ~Answered(secs, command)
  IN  /\ Counted /\ comp_deployed /\ comp_conf' = conf
      /\ Replaced(secs, dropped)
      /\ IF speaks THEN Subscribe(secs) ELSE UNCHANGED subscribed
      /\ muted' = (~speaks /\ (muted \/ Answered(secs, command)))
      /\ UNCHANGED comp_deployed
WatcherReload == \E conf \in Configs : Reload(conf, FALSE)
CommandReload == \E conf \in Configs : Reload(conf, TRUE)

----------------------------------------------------------------------------
(* Commands.                                                                *)

Cell(item) == [label |-> item.label, group |-> FALSE, items |-> <<item>>, prefix |-> <<>>, menu |-> "none"]
AddItem == \E s \in Section, conf \in NewItems :
  LET secs == [sections EXCEPT ![s] = Append(@, Cell(Instance(conf, <<comp_count, s, 0, 0>>)))]
  IN  /\ Counted /\ comp_deployed /\ Replaced(secs, {}) /\ Subscribe(secs) /\ muted' = FALSE
      /\ UNCHANGED <<comp_conf, comp_deployed>>

\* What names neither the left nor the right is a cell in the centre, or the centre.
Target(s) == IF s \in {"left", "right"} THEN s ELSE "center"
Without(items, label) ==
  LET KeepOther(kept, i) == IF i.label = label THEN kept ELSE Append(kept, i) IN FoldLeft(KeepOther, <<>>, items)
RemoveFrom(cells, s, label) ==
  IF \E k \in DOMAIN cells : cells[k].label = s
  THEN LET k == CHOOSE j \in DOMAIN cells : cells[j].label = s /\ \A l \in 1..(j - 1) : cells[l].label # s
       IN  IF cells[k].group THEN [cells EXCEPT ![k].items = Without(@, label)] ELSE cells
  ELSE Without(cells, label)
RemoveItem == \E s \in {"left", "right", "a"}, label \in {"a", "b", "x"} :
  LET secs == [sections EXCEPT ![Target(s)] = RemoveFrom(@, s, label)]
  IN  /\ Counted /\ comp_deployed /\ Replaced(secs, {}) /\ Subscribe(secs) /\ muted' = FALSE
      /\ UNCHANGED <<comp_conf, comp_deployed>>

NoCells == [s \in Section |-> <<>>]
DestroyPanel ==
  /\ Counted /\ comp_deployed /\ Replaced(NoCells, {}) /\ comp_deployed' = FALSE
  /\ subscribed' = {} /\ muted' = FALSE /\ UNCHANGED comp_conf
\* The file has it no more: nobody stops its components.
UndeployPanel ==
  /\ Counted /\ comp_deployed /\ Replaced(NoCells, PanelItems(sections)) /\ comp_deployed' = FALSE
  /\ subscribed' = {} /\ muted' = FALSE /\ UNCHANGED comp_conf

Built(conf, n) == [s \in Section |-> DiffSection(<<>>, conf[s], <<n, s>>)]
DeployPanel == \E conf \in Configs :
  LET secs == Built(conf, comp_count)
  IN  /\ Counted /\ ~comp_deployed /\ comp_deployed' = TRUE /\ comp_conf' = conf
      /\ Replaced(secs, {}) /\ Subscribe(secs) /\ UNCHANGED muted

Init == \E conf \in Configs :
  /\ comp_conf = conf /\ comp_deployed = TRUE /\ orphans = {} /\ muted = FALSE /\ comp_count = 1
  /\ sections = Built(conf, 0)
  /\ timers = {[id |-> i.id, opt |-> i.opt] : i \in Timed(PanelItems(sections))}
  /\ subscribed = Events(PanelItems(sections))

Next == WatcherReload \/ CommandReload \/ AddItem \/ RemoveItem \/ DestroyPanel \/ UndeployPanel \/ DeployPanel
Spec == Init /\ [][Next]_compVars

----------------------------------------------------------------------------
TypeOK ==
  /\ DOMAIN sections = Section /\ subscribed \subseteq {"tick", "audio", "config.reload"}
  /\ \A i, j \in PanelItems(sections) : i.id = j.id => i = j

\* Each clock of the panel has one timer, and no other runs but those of instances dropped unstopped.
TimersAreTheClocks ==
  /\ {t.id : t \in timers} = Ids(Timed(PanelItems(sections))) \cup orphans
  /\ \A t, u \in timers : t.id = u.id => t = u

\* The panel hears what its components want to hear, unless an answer of theirs kept it from asking.
HearsForItsComponents == comp_deployed /\ ~muted => Events(PanelItems(sections)) \subseteq subscribed

\* Whatever was moved, added or removed before, a reload gives the sections of the file, with its options,
\* and keeps the instance of a label that stays where it was.
ShownOf(cells) == [k \in DOMAIN cells |-> <<cells[k].label, [j \in DOMAIN cells[k].items |-> <<cells[k].items[j].label, cells[k].items[j].opt>>]>>]
Only(cells, k) == ~cells[k].group /\ \A j \in DOMAIN cells \ {k} : cells[j].label # cells[k].label
ReloadFollowsFile ==
  [][WatcherReload \/ CommandReload =>
       \A s \in Section :
         /\ ShownOf(sections'[s]) = ShownOf(comp_conf'[s])
         /\ \A o \in DOMAIN sections[s], k \in DOMAIN sections'[s] :
              Only(sections[s], o) /\ Only(sections'[s], k) /\ sections[s][o].label = sections'[s][k].label =>
                sections[s][o].items[1].id = sections'[s][k].items[1].id]_compVars
=============================================================================
