----------------------------- MODULE PluginPlan -----------------------------
(***************************************************************************)
(* Which plugins are loaded, and in which order: resolve() and load() of   *)
(* crates/plugin-host/src/lib.rs.                                          *)
(*                                                                         *)
(* The candidates are numbered in the order of their ids, which discover() *)
(* makes unique.  A requirement names a plugin and says whether the        *)
(* version that is installed will do; 0 is a plugin that is not installed  *)
(* or disabled.  The sequences of a plugin's requirements are chosen at    *)
(* the start; the passes of resolve() are then taken index by index.       *)
(***************************************************************************)
EXTENDS Naturals, Sequences, FiniteSets

CONSTANTS
  Count,     \* the number of candidates
  MaxNeeds   \* bound: the requirements of a plugin

ASSUME PlanAssumption == Count \in Nat /\ MaxNeeds \in Nat

VARIABLES
  requires,  \* each plugin's requirements, in order
  phase,     \* the pass resolve() is in
  at,        \* the index it has come to
  changed,   \* the pass over the skipped has found another one
  skipped,   \* why a plugin is not loaded, or "no"
  waiting,   \* the dependencies a plugin still waits for (its indegree)
  ready,     \* plugins that wait for none
  order,     \* the plan
  loaded     \* the plugins whose register() has run

passes == <<phase, at, changed>>
sort   == <<waiting, ready, order>>
vars   == <<requires, passes, skipped, sort, loaded>>

Plugin == 1..Count
Need   == [id : {0}, fits : {FALSE}] \cup [id : Plugin, fits : BOOLEAN]
Needs  == UNION {[1..n -> Need] : n \in 0..MaxNeeds}

Elems(s) == {s[k] : k \in DOMAIN s}

\* The plugins that i names and that are installed.
Dependencies(i) == {need.id : need \in Elems(requires[i])} \cap Plugin

Kept(i) == skipped[i] = "no"

Init ==
  /\ requires \in [Plugin -> Needs]
  /\ phase = "check" /\ at = 1 /\ changed = FALSE
  /\ skipped = [i \in Plugin |-> "no"]
  /\ waiting = [i \in Plugin |-> {}] /\ ready = {} /\ order = <<>>
  /\ loaded = <<>>

----------------------------------------------------------------------------
\* Mutant: a plugin's version is not looked at.
WrongProblem(i, need) ==
  IF need.id \notin Plugin \ {i} THEN "missing" ELSE "no"

\* What is wrong with one requirement of plugin i.
Problem(i, need) ==
  CASE need.id \notin Plugin \ {i} -> "missing"
    [] need.id \in Plugin \ {i} /\ ~need.fits -> "version"
    [] OTHER -> "no"

\* The first requirement with a problem decides.
Verdict(i) ==
  LET bad == {k \in DOMAIN requires[i] : Problem(i, requires[i][k]) # "no"}
  IN  IF bad = {} THEN "no"
      ELSE Problem(i, requires[i][CHOOSE k \in bad : \A l \in bad : k <= l])

\* The first pass: each plugin's own requirements.
Check ==
  /\ phase = "check" /\ at \in Plugin
  /\ skipped' = [skipped EXCEPT ![at] = Verdict(at)]
  /\ at' = at + 1
  /\ UNCHANGED <<requires, phase, changed, sort, loaded>>

\* Mutant: `changed` is not reset.
WrongEnter(next) == phase' = next /\ at' = 1 /\ UNCHANGED changed

\* The next pass begins.
Enter(next) == phase' = next /\ at' = 1 /\ changed' = FALSE

Checked ==
  /\ phase = "check" /\ at \notin Plugin
  /\ Enter("propagate")
  /\ UNCHANGED <<requires, skipped, sort, loaded>>

\* A plugin it requires is skipped.
Blocked(i) == \E d \in Dependencies(i) : ~Kept(d)

\* The second pass: what requires a skipped plugin is skipped too.
Propagate ==
  /\ phase = "propagate" /\ at \in Plugin
  /\ IF Kept(at) /\ Blocked(at)
       THEN skipped' = [skipped EXCEPT ![at] = "missing"] /\ changed' = TRUE
       ELSE UNCHANGED <<skipped, changed>>
  /\ at' = at + 1
  /\ UNCHANGED <<requires, phase, sort, loaded>>

\* It is taken again until nothing changes.
Again ==
  /\ phase = "propagate" /\ at \notin Plugin /\ changed
  /\ Enter("propagate")
  /\ UNCHANGED <<requires, skipped, sort, loaded>>

\* Mutant: also a skipped plugin may begin.
WrongKept ==
  /\ phase = "propagate" /\ at \notin Plugin /\ ~changed
  /\ Enter("sort")
  /\ waiting' = [i \in Plugin |-> {d \in Dependencies(i) : Kept(i) /\ Kept(d)}]
  /\ ready' = {i \in Plugin : waiting'[i] = {}}
  /\ UNCHANGED <<requires, skipped, order, loaded>>

\* Mutant: it is taken once.
WrongPropagated ==
  /\ phase = "propagate" /\ at \notin Plugin
  /\ Enter("sort")
  /\ waiting' = [i \in Plugin |-> {d \in Dependencies(i) : Kept(i) /\ Kept(d)}]
  /\ ready' = {i \in Plugin : Kept(i) /\ waiting'[i] = {}}
  /\ UNCHANGED <<requires, skipped, order, loaded>>

\* The indegrees, and the plugins to begin with.
Propagated ==
  /\ phase = "propagate" /\ at \notin Plugin /\ ~changed
  /\ Enter("sort")
  /\ waiting' = [i \in Plugin |-> {d \in Dependencies(i) : Kept(i) /\ Kept(d)}]
  /\ ready' = {i \in Plugin : Kept(i) /\ waiting'[i] = {}}
  /\ UNCHANGED <<requires, skipped, order, loaded>>

\* Mutant: the edges go the wrong way.
WrongDirection(i) == {j \in Plugin : j \in waiting[i]}

\* The plugins that i was the last dependency of.
Released(i) == {j \in Plugin : i \in waiting[j] /\ waiting[j] \subseteq {i}}

\* pop_first(): the smallest of the ready ones is scheduled.
Schedule(i) ==
  /\ phase = "sort"
  /\ i \in ready /\ \A j \in ready : i <= j
  /\ order' = Append(order, i)
  /\ waiting' = [j \in Plugin |-> waiting[j] \ {i}]
  /\ ready' = (ready \ {i}) \cup Released(i)
  /\ UNCHANGED <<requires, passes, skipped, loaded>>

\* What is neither skipped nor scheduled is on a cycle, or behind one.
Sorted ==
  /\ phase = "sort" /\ ready = {}
  /\ Enter("register")
  /\ skipped' = [i \in Plugin |->
       IF Kept(i) /\ i \notin Elems(order) THEN "cycle" ELSE skipped[i]]
  /\ UNCHANGED <<requires, sort, loaded>>

\* register_one(), in the order of the plan.
RegisterOne ==
  /\ phase = "register" /\ at \in DOMAIN order
  /\ loaded' = Append(loaded, order[at])
  /\ at' = at + 1
  /\ UNCHANGED <<requires, phase, changed, skipped, sort>>

Next ==
  \/ Check \/ Checked \/ Propagate \/ Again \/ Propagated
  \/ \E i \in Plugin : Schedule(i)
  \/ Sorted \/ RegisterOne

Spec == Init /\ [][Next]_vars

\* load() is a function that runs on.
FairSpec == Spec /\ WF_vars(Next)

----------------------------------------------------------------------------
Done == phase = "register" /\ at \notin DOMAIN order

\* Plugins whose own requirements are all met, were every plugin of S there.
Closed(S) ==
  {i \in Plugin : \A need \in Elems(requires[i]) :
                    need.id \in S \ {i} /\ need.fits}

\* The least set that contains every plugin whose requirements it meets: what
\* can be loaded one after the other.
Loadable == {i \in Plugin : \A S \in SUBSET Plugin : Closed(S) \subseteq S => i \in S}

\* Every variable has its type; what is ready is neither skipped nor scheduled,
\* and waits for nothing.
TypeOK ==
  /\ requires \in [Plugin -> Needs]
  /\ phase \in {"check", "propagate", "sort", "register"}
  /\ at \in 1..(Count + 1) /\ changed \in BOOLEAN
  /\ skipped \in [Plugin -> {"no", "missing", "version", "cycle"}]
  /\ waiting \in [Plugin -> SUBSET Plugin]
  /\ ready \subseteq {i \in Plugin : Kept(i) /\ waiting[i] = {}} \ Elems(order)
  /\ order \in Seq(Plugin) /\ loaded \in Seq(Plugin)

\* A plugin is registered after every plugin it requires, in a version that will
\* do: its register() may rely on what they have registered.
DependenciesFirst ==
  \A k \in DOMAIN loaded : \A need \in Elems(requires[loaded[k]]) :
    need.fits /\ \E l \in 1..(k - 1) : loaded[l] = need.id

\* A plugin is scheduled once, and then it is not reported as skipped.
OnePlace ==
  /\ \A k, l \in DOMAIN order : order[k] = order[l] => k = l
  /\ \A k \in DOMAIN order : Kept(order[k])

\* In the end exactly the plugins that can be loaded are, and every other one has
\* a report: none is dropped silently because of the order of the ids.
LoadsWhatCanBe ==
  Done => /\ Elems(loaded) = Loadable
          /\ \A i \in Plugin : Kept(i) <=> i \in Elems(loaded)

\* A cycle is reported only where there is one: each plugin with that report
\* requires another one with it.
CyclesAreReal ==
  \A i \in Plugin : skipped[i] = "cycle" =>
    \E d \in Dependencies(i) : skipped[d] = "cycle"

\* load() comes to an end, whatever the plugins require of one another.
Loads == <>Done
=============================================================================
