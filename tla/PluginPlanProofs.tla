-------------------------- MODULE PluginPlanProofs --------------------------
(***************************************************************************)
(* What PluginPlan promises for any number of plugins and any graph of     *)
(* requirements among them.                                                *)
(***************************************************************************)
EXTENDS PluginPlan, FiniteSetTheorems, WellFoundedInduction, TLAPS

\* A requirement of i that the plugins of S meet.
Met(i, need, S) == need.id \in S \ {i} /\ need.fits

\* The first pass has seen i.
Settled(i) == phase # "check" \/ i < at

\* The plugins of S are kept.
AllKept(S) == \A d \in S : Kept(d)

\* What the passes over the skipped have found out: whoever is kept has its own
\* requirements met and, unless the pass is to be taken again, none of its
\* dependencies skipped; whoever is skipped lacks something.
Passes ==
  /\ \A i \in Plugin : Kept(i) /\ Settled(i) =>
       \A need \in Elems(requires[i]) : Met(i, need, Plugin)
  /\ \A i \in Plugin : Kept(i) /\ phase = "propagate" /\ ~changed /\ i < at =>
       AllKept(Dependencies(i))
  /\ \A i \in Plugin : ~Kept(i) =>
       \E need \in Elems(requires[i]) : ~Met(i, need, {d \in Plugin : Kept(d)})
  /\ \A i \in Plugin : ~Kept(i) => Settled(i)
  /\ phase # "register" => \A i \in Plugin : skipped[i] # "cycle"

\* What the sort knows of the plugins that are kept: a plugin waits for its
\* dependencies that are not scheduled yet, and if there is none it is its turn.
Sorting ==
  /\ phase \in {"check", "propagate"} => ready = {} /\ order = <<>>
  /\ phase \in {"check", "propagate"} => \A i \in Plugin : waiting[i] = {}
  /\ phase = "sort" => \A i \in Plugin :
       /\ waiting[i] # {} => Kept(i)
       /\ Kept(i) => /\ AllKept(Dependencies(i))
                     /\ waiting[i] = Dependencies(i) \ Elems(order)
                     /\ waiting[i] = {} => i \in ready \cup Elems(order)
  /\ phase = "register" => /\ ready = {}
                           /\ \A i \in Plugin : Kept(i) => i \in Elems(order)

\* What the plan has: every plugin once, after its dependencies, and only what any
\* set has that contains each plugin whose requirements it meets.
Ordered ==
  /\ Cardinality(Elems(order)) = Len(order)
  /\ \A k \in DOMAIN order : \A d \in Dependencies(order[k]) :
       \E l \in 1..(k - 1) : order[l] = d
  /\ \A S \in SUBSET Plugin : Closed(S) \subseteq S => Elems(order) \subseteq S

\* load() has come as far as `at` in the plan.
Registering ==
  /\ phase # "register" => loaded = <<>>
  /\ phase = "register" => /\ at \in 1..(Len(order) + 1)
                           /\ Len(loaded) = at - 1
                           /\ \A k \in DOMAIN loaded : loaded[k] = order[k]

\* The inductive invariant.
Plan == TypeOK /\ Passes /\ Sorting /\ OnePlace /\ Ordered /\ Registering /\ CyclesAreReal

----------------------------------------------------------------------------
(***************************************************************************)
(* The operators                                                           *)
(***************************************************************************)
\* A nonempty set of numbers has a least one.
LEMMA LeastNumber ==
  ASSUME NEW T \in SUBSET Nat, T # {}
  PROVE  \E k \in T : \A l \in T : k <= l
<1>1. \E k \in T : \A l \in T : ~ (<<l, k>> \in OpToRel(<, Nat))
  BY NatLessThanWellFounded, WFMin
<1>2. PICK k \in T : \A l \in T : ~ (<<l, k>> \in OpToRel(<, Nat))
  BY <1>1
<1>3. ASSUME NEW l \in T PROVE k <= l
  <2>1. <<l, k>> \in Nat \X Nat
    OBVIOUS
  <2>2. ~ (l < k)
    BY <1>2, <2>1 DEF OpToRel
  <2> QED
    BY <2>2
<1> QED
  BY <1>3

\* Problem() speaks of a requirement that is not met, and says what is wrong.
LEMMA ProblemMeaning ==
  ASSUME NEW i, NEW need
  PROVE  /\ Problem(i, need) \in {"no", "missing", "version"}
         /\ Problem(i, need) = "no" <=> Met(i, need, Plugin)
  BY DEF Problem, Met

\* Verdict() says "no" where every requirement is met, and nowhere else.
LEMMA VerdictMeaning ==
  ASSUME TypeOK, NEW i \in Plugin
  PROVE  /\ Verdict(i) \in {"no", "missing", "version"}
         /\ Verdict(i) = "no" <=> \A need \in Elems(requires[i]) : Met(i, need, Plugin)
<1> DEFINE bad == {k \in DOMAIN requires[i] : Problem(i, requires[i][k]) # "no"}
<1>1. DOMAIN requires[i] \subseteq Nat
  BY DEF TypeOK, Needs
<1>2. CASE bad = {}
  BY <1>2, ProblemMeaning DEF Verdict, Elems
<1>3. CASE bad # {}
  <2> DEFINE k == CHOOSE k \in bad : \A l \in bad : k <= l
  <2>1. \E j \in bad : \A l \in bad : j <= l
    <3> HIDE DEF bad
    <3>1. bad \subseteq Nat
      BY <1>1 DEF bad
    <3> QED
      BY <1>3, <3>1, LeastNumber
  <2>2. k \in bad
    <3> HIDE DEF bad
    <3> QED
      BY <2>1
  <2>3. Verdict(i) = Problem(i, requires[i][k])
    BY <1>3 DEF Verdict
  <2> HIDE DEF k
  <2>4. requires[i][k] \in Elems(requires[i]) /\ Problem(i, requires[i][k]) # "no"
    BY <2>2 DEF Elems
  <2> QED
    BY <2>3, <2>4, ProblemMeaning
<1> QED
  BY <1>2, <1>3

\* Append() adds one element.
LEMMA ElemsAppend ==
  ASSUME NEW s \in Seq(Plugin), NEW i \in Plugin
  PROVE  /\ Elems(Append(s, i)) = Elems(s) \cup {i}
         /\ Len(Append(s, i)) = Len(s) + 1
         /\ \A k \in DOMAIN s : Append(s, i)[k] = s[k]
         /\ Append(s, i)[Len(s) + 1] = i
         /\ DOMAIN Append(s, i) = DOMAIN s \cup {Len(s) + 1}
         /\ Append(s, i) \in Seq(Plugin)
<1> DEFINE t == Append(s, i)
<1>1. /\ Len(t) = Len(s) + 1
      /\ \A k \in DOMAIN s : t[k] = s[k]
      /\ t[Len(s) + 1] = i
      /\ DOMAIN t = DOMAIN s \cup {Len(s) + 1}
      /\ t \in Seq(Plugin)
  OBVIOUS
<1>2. Elems(t) = Elems(s) \cup {i}
  <2> HIDE DEF t
  <2> QED
    BY <1>1 DEF Elems
<1> QED
  BY <1>1, <1>2

\* A sequence of plugins has plugins in it.
LEMMA PluginsOnly ==
  ASSUME NEW s \in Seq(Plugin)
  PROVE  \A k \in DOMAIN s : s[k] \in Plugin
  OBVIOUS

\* A plan that has every plugin at most once is no longer than there are plugins.
LEMMA PlanLength ==
  ASSUME TypeOK, Cardinality(Elems(order)) = Len(order)
  PROVE  Len(order) <= Count
<1>1. IsFiniteSet(Plugin) /\ Cardinality(Plugin) = Count
  BY PlanAssumption, FS_Interval DEF Plugin
<1>2. Elems(order) \in SUBSET Plugin
  BY DEF TypeOK, Elems
<1> QED
  BY <1>1, <1>2, FS_Subset

\* A dependency is what a requirement names.
LEMMA DependencyMeaning ==
  ASSUME NEW i \in Plugin, NEW S \in SUBSET Plugin,
         \A need \in Elems(requires[i]) : Met(i, need, Plugin)
  PROVE  /\ \A need \in Elems(requires[i]) : need.id \in Dependencies(i)
         /\ i \notin Dependencies(i)
         /\ Dependencies(i) \subseteq S => i \in Closed(S)
  BY DEF Met, Dependencies, Closed

----------------------------------------------------------------------------
(***************************************************************************)
(* The invariant                                                           *)
(***************************************************************************)
LEMMA InitPlan == Init => Plan
<1> SUFFICES ASSUME Init PROVE Plan
  OBVIOUS
<1> USE PlanAssumption
<1>1. TypeOK
  <2>1. order \in Seq(Plugin) /\ loaded \in Seq(Plugin)
    BY DEF Init
  <2>2. at \in 1..(Count + 1)
    BY DEF Init
  <2> QED
    BY <2>1, <2>2 DEF Init, TypeOK
<1>2. Passes
  BY DEF Init, Passes, Kept, Settled, Plugin
<1>3. Sorting
  BY DEF Init, Sorting
<1>4. Elems(order) = {} /\ DOMAIN order = {} /\ Len(order) = 0
  BY DEF Init, Elems
<1>5. Ordered
  BY <1>4, FS_EmptySet DEF Ordered
<1>6. OnePlace /\ Registering /\ CyclesAreReal
  BY <1>4 DEF Init, OnePlace, Registering, CyclesAreReal
<1> QED
  BY <1>1, <1>2, <1>3, <1>5, <1>6 DEF Plan

\* While the plan and the requirements stay as they are, so does what the plan has.
LEMMA OrderedStays ==
  ASSUME Ordered, UNCHANGED <<requires, order>>
  PROVE  Ordered'
<1>1. Elems(order)' = Elems(order)
  BY DEF Elems
<1>2. ASSUME NEW i PROVE Dependencies(i)' = Dependencies(i)
  BY DEF Dependencies
<1>3. ASSUME NEW S PROVE Closed(S)' = Closed(S)
  BY DEF Closed
<1> QED
  BY <1>1, <1>2, <1>3 DEF Ordered

\* What a skipped plugin lacks it lacks when fewer are kept.
LEMMA LackStays ==
  ASSUME NEW i, NEW S, NEW T \in SUBSET S,
         \E need \in Elems(requires[i]) : ~Met(i, need, S)
  PROVE  \E need \in Elems(requires[i]) : ~Met(i, need, T)
  BY DEF Met

LEMMA CheckPlan == Plan /\ Check => Plan'
<1> SUFFICES ASSUME Plan, Check PROVE Plan'
  OBVIOUS
<1> USE PlanAssumption
<1>1. at \in Plugin /\ at \in Nat /\ phase = "check" /\ order = <<>> /\ DOMAIN order = {}
  BY DEF Check, Plan, Sorting, Plugin
<1>2. /\ Verdict(at) \in {"no", "missing", "version"}
      /\ Verdict(at) = "no" <=> \A need \in Elems(requires[at]) : Met(at, need, Plugin)
  BY <1>1, VerdictMeaning DEF Plan
<1>3. skipped' \in [Plugin -> {"no", "missing", "version", "cycle"}]
  BY <1>2 DEF Plan, Check, TypeOK
<1>4. /\ skipped'[at] = Verdict(at)
      /\ \A i \in Plugin \ {at} : skipped'[i] = skipped[i]
      /\ Kept(at)
  BY <1>1, <1>2 DEF Plan, Check, TypeOK, Passes, Kept, Settled
<1>5. TypeOK'
  BY <1>1, <1>3 DEF Plan, Check, TypeOK, sort, Plugin, Sorting
<1>6. Passes'
  <2>1. ASSUME NEW i \in Plugin, Kept(i)', Settled(i)'
        PROVE  \A need \in Elems(requires[i]) : Met(i, need, Plugin)
    <3>1. CASE i = at
      BY <1>2, <1>4, <2>1, <3>1 DEF Kept
    <3>2. CASE i # at
      <4>1. Kept(i) /\ i < at
        BY <1>1, <1>4, <2>1, <3>2 DEF Check, Kept, Settled, Plugin
      <4> QED
        BY <4>1 DEF Plan, Passes, Settled
    <3> QED
      BY <3>1, <3>2
  <2>2. {d \in Plugin : Kept(d)'} \subseteq {d \in Plugin : Kept(d)}
    BY <1>4 DEF Kept
  <2>3. ASSUME NEW i \in Plugin, ~Kept(i)'
        PROVE  \E need \in Elems(requires[i]) : ~Met(i, need, {d \in Plugin : Kept(d)'})
    <3>1. CASE i = at
      <4>1. \E need \in Elems(requires[at]) : ~Met(at, need, Plugin)
        BY <1>2, <1>4, <2>3, <3>1 DEF Kept
      <4> QED
        BY <3>1, <4>1, LackStays
    <3>2. CASE i # at
      <4>1. \E need \in Elems(requires[i]) : ~Met(i, need, {d \in Plugin : Kept(d)})
        BY <1>4, <2>3, <3>2 DEF Plan, Passes, Kept
      <4> QED
        BY <2>2, <4>1, LackStays
    <3> QED
      BY <3>1, <3>2
  <2>4. ASSUME NEW i \in Plugin, ~Kept(i)' PROVE Settled(i)'
    BY <1>1, <1>4, <2>4 DEF Plan, Passes, Check, Kept, Settled, Plugin
  <2>5. \A i \in Plugin : skipped'[i] # "cycle"
    BY <1>1, <1>2, <1>4 DEF Plan, Passes
  <2>6. requires' = requires /\ phase' = "check"
    BY <1>1 DEF Check
  <2> QED
    BY <2>1, <2>3, <2>4, <2>5, <2>6 DEF Passes, Met, Elems
<1>7. Ordered'
  BY OrderedStays DEF Plan, Check, sort
<1>8. Sorting' /\ Registering'
  BY <1>1 DEF Plan, Check, Sorting, Registering, sort
<1>9. OnePlace'
  <2>1. DOMAIN order' = {}
    BY <1>1 DEF Check, sort
  <2> QED
    BY <2>1 DEF OnePlace
<1>10. CyclesAreReal'
  BY <1>6, <1>1 DEF Passes, CyclesAreReal, Check
<1> QED
  BY <1>5, <1>6, <1>7, <1>8, <1>9, <1>10 DEF Plan

\* Checked, Again: the next pass over the skipped begins.
LEMMA EnterPlan ==
  ASSUME Plan, Enter("propagate"), UNCHANGED <<requires, skipped, sort, loaded>>,
         phase \in {"check", "propagate"}, at \notin Plugin
  PROVE  Plan'
<1> USE PlanAssumption
<1>1. order = <<>> /\ DOMAIN order = {} /\ ready = {} /\ loaded = <<>>
  BY DEF Plan, Sorting, Registering
<1>2. /\ phase' = "propagate" /\ at' = 1 /\ changed' = FALSE
      /\ requires' = requires /\ skipped' = skipped
      /\ order' = order /\ waiting' = waiting /\ ready' = ready /\ loaded' = loaded
  BY DEF Enter, sort
<1>3. TypeOK'
  <2>1. at' \in 1..(Count + 1)
    BY <1>2
  <2> QED
    BY <1>1, <1>2, <2>1 DEF Plan, TypeOK
<1>4. Passes'
  <2>1. \A i \in Plugin : Settled(i)
    BY DEF Settled, Plan, TypeOK, Plugin
  <2>2. {d \in Plugin : Kept(d)'} = {d \in Plugin : Kept(d)}
    BY <1>2 DEF Kept
  <2>3. \A i \in Plugin : Settled(i)' /\ ~(i < at')
    BY <1>2 DEF Settled, Plugin
  <2>4. \A i \in Plugin : Kept(i)' =>
          \A need \in Elems(requires[i]) : Met(i, need, Plugin)
    BY <1>2, <2>1 DEF Plan, Passes, Kept
  <2>5. \A i \in Plugin : ~Kept(i)' =>
          \E need \in Elems(requires[i]) : ~Met(i, need, {d \in Plugin : Kept(d)})
    BY <1>2 DEF Plan, Passes, Kept
  <2>6. \A i \in Plugin : skipped'[i] # "cycle"
    BY <1>2 DEF Plan, Passes
  <2> QED
    BY <1>2, <2>2, <2>3, <2>4, <2>5, <2>6 DEF Passes, Met, Elems
<1>5. Sorting' /\ Registering'
  BY <1>1, <1>2 DEF Plan, Sorting, Registering
<1>6. OnePlace'
  BY <1>1, <1>2 DEF OnePlace
<1>7. Ordered'
  BY <1>2, OrderedStays DEF Plan
<1>8. CyclesAreReal'
  BY <1>2, <1>4 DEF Passes, CyclesAreReal
<1> QED
  BY <1>3, <1>4, <1>5, <1>6, <1>7, <1>8 DEF Plan

LEMMA PropagatePlan == Plan /\ Propagate => Plan'
<1> SUFFICES ASSUME Plan, Propagate PROVE Plan'
  OBVIOUS
<1> USE PlanAssumption
<1>1. /\ phase = "propagate" /\ phase' = phase /\ at \in Plugin /\ at' = at + 1
      /\ requires' = requires /\ loaded' = loaded
      /\ order' = order /\ waiting' = waiting /\ ready' = ready
  BY DEF Propagate, sort
<1>2. order = <<>> /\ DOMAIN order = {} /\ ready = {} /\ loaded = <<>>
  BY <1>1 DEF Plan, Sorting, Registering
<1>3. /\ skipped' \in [Plugin -> {"no", "missing", "version"}]
      /\ \A i \in Plugin \ {at} : skipped'[i] = skipped[i]
      /\ ~Kept(at) => skipped' = skipped
      /\ changed' \in BOOLEAN
  BY <1>1 DEF Plan, Passes, TypeOK, Propagate, Kept
<1>4. {d \in Plugin : Kept(d)'} \subseteq {d \in Plugin : Kept(d)}
  BY <1>3 DEF Kept
<1>5. TypeOK'
  BY <1>1, <1>2, <1>3 DEF Plan, TypeOK, Plugin
<1>6. Passes'
  <2>1. \A i \in Plugin : Kept(i)' =>
          \A need \in Elems(requires[i]) : Met(i, need, Plugin)
    BY <1>1, <1>4 DEF Plan, Passes, Settled
  <2>2. ASSUME NEW i \in Plugin, Kept(i)', ~changed', i < at'
        PROVE  \A d \in Dependencies(i) : Kept(d)'
    <3>1. skipped' = skipped /\ ~changed /\ (Kept(at) => ~Blocked(at))
      BY <2>2 DEF Propagate
    <3>2. CASE i = at
      BY <2>2, <3>1, <3>2 DEF Blocked, Kept
    <3>3. CASE i # at
      <4>1. i < at
        BY <1>1, <2>2, <3>3 DEF Plugin
      <4>2. AllKept(Dependencies(i))
        BY <1>1, <2>2, <3>1, <4>1 DEF Plan, Passes, Kept
      <4> QED
        BY <3>1, <4>2 DEF AllKept, Kept
    <3> QED
      BY <3>2, <3>3
  <2>3. ASSUME NEW i \in Plugin, ~Kept(i)'
        PROVE  \E need \in Elems(requires[i]) : ~Met(i, need, {d \in Plugin : Kept(d)'})
    <3>1. CASE ~Kept(i)
      <4>1. \E need \in Elems(requires[i]) : ~Met(i, need, {d \in Plugin : Kept(d)})
        BY <3>1 DEF Plan, Passes
      <4> QED
        BY <1>4, <4>1, LackStays
    <3>2. CASE Kept(i)
      <4>1. i = at /\ Blocked(at)
        BY <2>3, <3>2, <1>3 DEF Propagate, Kept
      <4>2. PICK d \in Dependencies(at) : ~Kept(d)
        BY <4>1 DEF Blocked
      <4>3. PICK need \in Elems(requires[at]) : need.id = d
        BY <4>2 DEF Dependencies
      <4>4. d \notin {e \in Plugin : Kept(e)'}
        BY <4>2, <1>4
      <4> QED
        BY <4>1, <4>3, <4>4 DEF Met
    <3> QED
      BY <3>1, <3>2
  <2>4. \A i \in Plugin : Settled(i)'
    BY <1>1 DEF Settled
  <2>5. \A i \in Plugin : skipped'[i] # "cycle"
    BY <1>3
  <2>6. \A i \in Plugin : Dependencies(i)' = Dependencies(i)
    BY <1>1 DEF Dependencies
  <2>7. \A i \in Plugin : Elems(requires[i])' = Elems(requires[i])
    BY <1>1 DEF Elems
  <2>8. ASSUME NEW i, NEW need, NEW S PROVE Met(i, need, S)' = Met(i, need, S)
    BY DEF Met
  <2> QED
    BY <2>1, <2>2, <2>3, <2>4, <2>5, <2>6, <2>7, <2>8 DEF Passes, AllKept, Met
<1>7. Sorting' /\ Registering'
  BY <1>1, <1>2 DEF Plan, Sorting, Registering
<1>8. OnePlace'
  BY <1>1, <1>2 DEF OnePlace
<1>9. Ordered'
  BY <1>1, OrderedStays DEF Plan
<1>10. CyclesAreReal'
  BY <1>3 DEF CyclesAreReal
<1> QED
  BY <1>5, <1>6, <1>7, <1>8, <1>9, <1>10 DEF Plan

\* Propagated: the sort begins with the plugins that wait for none.
LEMMA PropagatedPlan == Plan /\ Propagated => Plan'
<1> SUFFICES ASSUME Plan, Propagated PROVE Plan'
  OBVIOUS
<1> USE PlanAssumption
<1>1. /\ phase = "propagate" /\ phase' = "sort" /\ at \notin Plugin /\ at' = 1
      /\ ~changed /\ changed' = FALSE
      /\ requires' = requires /\ skipped' = skipped /\ order' = order /\ loaded' = loaded
      /\ waiting' = [i \in Plugin |-> {d \in Dependencies(i) : Kept(i) /\ Kept(d)}]
      /\ ready' = {i \in Plugin : Kept(i) /\ waiting'[i] = {}}
  BY DEF Propagated, Enter
<1>2. order = <<>> /\ DOMAIN order = {} /\ loaded = <<>> /\ Elems(order) = {}
  BY <1>1 DEF Plan, Sorting, Registering, Elems
<1>3. TypeOK'
  <2>1. at' \in 1..(Count + 1)
    BY <1>1
  <2>2. waiting' \in [Plugin -> SUBSET Plugin]
    BY <1>1 DEF Dependencies
  <2>3. Elems(order)' = {}
    BY <1>1, <1>2 DEF Elems
  <2>4. ready' \subseteq {i \in Plugin : Kept(i)' /\ waiting'[i] = {}}
    BY <1>1 DEF Kept
  <2> QED
    BY <1>1, <2>1, <2>2, <2>3, <2>4 DEF Plan, TypeOK
<1>4. \A i \in Plugin : Settled(i) /\ i < at
  BY <1>1 DEF Settled, Plan, TypeOK, Plugin
<1>5. Passes'
  <2>1. \A i \in Plugin : Kept(i)' = Kept(i)
    BY <1>1 DEF Kept
  <2>2. \A i \in Plugin : Settled(i)'
    BY <1>1 DEF Settled
  <2>3. \A i \in Plugin : Elems(requires[i])' = Elems(requires[i])
    BY <1>1 DEF Elems
  <2>4. ASSUME NEW i, NEW need, NEW S PROVE Met(i, need, S)' = Met(i, need, S)
    BY DEF Met
  <2> QED
    BY <1>1, <1>4, <2>1, <2>2, <2>3, <2>4 DEF Plan, Passes, Met
<1>6. Sorting'
  <2>1. ASSUME NEW i \in Plugin
        PROVE  /\ waiting'[i] # {} => Kept(i)
               /\ Kept(i) => /\ AllKept(Dependencies(i))
                             /\ waiting'[i] = Dependencies(i)
                             /\ waiting'[i] = {} => i \in ready'
    <3>1. Kept(i) => AllKept(Dependencies(i))
      BY <1>1, <1>4 DEF Plan, Passes
    <3> QED
      BY <1>1, <3>1 DEF AllKept
  <2>2. \A i \in Plugin : Kept(i)' = Kept(i) /\ Dependencies(i)' = Dependencies(i)
    BY <1>1 DEF Kept, Dependencies
  <2>3. Elems(order)' = {}
    BY <1>1, <1>2 DEF Elems
  <2>4. \A i \in Plugin : AllKept(Dependencies(i))' = AllKept(Dependencies(i))
    BY <1>1 DEF AllKept, Kept, Dependencies
  <2> QED
    BY <1>1, <2>1, <2>2, <2>3, <2>4 DEF Sorting
<1>7. Registering'
  BY <1>1, <1>2 DEF Registering
<1>8. OnePlace'
  BY <1>1, <1>2 DEF OnePlace
<1>9. Ordered'
  BY <1>1, OrderedStays DEF Plan
<1>10. CyclesAreReal'
  BY <1>1, <1>5 DEF Passes, CyclesAreReal
<1> QED
  BY <1>3, <1>5, <1>6, <1>7, <1>8, <1>9, <1>10 DEF Plan

\* The next plugin of the plan comes after all it requires.
LEMMA SchedulePlan ==
  ASSUME Plan, NEW i \in Plugin, Schedule(i)
  PROVE  Plan'
<1> USE PlanAssumption
<1>1. /\ phase = "sort" /\ phase' = phase /\ at' = at /\ changed' = changed
      /\ requires' = requires /\ skipped' = skipped /\ loaded' = loaded
      /\ i \in ready
      /\ order' = Append(order, i)
      /\ waiting' = [j \in Plugin |-> waiting[j] \ {i}]
      /\ ready' = (ready \ {i}) \cup Released(i)
  BY DEF Schedule, passes
<1>2. Kept(i) /\ waiting[i] = {} /\ i \notin Elems(order) /\ order \in Seq(Plugin)
  BY <1>1 DEF Plan, TypeOK
<1>3. /\ Elems(order') = Elems(order) \cup {i}
      /\ Len(order') = Len(order) + 1
      /\ \A k \in DOMAIN order : order'[k] = order[k]
      /\ order'[Len(order) + 1] = i
      /\ DOMAIN order' = DOMAIN order \cup {Len(order) + 1}
      /\ order' \in Seq(Plugin)
  BY <1>1, <1>2, ElemsAppend
<1>4. Elems(order)' = Elems(order')
  BY DEF Elems
<1>5. \A j \in Plugin : /\ Kept(j)' = Kept(j) /\ Dependencies(j)' = Dependencies(j)
                        /\ Elems(requires[j])' = Elems(requires[j])
  BY <1>1 DEF Kept, Dependencies, Elems
<1>6. Dependencies(i) \subseteq Elems(order)
  BY <1>1, <1>2 DEF Plan, Sorting
<1>7. \A j \in Released(i) : /\ j \in Plugin /\ Kept(j) /\ waiting'[j] = {}
                             /\ j \notin Elems(order) \cup {i}
  <2>1. ASSUME NEW j \in Released(i) PROVE /\ j \in Plugin /\ Kept(j) /\ waiting'[j] = {}
                                           /\ j \notin Elems(order) \cup {i}
    <3>1. j \in Plugin /\ i \in waiting[j] /\ waiting'[j] = {} /\ j # i
      BY <1>1, <1>2 DEF Released
    <3>2. Kept(j) /\ waiting[j] = Dependencies(j) \ Elems(order)
      BY <1>1, <3>1 DEF Plan, Sorting
    <3>3. ASSUME j \in Elems(order) PROVE FALSE
      <4>1. PICK k \in DOMAIN order : order[k] = j
        BY <3>3 DEF Elems
      <4>2. PICK l \in 1..(k - 1) : order[l] = i
        BY <3>1, <3>2, <4>1 DEF Plan, Ordered
      <4>3. l \in DOMAIN order
        BY <1>2, <4>1
      <4> QED
        BY <1>2, <4>2, <4>3 DEF Elems
    <3> QED
      BY <3>1, <3>2, <3>3
  <2> QED
    BY <2>1
<1>8. TypeOK'
  <2>1. waiting' \in [Plugin -> SUBSET Plugin]
    BY <1>1 DEF Plan, TypeOK
  <2>2. ASSUME NEW j \in ready'
        PROVE  j \in Plugin /\ Kept(j)' /\ waiting'[j] = {} /\ j \notin Elems(order)'
    <3>1. CASE j \in Released(i)
      BY <1>3, <1>4, <1>5, <1>7, <3>1
    <3>2. CASE j \in ready \ {i}
      BY <1>1, <1>3, <1>4, <1>5, <3>2 DEF Plan, TypeOK
    <3> QED
      BY <1>1, <2>2, <3>1, <3>2
  <2> QED
    BY <1>1, <1>3, <2>1, <2>2 DEF Plan, TypeOK
<1>9. Passes'
  <2>1. \A j \in Plugin : Settled(j)' = Settled(j)
    BY <1>1 DEF Settled
  <2>2. ASSUME NEW j, NEW need, NEW S PROVE Met(j, need, S)' = Met(j, need, S)
    BY DEF Met
  <2> QED
    BY <1>1, <1>5, <2>1, <2>2 DEF Plan, Passes, Met
<1>10. Sorting'
  <2>1. ASSUME NEW j \in Plugin
        PROVE  /\ waiting'[j] # {} => Kept(j)
               /\ Kept(j) => /\ AllKept(Dependencies(j))
                             /\ waiting'[j] = Dependencies(j) \ Elems(order')
                             /\ waiting'[j] = {} => j \in ready' \cup Elems(order')
    <3>1. waiting'[j] = waiting[j] \ {i}
      BY <1>1
    <3>2. /\ waiting[j] # {} => Kept(j)
          /\ Kept(j) => /\ AllKept(Dependencies(j))
                        /\ waiting[j] = Dependencies(j) \ Elems(order)
                        /\ waiting[j] = {} => j \in ready \cup Elems(order)
      BY <1>1 DEF Plan, Sorting
    <3>3. waiting'[j] = {} /\ waiting[j] # {} => j \in Released(i)
      BY <3>1 DEF Released
    <3> QED
      BY <1>1, <1>3, <3>1, <3>2, <3>3
  <2>2. \A j \in Plugin : AllKept(Dependencies(j))' = AllKept(Dependencies(j))
    BY <1>1 DEF AllKept, Kept, Dependencies
  <2> QED
    BY <1>1, <1>4, <1>5, <2>1, <2>2 DEF Sorting
<1>11. Registering'
  BY <1>1 DEF Plan, Registering
<1>12. OnePlace'
  <2>1. ASSUME NEW k \in DOMAIN order', NEW l \in DOMAIN order', order'[k] = order'[l]
        PROVE  k = l
    <3>1. \A n \in DOMAIN order : order[n] # i
      BY <1>2 DEF Elems
    <3>2. \A m, n \in DOMAIN order : order[m] = order[n] => m = n
      BY DEF Plan, OnePlace
    <3> QED
      BY <1>3, <2>1, <3>1, <3>2
  <2>2. \A k \in DOMAIN order' : skipped'[order'[k]] = "no"
    BY <1>1, <1>2, <1>3 DEF Plan, OnePlace, Kept
  <2> QED
    BY <2>1, <2>2 DEF OnePlace, Kept
<1>13. Ordered'
  <2>1. Cardinality(Elems(order')) = Len(order')
    <3>1. Elems(order) \in SUBSET Plugin
      BY <1>2 DEF Elems
    <3>2. IsFiniteSet(Plugin)
      BY FS_Interval DEF Plugin
    <3>3. IsFiniteSet(Elems(order))
      BY <3>1, <3>2, FS_Subset
    <3>4. Cardinality(Elems(order) \cup {i}) = Cardinality(Elems(order)) + 1
      BY <1>2, <3>3, FS_AddElement
    <3>5. Cardinality(Elems(order)) = Len(order)
      BY DEF Plan, Ordered
    <3> QED
      BY <1>3, <3>4, <3>5
  <2>2. ASSUME NEW k \in DOMAIN order', NEW d \in Dependencies(order'[k])
        PROVE  \E l \in 1..(k - 1) : order'[l] = d
    <3>1. CASE k \in DOMAIN order
      <4>1. PICK l \in 1..(k - 1) : order[l] = d
        BY <1>3, <2>2, <3>1 DEF Plan, Ordered
      <4>2. l \in DOMAIN order
        BY <1>2, <3>1
      <4> QED
        BY <1>3, <4>1, <4>2
    <3>2. CASE k = Len(order) + 1
      <4>1. d \in Elems(order)
        BY <1>3, <1>6, <2>2, <3>2
      <4>2. PICK l \in DOMAIN order : order[l] = d
        BY <4>1 DEF Elems
      <4>3. l \in 1..(k - 1)
        BY <1>2, <3>2
      <4> QED
        BY <1>3, <4>2, <4>3
    <3> QED
      BY <1>3, <3>1, <3>2
  <2>3. ASSUME NEW S \in SUBSET Plugin, Closed(S) \subseteq S
        PROVE  Elems(order') \subseteq S
    <3>1. Elems(order) \subseteq S
      BY <2>3 DEF Plan, Ordered
    <3>2. \A need \in Elems(requires[i]) : Met(i, need, Plugin)
      BY <1>1, <1>2 DEF Plan, Passes, Settled
    <3>3. i \in Closed(S)
      BY <1>6, <3>1, <3>2, DependencyMeaning
    <3> QED
      BY <1>3, <2>3, <3>1, <3>3
  <2>4. \A S \in SUBSET Plugin : Closed(S)' = Closed(S)
    BY <1>1 DEF Closed, Elems
  <2>5. \A k \in DOMAIN order' : order'[k] \in Plugin
    <3>1. order' \in Seq(Plugin)
      BY <1>3
    <3> QED
      BY <3>1, PluginsOnly
  <2> QED
    BY <1>4, <1>5, <2>1, <2>2, <2>3, <2>4, <2>5 DEF Ordered
<1>14. CyclesAreReal'
  BY <1>1, <1>9 DEF Passes, CyclesAreReal
<1> QED
  BY <1>8, <1>9, <1>10, <1>11, <1>12, <1>13, <1>14 DEF Plan

\* Sorted: what was not scheduled waits for something that was not scheduled.
LEMMA SortedPlan == Plan /\ Sorted => Plan'
<1> SUFFICES ASSUME Plan, Sorted PROVE Plan'
  OBVIOUS
<1> USE PlanAssumption
<1>1. /\ phase = "sort" /\ phase' = "register" /\ ready = {} /\ at' = 1 /\ changed' = FALSE
      /\ requires' = requires /\ loaded' = loaded
      /\ order' = order /\ waiting' = waiting /\ ready' = ready
      /\ skipped' = [i \in Plugin |->
           IF Kept(i) /\ i \notin Elems(order) THEN "cycle" ELSE skipped[i]]
  BY DEF Sorted, Enter, sort
<1>2. skipped \in [Plugin -> {"no", "missing", "version"}] /\ loaded = <<>>
  BY <1>1 DEF Plan, TypeOK, Passes, Registering
<1>3. \A i \in Plugin : Kept(i)' <=> Kept(i) /\ i \in Elems(order)
  BY <1>1, <1>2 DEF Kept
<1>4. \A i \in Plugin : skipped'[i] = "cycle" <=> Kept(i) /\ i \notin Elems(order)
  BY <1>1, <1>2
<1>5. \A i \in Plugin : /\ Dependencies(i)' = Dependencies(i)
                        /\ Elems(requires[i])' = Elems(requires[i])
  BY <1>1 DEF Dependencies, Elems
<1>6. ASSUME NEW i \in Plugin, skipped'[i] = "cycle"
      PROVE  \E d \in Dependencies(i) : skipped'[d] = "cycle"
  <2>1. Kept(i) /\ i \notin Elems(order)
    BY <1>4, <1>6
  <2>2. /\ AllKept(Dependencies(i)) /\ waiting[i] = Dependencies(i) \ Elems(order)
        /\ waiting[i] # {}
    BY <1>1, <2>1 DEF Plan, Sorting
  <2>3. PICK d \in Dependencies(i) : d \notin Elems(order)
    BY <2>2
  <2>4. d \in Plugin /\ Kept(d)
    BY <2>2 DEF AllKept, Dependencies
  <2> QED
    BY <1>4, <2>3, <2>4
<1>7. TypeOK'
  <2>1. at' \in 1..(Count + 1)
    BY <1>1
  <2>2. skipped' \in [Plugin -> {"no", "missing", "version", "cycle"}]
    BY <1>1, <1>2
  <2> QED
    BY <1>1, <2>1, <2>2 DEF Plan, TypeOK
<1>8. Passes'
  <2>1. \A i \in Plugin : Kept(i)' =>
          \A need \in Elems(requires[i]) : Met(i, need, Plugin)
    BY <1>1, <1>3 DEF Plan, Passes, Settled
  <2>2. {d \in Plugin : Kept(d)'} \subseteq {d \in Plugin : Kept(d)}
    BY <1>3
  <2>3. ASSUME NEW i \in Plugin, ~Kept(i)'
        PROVE  \E need \in Elems(requires[i]) : ~Met(i, need, {d \in Plugin : Kept(d)'})
    <3>1. CASE ~Kept(i)
      <4>1. \E need \in Elems(requires[i]) : ~Met(i, need, {d \in Plugin : Kept(d)})
        BY <3>1 DEF Plan, Passes
      <4> QED
        BY <2>2, <4>1, LackStays
    <3>2. CASE Kept(i)
      <4>1. skipped'[i] = "cycle"
        BY <1>3, <1>4, <2>3, <3>2
      <4>2. PICK d \in Dependencies(i) : skipped'[d] = "cycle"
        BY <1>6, <4>1
      <4>3. PICK need \in Elems(requires[i]) : need.id = d
        BY <4>2 DEF Dependencies
      <4>4. d \notin {e \in Plugin : Kept(e)'}
        BY <4>2 DEF Kept
      <4> QED
        BY <4>3, <4>4 DEF Met
    <3> QED
      BY <3>1, <3>2
  <2>4. \A i \in Plugin : Settled(i)'
    BY <1>1 DEF Settled
  <2>5. ASSUME NEW i, NEW need, NEW S PROVE Met(i, need, S)' = Met(i, need, S)
    BY DEF Met
  <2> QED
    BY <1>1, <1>5, <2>1, <2>3, <2>4, <2>5 DEF Passes, Met
<1>9. Sorting'
  <2>1. Elems(order)' = Elems(order)
    BY <1>1 DEF Elems
  <2> QED
    BY <1>1, <1>3, <2>1 DEF Sorting
<1>10. Registering'
  <2>1. Len(order) \in Nat /\ Len(loaded) = 0 /\ DOMAIN loaded = {}
    BY <1>2 DEF Plan, TypeOK
  <2> QED
    BY <1>1, <2>1 DEF Registering
<1>11. OnePlace'
  BY <1>1, <1>3 DEF Plan, OnePlace, TypeOK, Elems
<1>12. Ordered'
  BY <1>1, OrderedStays DEF Plan
<1>13. CyclesAreReal'
  BY <1>5, <1>6 DEF CyclesAreReal
<1> QED
  BY <1>7, <1>8, <1>9, <1>10, <1>11, <1>12, <1>13 DEF Plan

LEMMA RegisterOnePlan == Plan /\ RegisterOne => Plan'
<1> SUFFICES ASSUME Plan, RegisterOne PROVE Plan'
  OBVIOUS
<1> USE PlanAssumption
<1>1. /\ phase = "register" /\ at \in DOMAIN order
      /\ loaded' = Append(loaded, order[at]) /\ at' = at + 1
      /\ requires' = requires /\ phase' = phase /\ changed' = changed /\ skipped' = skipped
      /\ order' = order /\ waiting' = waiting /\ ready' = ready
  BY DEF RegisterOne, sort
<1>2. /\ order \in Seq(Plugin) /\ loaded \in Seq(Plugin) /\ order[at] \in Plugin
      /\ Len(loaded) = at - 1 /\ at \in 1..Len(order)
  BY <1>1 DEF Plan, TypeOK, Registering
<1>3. /\ Len(loaded') = at
      /\ \A k \in DOMAIN loaded : loaded'[k] = loaded[k]
      /\ loaded'[at] = order[at]
      /\ DOMAIN loaded' = DOMAIN loaded \cup {at}
      /\ loaded' \in Seq(Plugin)
  BY <1>1, <1>2, ElemsAppend
<1>4. TypeOK'
  <2>1. at' \in 1..(Count + 1)
    <3>1. Len(order) <= Count
      BY PlanLength DEF Plan, Ordered
    <3> QED
      BY <1>1, <1>2, <3>1
  <2>2. Elems(order)' = Elems(order) /\ \A i \in Plugin : Kept(i)' = Kept(i)
    BY <1>1 DEF Elems, Kept
  <2>3. \A i \in ready' : i \in Plugin /\ Kept(i)' /\ waiting'[i] = {} /\ i \notin Elems(order)'
    BY <1>1, <2>2 DEF Plan, TypeOK
  <2> QED
    BY <1>1, <1>3, <2>1, <2>3 DEF Plan, TypeOK
<1>5. Passes'
  <2>1. \A i \in Plugin : Settled(i)' /\ Settled(i)
    BY <1>1 DEF Settled
  <2>2. \A i \in Plugin : Kept(i)' = Kept(i) /\ Elems(requires[i])' = Elems(requires[i])
    BY <1>1 DEF Kept, Elems
  <2>3. ASSUME NEW i, NEW need, NEW S PROVE Met(i, need, S)' = Met(i, need, S)
    BY DEF Met
  <2> QED
    BY <1>1, <2>1, <2>2, <2>3 DEF Plan, Passes, Met
<1>6. Sorting'
  BY <1>1 DEF Plan, Sorting, Kept, Elems
<1>7. Registering'
  BY <1>1, <1>2, <1>3 DEF Plan, Registering
<1>8. OnePlace' /\ CyclesAreReal'
  BY <1>1 DEF Plan, OnePlace, CyclesAreReal, Kept, Dependencies
<1>9. Ordered'
  BY <1>1, OrderedStays DEF Plan
<1> QED
  BY <1>4, <1>5, <1>6, <1>7, <1>8, <1>9 DEF Plan

LEMMA NextPlan == Plan /\ [Next]_vars => Plan'
<1> SUFFICES ASSUME Plan, [Next]_vars PROVE Plan'
  OBVIOUS
<1>1. CASE Check
  BY <1>1, CheckPlan
<1>2. CASE Checked
  BY <1>2, EnterPlan DEF Checked
<1>3. CASE Propagate
  BY <1>3, PropagatePlan
<1>4. CASE Again
  BY <1>4, EnterPlan DEF Again
<1>5. CASE Propagated
  BY <1>5, PropagatedPlan
<1>6. ASSUME NEW i \in Plugin, Schedule(i) PROVE Plan'
  BY <1>6, SchedulePlan
<1>7. CASE Sorted
  BY <1>7, SortedPlan
<1>8. CASE RegisterOne
  BY <1>8, RegisterOnePlan
<1>9. CASE UNCHANGED vars
  <2>1. /\ requires' = requires /\ phase' = phase /\ at' = at /\ changed' = changed
        /\ skipped' = skipped /\ waiting' = waiting /\ ready' = ready
        /\ order' = order /\ loaded' = loaded
    BY <1>9 DEF vars, passes, sort
  <2>2. TypeOK'
    <3>1. Elems(order)' = Elems(order) /\ \A i \in Plugin : Kept(i)' = Kept(i)
      BY <2>1 DEF Elems, Kept
    <3>2. \A i \in ready' : i \in Plugin /\ Kept(i)' /\ waiting'[i] = {} /\ i \notin Elems(order)'
      BY <2>1, <3>1 DEF Plan, TypeOK
    <3> QED
      BY <2>1, <3>2 DEF Plan, TypeOK
  <2>3. Passes'
    BY <2>1 DEF Plan, Passes, Met, AllKept, Kept, Settled, Dependencies, Elems
  <2>4. Sorting'
    BY <2>1 DEF Plan, Sorting, AllKept, Kept, Dependencies, Elems
  <2>5. OnePlace' /\ CyclesAreReal' /\ Registering'
    BY <2>1 DEF Plan, OnePlace, CyclesAreReal, Registering, Kept, Dependencies
  <2>6. Ordered'
    BY <2>1, OrderedStays DEF Plan
  <2> QED
    BY <2>2, <2>3, <2>4, <2>5, <2>6 DEF Plan
<1> QED
  BY <1>1, <1>2, <1>3, <1>4, <1>5, <1>6, <1>7, <1>8, <1>9 DEF Next

THEOREM PlanHolds == Spec => []Plan
  BY InitPlan, NextPlan, PTL DEF Spec

----------------------------------------------------------------------------
(***************************************************************************)
(* What follows                                                            *)
(***************************************************************************)
\* The plan that is carried out has every dependency before its dependents.
LEMMA PlanDependenciesFirst == Plan => DependenciesFirst
<1> SUFFICES ASSUME Plan, NEW k \in DOMAIN loaded, NEW need \in Elems(requires[loaded[k]])
             PROVE  need.fits /\ \E l \in 1..(k - 1) : loaded[l] = need.id
  BY DEF DependenciesFirst
<1>1. phase = "register"
  BY DEF Plan, Registering
<1>2. /\ order \in Seq(Plugin) /\ loaded \in Seq(Plugin) /\ Len(loaded) <= Len(order)
      /\ \A l \in DOMAIN loaded : l \in DOMAIN order /\ loaded[l] = order[l]
  BY <1>1 DEF Plan, Registering, TypeOK
<1>3. order[k] \in Plugin /\ Kept(order[k]) /\ need \in Elems(requires[order[k]])
  BY <1>2 DEF Plan, OnePlace
<1>4. \A n \in Elems(requires[order[k]]) : Met(order[k], n, Plugin)
  BY <1>1, <1>3 DEF Plan, Passes, Settled
<1>5. need.fits /\ need.id \in Dependencies(order[k])
  BY <1>3, <1>4 DEF Met, Dependencies
<1>6. PICK l \in 1..(k - 1) : order[l] = need.id
  BY <1>2, <1>5 DEF Plan, Ordered
<1>7. l \in DOMAIN loaded
  BY <1>2
<1> QED
  BY <1>2, <1>5, <1>6, <1>7

\* What is loaded in the end contains each plugin whose requirements it meets, and
\* is contained in every set that does.
LEMMA PlanLoadsWhatCanBe == Plan => LoadsWhatCanBe
<1> SUFFICES ASSUME Plan, Done
             PROVE  /\ Elems(loaded) = Loadable
                    /\ \A i \in Plugin : Kept(i) <=> i \in Elems(loaded)
  BY DEF LoadsWhatCanBe
<1>1. phase = "register" /\ at \notin DOMAIN order
  BY DEF Done
<1>2. /\ order \in Seq(Plugin) /\ loaded \in Seq(Plugin) /\ DOMAIN loaded = DOMAIN order
      /\ \A l \in DOMAIN loaded : loaded[l] = order[l]
  BY <1>1 DEF Plan, Registering, TypeOK
<1>3. Elems(loaded) = Elems(order) /\ Elems(order) \in SUBSET Plugin
  BY <1>2 DEF Elems
<1>4. \A i \in Plugin : Kept(i) <=> i \in Elems(order)
  BY <1>1 DEF Plan, Sorting, OnePlace, Elems
<1>5. Elems(order) \subseteq Loadable
  BY <1>3 DEF Plan, Ordered, Loadable
<1>6. Closed(Elems(order)) \subseteq Elems(order)
  <2> SUFFICES ASSUME NEW i \in Closed(Elems(order)), i \notin Elems(order)
               PROVE  FALSE
    OBVIOUS
  <2>1. i \in Plugin /\ \A need \in Elems(requires[i]) : Met(i, need, Elems(order))
    BY DEF Closed, Met
  <2>2. Elems(order) = {d \in Plugin : Kept(d)}
    BY <1>3, <1>4
  <2>3. \E need \in Elems(requires[i]) : ~Met(i, need, {d \in Plugin : Kept(d)})
    BY <1>4, <2>1 DEF Plan, Passes
  <2> QED
    BY <2>1, <2>2, <2>3
<1>7. Loadable \subseteq Elems(order)
  BY <1>3, <1>6 DEF Loadable
<1> QED
  BY <1>3, <1>4, <1>5, <1>7

\* Every variable has its type.
THEOREM PlanTypeCorrect == Spec => []TypeOK
  BY PlanHolds, PTL DEF Plan

\* No plugin is scheduled twice, or scheduled and reported as skipped.
THEOREM PlanHasOnePlace == Spec => []OnePlace
  BY PlanHolds, PTL DEF Plan

\* register() runs after that of every plugin it requires.
THEOREM DependenciesComeFirst == Spec => []DependenciesFirst
  BY PlanHolds, PlanDependenciesFirst, PTL

\* A plugin that is reported to be on a cycle requires another one that is.
THEOREM ReportedCyclesAreReal == Spec => []CyclesAreReal
  BY PlanHolds, PTL DEF Plan

\* load() ends with the least set of plugins that contains each one whose
\* requirements it meets.
THEOREM ExactlyTheLoadableAreLoaded == Spec => []LoadsWhatCanBe
  BY PlanHolds, PlanLoadsWhatCanBe, PTL
=============================================================================
