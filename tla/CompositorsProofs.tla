------------------------- MODULE CompositorsProofs --------------------------
(***************************************************************************)
(* What the clients of Sway, Niri and other compositors promise, for every *)
(* set of windows, workspaces and outputs and every order of their events  *)
(* and answers: each implements CompositorView.                            *)
(*                                                                         *)
(* The clients fold the events they read over their state, so most of this *)
(* is about folds: what one event does to the part of the state it is      *)
(* about, and so what a run of them does.  The invariants say what the     *)
(* state will be once the events under way have been applied.              *)
(***************************************************************************)
EXTENDS CompositorParts, SequencesExt, SequenceTheorems, FiniteSetTheorems, WellFoundedInduction, TLAPS

-----------------------------------------------------------------------------
(* Inductions, and folds over sequences.                                    *)

\* Induction over the natural numbers, for sets.
LEMMA SetInduction ==
  ASSUME NEW S, 0 \in S, \A n \in Nat : n \in S => n + 1 \in S
  PROVE  \A n \in Nat : n \in S
<1> DEFINE R == {ss \in Nat \X Nat : ss[1] < ss[2]}
           T == {n \in Nat : n \notin S}
<1> SUFFICES ASSUME T # {} PROVE FALSE
  OBVIOUS
<1>1. IsWellFoundedOn(R, Nat)
  BY NatLessThanWellFounded DEF OpToRel
<1>2. T \subseteq Nat
  OBVIOUS
<1>3. \A x, y \in Nat : x < y => <<x, y>> \in R
  OBVIOUS
<1> HIDE DEF T, R
<1>4. PICK m \in T : \A y \in T : ~ (<<y, m>> \in R)
  BY <1>1, <1>2, WFMin
<1>5. m \in Nat /\ m \notin S
  BY DEF T
<1>6. m # 0 /\ m - 1 \in Nat /\ <<m - 1, m>> \in R
  BY <1>5, <1>3
<1>7. m - 1 \in S
  BY <1>4, <1>6 DEF T
<1> QED
  BY <1>5, <1>6, <1>7

\* Two sequences of values that go on alike are alike.
LEMMA Alike ==
  ASSUME NEW n \in Nat, NEW f, NEW g, f[0] = g[0],
         \A i \in 1..n : f[i - 1] = g[i - 1] => f[i] = g[i]
  PROVE  \A i \in 0..n : f[i] = g[i]
<1> DEFINE S == {i \in Nat : i <= n => f[i] = g[i]}
<1>1. 0 \in S
  OBVIOUS
<1>2. ASSUME NEW i \in Nat, i \in S PROVE i + 1 \in S
  <2>1. i + 1 \in Nat /\ (i + 1) - 1 = i
    OBVIOUS
  <2>2. CASE i + 1 <= n
    <3>1. i + 1 \in 1..n /\ f[i] = g[i]
      BY <1>2, <2>2
    <3>2. f[i + 1] = g[i + 1]
      BY <2>1, <3>1
    <3> QED BY <2>1, <3>2
  <2>3. CASE ~(i + 1 <= n)
    BY <2>1, <2>3
  <2> QED BY <2>2, <2>3
<1> HIDE DEF S
<1>3. \A i \in Nat : i \in S
  BY <1>1, <1>2, SetInduction
<1> QED
  BY <1>3 DEF S

\* The greatest of the first numbers.
LEMMA MaxIs == \A n \in Nat \ {0} : \A x \in SUBSET (1..n) : n \in x => Max(x) = n
<1> SUFFICES ASSUME NEW n \in Nat \ {0}, NEW x \in SUBSET (1..n), n \in x PROVE Max(x) = n
  OBVIOUS
<1>1. \A y \in x : n >= y
  OBVIOUS
<1>2. \A m \in x : (\A y \in x : m >= y) => m = n
  <2> SUFFICES ASSUME NEW m \in x, \A y \in x : m >= y PROVE m = n
    OBVIOUS
  <2>1. m \in 1..n /\ m >= n
    OBVIOUS
  <2> QED BY <2>1
<1> QED
  BY <1>1, <1>2 DEF Max

\* `it` folds the first N numbers with `step`, in the form the community modules give it.
IsFold(it, b, N, step) ==
  \A x \in SUBSET (1..N) : it[x] = IF x = {} THEN b ELSE step[<<it[x \ {Max(x)}], Max(x)>>]

\* There is such a fold.
LEMMA FoldsThereAre ==
  ASSUME NEW R, NEW b \in R, NEW N \in Nat, NEW step \in [R \X (1..N) -> R]
  PROVE  \E it \in [SUBSET (1..N) -> R] : IsFold(it, b, N, step)
<1> DEFINE Folds(it, n) ==
             \A x \in SUBSET (1..n) : it[x] = IF x = {} THEN b ELSE step[<<it[x \ {Max(x)}], Max(x)>>]
           P(n) == \E it \in [SUBSET (1..n) -> R] : Folds(it, n)
           S == {n \in Nat : n <= N => P(n)}
<1>1. P(0)
  <2> DEFINE none == SUBSET (1..0)
             it == [x \in none |-> b]
  <2>1. \A x \in none : x = {}
    OBVIOUS
  <2> HIDE DEF none
  <2>2. it \in [none -> R] /\ \A x \in none : it[x] = b
    OBVIOUS
  <2> HIDE DEF it
  <2>3. it \in [SUBSET (1..0) -> R] /\ Folds(it, 0)
    BY <2>1, <2>2 DEF none
  <2> HIDE DEF Folds
  <2> QED BY <2>3
<1>2. ASSUME NEW n \in Nat, n + 1 <= N, P(n) PROVE P(n + 1)
  <2>0. 1..n + 1 = (1..n) \cup {n + 1} /\ n + 1 \notin 1..n
    OBVIOUS
  <2>1. PICK it \in [SUBSET (1..n) -> R] : Folds(it, n)
    BY <1>2
  <2> DEFINE new == [x \in SUBSET (1..n + 1) |-> IF n + 1 \in x THEN step[<<it[x \ {n + 1}], n + 1>>] ELSE it[x]]
  <2>2. \A x \in SUBSET (1..n + 1) : x \ {n + 1} \in SUBSET (1..n)
    BY <2>0
  <2>3. \A x \in SUBSET (1..n + 1) : n + 1 \notin x => x \in SUBSET (1..n)
    BY <2>0
  <2>4. n + 1 \in 1..N
    BY <1>2
  <2>5. new \in [SUBSET (1..n + 1) -> R]
    <3> SUFFICES ASSUME NEW x \in SUBSET (1..n + 1) PROVE new[x] \in R
      OBVIOUS
    <3>1. CASE n + 1 \in x
      <4>1. it[x \ {n + 1}] \in R
        BY <2>2
      <4> QED BY <3>1, <4>1, <2>4
    <3>2. CASE n + 1 \notin x
      BY <3>2, <2>3
    <3> QED BY <3>1, <3>2
  <2>6. Folds(new, n + 1)
    <3> SUFFICES ASSUME NEW x \in SUBSET (1..n + 1)
                 PROVE  new[x] = IF x = {} THEN b ELSE step[<<new[x \ {Max(x)}], Max(x)>>]
      OBVIOUS
    <3>1. CASE n + 1 \in x
      <4>1. Max(x) = n + 1 /\ x # {}
        BY <3>1, MaxIs
      <4>2. new[x] = step[<<it[x \ {n + 1}], n + 1>>]
        BY <3>1
      <4>3. x \ {n + 1} \in SUBSET (1..n + 1) /\ n + 1 \notin x \ {n + 1}
        OBVIOUS
      <4>4. new[x \ {n + 1}] = it[x \ {n + 1}]
        BY <4>3
      <4> QED BY <4>1, <4>2, <4>4
    <3>2. CASE n + 1 \notin x
      <4>1. x \in SUBSET (1..n) /\ new[x] = it[x]
        BY <2>3, <3>2
      <4>2. x \ {Max(x)} \in SUBSET (1..n + 1) /\ n + 1 \notin x \ {Max(x)}
        BY <3>2
      <4>3. new[x \ {Max(x)}] = it[x \ {Max(x)}]
        BY <4>2
      <4> QED BY <2>1, <4>1, <4>3
    <3> QED BY <3>1, <3>2
  <2> HIDE DEF new, Folds
  <2> QED BY <2>5, <2>6
<1> HIDE DEF P
<1>3. 0 \in S /\ \A n \in Nat : n \in S => n + 1 \in S
  <2>1. \A n \in Nat : n + 1 <= N => n <= N
    OBVIOUS
  <2> QED BY <1>1, <1>2, <2>1
<1> HIDE DEF S
<1>4. N \in S
  BY <1>3, SetInduction
<1>5. P(N)
  BY <1>4 DEF S
<1> QED
  BY <1>5 DEF P, IsFold

\* The values that a fold goes through, for the first numbers, the first two, and so on.
LEMMA PrefixesRun ==
  ASSUME NEW R, NEW N \in Nat, NEW it, it[{}] \in R, \A k \in 1..N : it[1..k - 1] \in R => it[1..k] \in R
  PROVE  [k \in 0..N |-> it[1..k]] \in [0..N -> R]
<1> DEFINE S == {k \in Nat : k <= N => it[1..k] \in R}
<1>1. 0 \in S
  <2>1. 1..0 = {}
    OBVIOUS
  <2> QED BY <2>1
<1>2. ASSUME NEW k \in Nat, k \in S PROVE k + 1 \in S
  <2>1. k + 1 <= N => k + 1 \in 1..N /\ (k + 1) - 1 = k /\ k <= N
    OBVIOUS
  <2> QED BY <1>2, <2>1
<1> HIDE DEF S
<1>3. \A k \in Nat : k \in S
  BY <1>1, <1>2, SetInduction
<1> QED BY <1>3 DEF S

\* A set of the first numbers has a greatest.
LEMMA GreatestOf ==
  ASSUME NEW n \in Nat, NEW S \in SUBSET (1..n), S # {}
  PROVE  Max(S) \in S /\ \A y \in S : Max(S) >= y
<1> DEFINE T == {n - y : y \in S}
           R == {ss \in Nat \X Nat : ss[1] < ss[2]}
<1>1. T \subseteq Nat /\ T # {}
  <2>1. \A y \in S : n - y \in Nat
    <3> SUFFICES ASSUME NEW y \in S PROVE n - y \in Nat
      OBVIOUS
    <3>1. y \in 1..n
      OBVIOUS
    <3> QED BY <3>1
  <2>2. PICK z \in S : TRUE
    OBVIOUS
  <2>3. n - z \in T
    OBVIOUS
  <2> QED BY <2>1, <2>3
<1>2. IsWellFoundedOn(R, Nat)
  BY NatLessThanWellFounded DEF OpToRel
<1>3. \A x, y \in Nat : x < y => <<x, y>> \in R
  OBVIOUS
<1> HIDE DEF R
<1>4. PICK t \in T : \A y \in T : ~ (<<y, t>> \in R)
  <2> HIDE DEF T
  <2> QED BY <1>1, <1>2, WFMin
<1>5. PICK g \in S : t = n - g
  OBVIOUS
<1>6. \A y \in S : g >= y
  <2> SUFFICES ASSUME NEW y \in S, ~(g >= y) PROVE FALSE
    OBVIOUS
  <2>1. n - y \in T /\ n - y < t
    BY <1>5
  <2> QED BY <1>1, <1>3, <1>4, <2>1
<1> QED BY <1>6 DEF Max

\* What holds of the first of N steps, and goes on, holds of all.
LEMMA UpTo == \A N \in Nat : \A S : 0 \in S /\ (\A i \in 1..N : i - 1 \in S => i \in S) => \A i \in 0..N : i \in S
<1> SUFFICES ASSUME NEW N \in Nat, NEW S, 0 \in S, \A i \in 1..N : i - 1 \in S => i \in S PROVE \A i \in 0..N : i \in S
  OBVIOUS
<1> DEFINE T == {i \in Nat : i <= N => i \in S}
<1>1. 0 \in T
  OBVIOUS
<1>2. ASSUME NEW i \in Nat, i \in T PROVE i + 1 \in T
  <2>1. i + 1 \in Nat /\ (i + 1) - 1 = i /\ (i + 1 <= N => i <= N /\ i + 1 \in 1..N)
    OBVIOUS
  <2> QED BY <1>2, <2>1
<1> HIDE DEF T
<1>3. \A i \in Nat : i \in T
  BY <1>1, <1>2, SetInduction
<1> QED BY <1>3 DEF T

\* A set of numbers has a least one.
LEMMA LeastThereIs == \A S \in SUBSET Nat : S # {} => Min(S) \in S
<1> SUFFICES ASSUME NEW S \in SUBSET Nat, S # {} PROVE Min(S) \in S
  OBVIOUS
<1> DEFINE R == {ss \in Nat \X Nat : ss[1] < ss[2]}
<1>1. IsWellFoundedOn(R, Nat)
  BY NatLessThanWellFounded DEF OpToRel
<1>2. \A x, y \in Nat : x < y => <<x, y>> \in R
  OBVIOUS
<1> HIDE DEF R
<1>3. PICK m \in S : \A y \in S : ~ (<<y, m>> \in R)
  BY <1>1, WFMin
<1>4. \A y \in S : m <= y
  <2> SUFFICES ASSUME NEW y \in S, ~(m <= y) PROVE FALSE
    OBVIOUS
  <2>1. m \in Nat /\ y \in Nat /\ y < m
    OBVIOUS
  <2> QED BY <1>2, <1>3, <2>1
<1> QED
  BY <1>4 DEF Min

-----------------------------------------------------------------------------
(* Sway (Sway.tla).                                                         *)

Ran(b, s) == Sw!FoldLeft(Sw!Apply, b, s)
Steady(R, N, s) == \A r \in R, i \in 1..N : Sw!Apply(r, s[i]) \in R
Runs(run, R, b, N, s) == run \in [0..N -> R] /\ run[0] = b /\ Ran(b, s) = run[N] /\ \A i \in 1..N : run[i] = Sw!Apply(run[i - 1], s[i])

\* A fold of events is a run over them.
LEMMA RunsThereAre == \A R, b, N, s : b \in R /\ N \in Nat /\ DOMAIN s = 1..N /\ Steady(R, N, s) => \E run : Runs(run, R, b, N, s)
<1> SUFFICES ASSUME NEW R, NEW b \in R, NEW N \in Nat, NEW s, DOMAIN s = 1..N, Steady(R, N, s)
             PROVE  \E run : Runs(run, R, b, N, s)
  OBVIOUS
<1>0. \A r \in R, i \in 1..N : Sw!Apply(r, s[i]) \in R
  BY DEF Steady
<1> DEFINE Fits(it) == it = [x \in SUBSET (DOMAIN s) |-> IF x = {} THEN b ELSE Sw!Apply(it[x \ {Max(x)}], s[Max(x)])]
           step == [p \in R \X (1..N) |-> Sw!Apply(p[1], s[p[2]])]
           iter == CHOOSE it : Fits(it)
           run == [k \in 0..N |-> iter[1..k]]
<1>1. step \in [R \X (1..N) -> R] /\ \A r \in R, i \in 1..N : step[<<r, i>>] = Sw!Apply(r, s[i])
  BY <1>0
<1> HIDE DEF step
<1>2. \A x \in SUBSET (1..N) : x # {} => Max(x) \in 1..N
  <2> SUFFICES ASSUME NEW x \in SUBSET (1..N), x # {} PROVE Max(x) \in 1..N
    OBVIOUS
  <2>1. Max(x) \in x
    BY GreatestOf
  <2> QED BY <2>1
<1>3. PICK it \in [SUBSET (1..N) -> R] : IsFold(it, b, N, step)
  BY <1>1, FoldsThereAre
<1>4. Fits(it)
  <2>1. \A x \in SUBSET (1..N) : it[x] = IF x = {} THEN b ELSE Sw!Apply(it[x \ {Max(x)}], s[Max(x)])
    <3> SUFFICES ASSUME NEW x \in SUBSET (1..N), x # {} PROVE it[x] = Sw!Apply(it[x \ {Max(x)}], s[Max(x)])
      BY <1>3 DEF IsFold
    <3>1. x \ {Max(x)} \in SUBSET (1..N) /\ Max(x) \in 1..N
      BY <1>2
    <3> QED BY <1>1, <1>3, <3>1 DEF IsFold
  <2> QED BY <2>1
<1>5. Fits(iter)
  <2> HIDE DEF Fits
  <2> QED BY <1>4
<1>6. iter[{}] = b
  BY <1>5
<1>7. \A k \in 1..N : iter[1..k] = Sw!Apply(iter[1..k - 1], s[k])
  <2> SUFFICES ASSUME NEW k \in 1..N PROVE iter[1..k] = Sw!Apply(iter[1..k - 1], s[k])
    OBVIOUS
  <2>1. k \in Nat \ {0} /\ (1..k) \in SUBSET (1..N) /\ k \in 1..k /\ 1..k # {} /\ (1..k) \ {k} = 1..k - 1
    <3>1. k \in Nat \ {0} /\ k <= N
      OBVIOUS
    <3>2. (1..k) \in SUBSET (1..N) /\ k \in 1..k
      BY <3>1
    <3>3. (1..k) \ {k} = 1..k - 1
      BY <3>1
    <3> QED BY <3>1, <3>2, <3>3
  <2>2. Max(1..k) = k
    BY <2>1, MaxIs
  <2> QED BY <1>5, <2>1, <2>2
<1>8. Ran(b, s) = iter[1..N]
  BY DEF Ran, Sw!FoldLeft, Sw!MapThenFoldSet, Sw!Max, Max
<1> HIDE DEF iter
<1>9. run \in [0..N -> R]
  <2>1. \A k \in 1..N : iter[1..k - 1] \in R => iter[1..k] \in R
    BY <1>0, <1>7
  <2> QED BY <1>6, <2>1, PrefixesRun
<1>10. run[0] = b /\ run[N] = iter[1..N]
  <2>1. 1..0 = {}
    OBVIOUS
  <2> QED BY <1>6, <2>1
<1>11. \A i \in 1..N : run[i] = Sw!Apply(run[i - 1], s[i])
  BY <1>7
<1> HIDE DEF run
<1>12. Runs(run, R, b, N, s)
  BY <1>8, <1>9, <1>10, <1>11 DEF Runs
<1> QED BY <1>12

\* The types.
Texts == 0..1
Lists == UNION {[W -> Texts] : W \in SUBSET SwayWin}
Somewhere == SwayWorkspace \cup {CHOOSE p \in SwayWorkspace : TRUE}
Maybe == SwayWin \cup {NoSwayWin}
States == [windows : Lists, focus : Maybe, focus_title : Texts, workspaces : Somewhere, monitors : SUBSET SwayOutput]
Worlds == [wins : SUBSET SwayWin, title : [SwayWin -> Texts], focus : Maybe, place : Somewhere, outputs : SUBSET SwayOutput]
Marks == {"workspace", "output"}

SwayEvents == [change : {"new", "close", "focus", "title"}, id : SwayWin, title : Texts]
          \cup [change : Marks, id : {NoSwayWin}, title : Texts]
SwayResults == [state : States, changed : SUBSET Sw!SwayArea, resync : BOOLEAN]
Base(x) == [state |-> x, changed |-> {}, resync |-> FALSE]
Folded(x, E) == Ran(Base(x), E)

\* A list of windows is a function from windows to titles.
LEMMA ListIs == \A f \in Lists : DOMAIN f \subseteq SwayWin /\ f \in [DOMAIN f -> Texts]
BY DEF Lists

\* A list without a window keeps the other windows as they were.
LEMMA SwayWithoutIs == \A f \in Lists : \A w : Sw!Without(f, w) \in Lists /\ DOMAIN Sw!Without(f, w) = DOMAIN f \ {w}
                                       /\ \A v \in DOMAIN f \ {w} : Sw!Without(f, w)[v] = f[v]
<1> SUFFICES ASSUME NEW f \in Lists, NEW w
             PROVE  Sw!Without(f, w) \in Lists /\ DOMAIN Sw!Without(f, w) = DOMAIN f \ {w}
                    /\ \A v \in DOMAIN f \ {w} : Sw!Without(f, w)[v] = f[v]
  OBVIOUS
<1>1. DOMAIN f \subseteq SwayWin /\ f \in [DOMAIN f -> Texts]
  BY ListIs
<1> DEFINE W == DOMAIN f \ {w}
           g == [v \in W |-> f[v]]
<1>2. W \in SUBSET SwayWin /\ g \in [W -> Texts] /\ DOMAIN g = W /\ \A v \in W : g[v] = f[v]
  BY <1>1
<1>3. g \in Lists
  BY <1>2 DEF Lists
<1> QED BY <1>2, <1>3 DEF Sw!Without

\* What an event makes of the state, of what changed, and of what is to be asked.
Asks(r, e) == e.change \in {"new"} \cup Marks \/ (e.change \in {"focus", "title"} /\ e.id \notin Sw!Listed(r.state))

Applies(r, e, q) ==
  /\ q \in SwayResults
  /\ q.state.workspaces = r.state.workspaces /\ q.state.monitors = r.state.monitors
  /\ q.resync <=> r.resync \/ Asks(r, e)
  /\ e.change \in Marks => q.changed = r.changed \cup Sw!Places
  /\ e.change \notin Marks => q.changed \subseteq r.changed \cup (Sw!About(e) \cap Sw!Tree)
  /\ r.changed \subseteq q.changed
  /\ e.change \notin {"title", "close"} \/ Asks(r, e) => q.state.windows = r.state.windows
  /\ e.change = "title" /\ ~Asks(r, e) =>
       /\ "windows" \in q.changed /\ DOMAIN q.state.windows = DOMAIN r.state.windows
       /\ \A w \in DOMAIN r.state.windows : q.state.windows[w] = IF w = e.id THEN e.title ELSE r.state.windows[w]
  /\ e.change = "close" =>
       /\ "windows" \in q.changed /\ DOMAIN q.state.windows = DOMAIN r.state.windows \ {e.id}
       /\ \A w \in DOMAIN r.state.windows \ {e.id} : q.state.windows[w] = r.state.windows[w]
  /\ q.state.focus # r.state.focus => "focus" \in q.changed
  /\ e.change \notin {"focus", "close"} \/ Asks(r, e) => q.state.focus = r.state.focus
  /\ e.change = "focus" /\ ~Asks(r, e) => q.state.focus = e.id
  /\ e.change = "close" => q.state.focus = IF r.state.focus = e.id THEN NoSwayWin ELSE r.state.focus

\* What reading an event does, by cases of the event.
LEMMA ApplyIs == \A r \in SwayResults, e \in SwayEvents : Applies(r, e, Sw!Apply(r, e))
<1> SUFFICES ASSUME NEW r \in SwayResults, NEW e \in SwayEvents PROVE Applies(r, e, Sw!Apply(r, e))
  OBVIOUS
<1> DEFINE s == r.state
<1>0. /\ s \in States /\ r.changed \subseteq Sw!SwayArea /\ r.resync \in BOOLEAN
      /\ r = [state |-> s, changed |-> r.changed, resync |-> r.resync]
      /\ e.change \in {"new", "close", "focus", "title"} \cup Marks /\ e.id \in Maybe /\ e.title \in Texts
      /\ e.change \notin Marks => e.id \in SwayWin
      /\ TRUE \in BOOLEAN /\ Sw!Places \subseteq Sw!SwayArea /\ Sw!Tree \subseteq Sw!SwayArea /\ {"focus"} \subseteq Sw!SwayArea /\ {"windows"} \subseteq Sw!SwayArea
  BY DEF SwayResults, SwayEvents, Marks, Maybe, Sw!Places, Sw!Tree, Sw!SwayArea
<1>1. ASSUME NEW t \in States, NEW A \in SUBSET Sw!SwayArea
      PROVE  /\ Sw!Applied(r, t, A) \in SwayResults /\ Sw!Applied(r, t, A).state = t /\ Sw!Applied(r, t, A).changed = r.changed \cup A
             /\ Sw!Applied(r, t, A).resync = r.resync
  BY <1>0 DEF Sw!Applied, SwayResults
<1>2. Sw!Resync(r) \in SwayResults /\ Sw!Resync(r).state = s /\ Sw!Resync(r).changed = r.changed /\ Sw!Resync(r).resync = TRUE
  BY <1>0 DEF Sw!Resync, SwayResults
<1>3. CASE e.change = "focus"
  <2>1. e.change \notin Marks /\ Sw!Apply(r, e) = Sw!ApplyFocus(r, e)
    BY <1>3 DEF Sw!Apply, Sw!ApplyWindowEvent, Marks
  <2>2. CASE e.id \notin Sw!Listed(s)
    <3>1. Sw!Apply(r, e) = Sw!Resync(r) /\ Asks(r, e)
      BY <1>3, <2>1, <2>2 DEF Sw!ApplyFocus, Asks
    <3> QED BY <1>2, <1>3, <2>1, <3>1 DEF Applies
  <2>3. CASE e.id \in Sw!Listed(s)
    <3> DEFINE t == [s EXCEPT !.focus = e.id, !.focus_title = e.title]
    <3>1. Sw!Apply(r, e) = Sw!Applied(r, t, {"focus"}) /\ ~Asks(r, e)
      BY <1>3, <2>1, <2>3 DEF Sw!ApplyFocus, Asks, Marks
    <3>2. t \in States /\ t.windows = s.windows /\ t.focus = e.id /\ t.workspaces = s.workspaces /\ t.monitors = s.monitors
      BY <1>0 DEF States
    <3> HIDE DEF t
    <3>3. /\ Sw!Apply(r, e) \in SwayResults /\ Sw!Apply(r, e).state = t /\ Sw!Apply(r, e).changed = r.changed \cup {"focus"}
          /\ Sw!Apply(r, e).resync = r.resync
      BY <1>0, <1>1, <3>1, <3>2
    <3>4. Sw!About(e) \cap Sw!Tree = {"focus"}
      BY <1>3 DEF Sw!About, Sw!Tree
    <3> QED BY <1>0, <1>3, <2>1, <3>1, <3>2, <3>3, <3>4 DEF Applies
  <2> QED BY <2>2, <2>3
<1>4. CASE e.change = "title"
  <2>1. e.change \notin Marks /\ Sw!Apply(r, e) = Sw!ApplyTitle(r, e)
    BY <1>4 DEF Sw!Apply, Sw!ApplyWindowEvent, Marks
  <2>2. CASE e.id \notin Sw!Listed(s)
    <3>1. Sw!Apply(r, e) = Sw!Resync(r) /\ Asks(r, e)
      BY <1>4, <2>1, <2>2 DEF Sw!ApplyTitle, Asks
    <3> QED BY <1>2, <1>4, <2>1, <3>1 DEF Applies
  <2>3. CASE e.id \in Sw!Listed(s)
    <3> DEFINE f == s.windows
               g == [f EXCEPT ![e.id] = e.title]
               t == [s EXCEPT !.windows = g]
    <3>0. f \in Lists
      BY <1>0 DEF States
    <3>1. Sw!Apply(r, e) = Sw!Applied(r, t, {"windows"}) /\ ~Asks(r, e)
      BY <1>4, <2>1, <2>3 DEF Sw!ApplyTitle, Asks, Marks
    <3>4. DOMAIN f \in SUBSET SwayWin /\ f \in [DOMAIN f -> Texts]
      BY <3>0, ListIs
    <3>5. g \in [DOMAIN f -> Texts] /\ \A w \in DOMAIN f : g[w] = IF w = e.id THEN e.title ELSE f[w]
      BY <1>0, <3>4
    <3>6. g \in Lists /\ DOMAIN g = DOMAIN f
      BY <3>4, <3>5 DEF Lists
    <3> HIDE DEF g
    <3>2. t \in States /\ t.windows = g /\ t.focus = s.focus /\ t.workspaces = s.workspaces /\ t.monitors = s.monitors
      BY <1>0, <3>6 DEF States
    <3> HIDE DEF t
    <3>3. /\ Sw!Apply(r, e) \in SwayResults /\ Sw!Apply(r, e).state = t /\ Sw!Apply(r, e).changed = r.changed \cup {"windows"}
          /\ Sw!Apply(r, e).resync = r.resync
      BY <1>0, <1>1, <3>1, <3>2
    <3>7. Sw!About(e) \cap Sw!Tree = {"windows"}
      BY <1>4 DEF Sw!About, Sw!Tree
    <3> QED BY <1>0, <1>4, <2>1, <3>1, <3>2, <3>3, <3>5, <3>6, <3>7 DEF Applies
  <2> QED BY <2>2, <2>3
<1>5. CASE e.change = "close"
  <2>1. e.change \notin Marks /\ Sw!Apply(r, e) = Sw!ApplyClose(r, e) /\ ~Asks(r, e)
    BY <1>5 DEF Sw!Apply, Sw!ApplyWindowEvent, Marks, Asks
  <2> DEFINE f == s.windows
             g == Sw!Without(f, e.id)
             t == [s EXCEPT !.windows = g]
             u == [t EXCEPT !.focus = NoSwayWin]
  <2>2. f \in Lists
    BY <1>0 DEF States
  <2>3. g \in Lists /\ DOMAIN g = DOMAIN f \ {e.id} /\ \A v \in DOMAIN f \ {e.id} : g[v] = f[v]
    BY <2>2, SwayWithoutIs
  <2>4. Sw!Apply(r, e) = IF t.focus = e.id THEN Sw!Applied(r, u, Sw!Tree) ELSE Sw!Applied(r, t, {"windows"})
    BY <2>1 DEF Sw!ApplyClose
  <2> HIDE DEF g
  <2>5. t \in States /\ t.windows = g /\ t.focus = s.focus /\ t.workspaces = s.workspaces /\ t.monitors = s.monitors
    BY <1>0, <2>3 DEF States
  <2> HIDE DEF t
  <2>6. u \in States /\ u.windows = g /\ u.focus = NoSwayWin /\ u.workspaces = s.workspaces /\ u.monitors = s.monitors
    BY <2>5 DEF States, Maybe
  <2> HIDE DEF u
  <2>7. Sw!About(e) \cap Sw!Tree = Sw!Tree /\ "windows" \in Sw!Tree /\ "focus" \in Sw!Tree
    BY <1>5 DEF Sw!About, Sw!Tree
  <2>8. CASE t.focus = e.id
    <3>1. /\ Sw!Apply(r, e) \in SwayResults /\ Sw!Apply(r, e).state = u /\ Sw!Apply(r, e).changed = r.changed \cup Sw!Tree
          /\ Sw!Apply(r, e).resync = r.resync
      BY <1>0, <1>1, <2>4, <2>6, <2>8
    <3> QED BY <1>0, <1>5, <2>1, <2>3, <2>5, <2>6, <2>7, <2>8, <3>1 DEF Applies
  <2>9. CASE t.focus # e.id
    <3>1. /\ Sw!Apply(r, e) \in SwayResults /\ Sw!Apply(r, e).state = t /\ Sw!Apply(r, e).changed = r.changed \cup {"windows"}
          /\ Sw!Apply(r, e).resync = r.resync
      BY <1>0, <1>1, <2>4, <2>5, <2>9
    <3> QED BY <1>0, <1>5, <2>1, <2>3, <2>5, <2>7, <2>9, <3>1 DEF Applies
  <2> QED BY <2>8, <2>9
<1>6. CASE e.change = "new"
  <2>1. e.change \notin Marks /\ Sw!Apply(r, e) = Sw!Resync(r) /\ Asks(r, e)
    BY <1>6 DEF Sw!Apply, Sw!ApplyWindowEvent, Marks, Asks
  <2> QED BY <1>2, <1>6, <2>1 DEF Applies
<1>7. CASE e.change \in Marks
  <2> DEFINE t == Sw!Resync(r)
             q == [t EXCEPT !.changed = @ \cup Sw!Places]
  <2>1. Sw!Apply(r, e) = q /\ Asks(r, e)
    BY <1>7 DEF Sw!Apply, Marks, Asks
  <2>2. e.change \notin {"title", "close", "focus"}
    BY <1>7 DEF Marks
  <2> HIDE DEF t
  <2>3. q \in SwayResults /\ q.state = s /\ q.changed = r.changed \cup Sw!Places /\ q.resync = TRUE
    BY <1>0, <1>2 DEF SwayResults, t
  <2> HIDE DEF q
  <2> QED BY <1>7, <2>1, <2>2, <2>3 DEF Applies
<1> QED BY <1>0, <1>3, <1>4, <1>5, <1>6, <1>7 DEF Marks

\* A batch starts with nothing changed and no resync.
LEMMA BaseIs == \A x \in States : Base(x) \in SwayResults /\ Base(x).state = x /\ Base(x).changed = {} /\ Base(x).resync = FALSE
BY DEF Base, SwayResults

\* The run over the events.
IsRun(run, x, E) ==
  /\ run \in [0..Len(E) -> SwayResults] /\ run[0] = Base(x) /\ Folded(x, E) = run[Len(E)]
  /\ \A i \in 1..Len(E) : run[i] = Sw!Apply(run[i - 1], E[i]) /\ Applies(run[i - 1], E[i], run[i])

\* Reading a batch is a run of one step per event.
LEMMA RunThereIs == \A x \in States, E \in Seq(SwayEvents) : \E run : IsRun(run, x, E)
<1> SUFFICES ASSUME NEW x \in States, NEW E \in Seq(SwayEvents) PROVE \E run : IsRun(run, x, E)
  OBVIOUS
<1> DEFINE N == Len(E)
           b == Base(x)
<1>1. N \in Nat /\ DOMAIN E = 1..N /\ \A i \in 1..N : E[i] \in SwayEvents
  OBVIOUS
<1>2. b \in SwayResults
  BY BaseIs
<1>3. Folded(x, E) = Ran(b, E)
  BY DEF Folded
<1>4. \A r \in SwayResults, i \in 1..N : Sw!Apply(r, E[i]) \in SwayResults /\ Applies(r, E[i], Sw!Apply(r, E[i]))
  <2> SUFFICES ASSUME NEW r \in SwayResults, NEW i \in 1..N
               PROVE  Sw!Apply(r, E[i]) \in SwayResults /\ Applies(r, E[i], Sw!Apply(r, E[i]))
    OBVIOUS
  <2>1. E[i] \in SwayEvents
    BY <1>1
  <2>2. Applies(r, E[i], Sw!Apply(r, E[i]))
    BY <2>1, ApplyIs
  <2> DEFINE q == Sw!Apply(r, E[i])
  <2> HIDE DEF q
  <2>3. Applies(r, E[i], q) => q \in SwayResults
    BY DEF Applies
  <2> QED BY <2>2, <2>3 DEF q
<1> HIDE DEF b, N
<1>8. \A r \in SwayResults, i \in 1..N : Sw!Apply(r, E[i]) \in SwayResults
  BY <1>4
<1>9. Steady(SwayResults, N, E)
  BY <1>8 DEF Steady
<1>10. \E run : Runs(run, SwayResults, b, N, E)
  BY <1>1, <1>2, <1>9, RunsThereAre
<1>5. PICK run \in [0..N -> SwayResults] :
        run[0] = b /\ Ran(b, E) = run[N] /\ \A i \in 1..N : run[i] = Sw!Apply(run[i - 1], E[i])
  BY <1>10 DEF Runs
<1>6. \A i \in 1..N : run[i - 1] \in SwayResults
  BY <1>1
<1>7. IsRun(run, x, E)
  BY <1>3, <1>4, <1>5, <1>6 DEF IsRun, b, N
<1> QED BY <1>7

\* One event more.
LEMMA FoldJoins == \A x \in States, E \in Seq(SwayEvents), e \in SwayEvents :
  /\ Folded(x, E) \in SwayResults /\ Folded(x, Append(E, e)) = Sw!Apply(Folded(x, E), e)
  /\ Applies(Folded(x, E), e, Folded(x, Append(E, e)))
<1> SUFFICES ASSUME NEW x \in States, NEW E \in Seq(SwayEvents), NEW e \in SwayEvents
             PROVE  /\ Folded(x, E) \in SwayResults /\ Folded(x, Append(E, e)) = Sw!Apply(Folded(x, E), e)
  BY ApplyIs
<1> DEFINE N == Len(E)
           F == Append(E, e)
<1>1. PICK f : IsRun(f, x, E)
  BY RunThereIs
<1>2. F \in Seq(SwayEvents) /\ Len(F) = N + 1 /\ F[N + 1] = e /\ N \in Nat /\ \A i \in 1..N : F[i] = E[i]
  OBVIOUS
<1>3. PICK g : IsRun(g, x, F)
  BY <1>2, RunThereIs
<1>7. N \in Nat
  OBVIOUS
<1> HIDE DEF F, N
<1>4. g[0] = f[0] /\ \A i \in 1..N : (g[i - 1] = f[i - 1] => g[i] = f[i])
  <2>1. \A i \in 1..N : i \in 1..N + 1
    BY <1>7
  <2> QED BY <1>1, <1>2, <1>3, <2>1 DEF IsRun, N
<1>8. g[0] = f[0]
  BY <1>4
<1>9. \A i \in 1..N : g[i - 1] = f[i - 1] => g[i] = f[i]
  BY <1>4
<1>5. \A i \in 0..N : g[i] = f[i]
  BY <1>7, <1>8, <1>9, Alike
<1>6. g[N] = f[N] /\ g[N + 1] = Sw!Apply(g[N], e)
  <2>1. N + 1 \in 1..N + 1 /\ (N + 1) - 1 = N /\ N \in 0..N
    BY <1>2
  <2> QED BY <1>2, <1>3, <1>5, <2>1 DEF IsRun
<1> QED BY <1>1, <1>2, <1>3, <1>6 DEF IsRun, F

AboutSome(E) == UNION {Sw!About(E[i]) : i \in DOMAIN E}

\* An event that is answered by a query, whatever the state is.
Anew(E) == \E i \in DOMAIN E : E[i].change \notin {"focus", "title"}
Unlisted(x, E) == \E i \in DOMAIN E : E[i].change \in {"focus", "title"} /\ E[i].id \notin Sw!Listed(x)
Marked(E) == \E i \in DOMAIN E : E[i].change \in Marks

\* What each kind of event is about.
LEMMA SwayAboutIs == \A e \in SwayEvents : /\ Sw!About(e) \subseteq Sw!SwayArea
                                           /\ e.change \in Marks => Sw!About(e) = Sw!SwayArea
                                           /\ e.change = "focus" => Sw!About(e) = {"focus"}
                                           /\ e.change = "title" => Sw!About(e) = {"windows"}
                                           /\ e.change \in {"new", "close"} => Sw!About(e) = Sw!Tree
BY DEF Sw!About, SwayEvents, Marks, Sw!SwayArea, Sw!Tree

\* What the events have made of the state so far, of all that there are.
Sofar(x, E, r, done) ==
  /\ Sw!Differ(x, r.state) \subseteq r.changed
  /\ r.changed \subseteq AboutSome(E)
  /\ r.changed \cap Sw!Places # {} => r.resync /\ Sw!Places \subseteq r.changed
  /\ (\E j \in done : E[j].change \in Marks) => r.resync /\ Sw!Places \subseteq r.changed
  /\ (\E j \in done : E[j].change = "new") => r.resync
  /\ r.state.workspaces = x.workspaces /\ r.state.monitors = x.monitors
  /\ r.resync => Anew(E) \/ Unlisted(x, E)
  /\ Anew(E) \/ Sw!Listed(r.state) = Sw!Listed(x)

\* What has been gathered of a batch is gathered with one more event.
LEMMA SofarGoes ==
  \A x \in States, E \in Seq(SwayEvents) : \A i \in 1..Len(E), r \in SwayResults, q \in SwayResults :
    Sofar(x, E, r, 1..i - 1) /\ Applies(r, E[i], q) => Sofar(x, E, q, 1..i)
<1> SUFFICES ASSUME NEW x \in States, NEW E \in Seq(SwayEvents), NEW i \in 1..Len(E), NEW r \in SwayResults, NEW q \in SwayResults,
                    Sofar(x, E, r, 1..i - 1), Applies(r, E[i], q)
             PROVE  Sofar(x, E, q, 1..i)
  OBVIOUS
<1> DEFINE e == E[i]
<1>1. e \in SwayEvents /\ i \in DOMAIN E /\ 1..i = (1..i - 1) \cup {i}
  OBVIOUS
<1>2. Sw!About(e) \subseteq AboutSome(E) /\ (e.change \notin {"focus", "title"} => Anew(E))
  BY <1>1 DEF AboutSome, Anew
<1>3. e.change \in {"new", "close", "focus", "title"} \cup Marks
  BY <1>1 DEF SwayEvents
<1>4. r.changed \subseteq Sw!SwayArea /\ q.changed \subseteq Sw!SwayArea
  BY DEF SwayResults
<1> HIDE DEF e
<1>5. Applies(r, e, q)
  BY DEF e
<1>6. q.changed \subseteq AboutSome(E)
  <2>1. CASE e.change \in Marks
    <3>1. Sw!About(e) = Sw!SwayArea
      BY <1>1, <2>1, SwayAboutIs
    <3> QED BY <1>2, <1>4, <3>1
  <2>2. CASE e.change \notin Marks
    BY <1>2, <1>5, <2>2 DEF Applies, Sofar
  <2> QED BY <2>1, <2>2
<1>7. q.state.workspaces = x.workspaces /\ q.state.monitors = x.monitors
  BY <1>5 DEF Applies, Sofar
<1>8. r.changed \subseteq q.changed /\ (r.resync => q.resync)
  BY <1>5 DEF Applies
<1>9. q.changed \cap Sw!Places # {} => q.resync /\ Sw!Places \subseteq q.changed
  <2>1. CASE e.change \in Marks
    BY <1>5, <2>1 DEF Applies, Asks
  <2>2. CASE e.change \notin Marks
    <3>1. Sw!Tree \cap Sw!Places = {}
      BY DEF Sw!Tree, Sw!Places
    <3>2. q.changed \cap Sw!Places # {} => r.changed \cap Sw!Places # {}
      BY <1>5, <2>2, <3>1 DEF Applies
    <3> QED BY <1>8, <3>2 DEF Sofar
  <2> QED BY <2>1, <2>2
<1>10. (\E j \in 1..i : E[j].change \in Marks) => q.resync /\ Sw!Places \subseteq q.changed
  <2>1. CASE e.change \in Marks
    BY <1>5, <2>1 DEF Applies, Asks
  <2>2. CASE e.change \notin Marks
    <3>1. (\E j \in 1..i : E[j].change \in Marks) => \E j \in 1..i - 1 : E[j].change \in Marks
      BY <1>1, <2>2 DEF e
    <3> QED BY <1>8, <3>1 DEF Sofar
  <2> QED BY <2>1, <2>2
<1>14. (\E j \in 1..i : E[j].change = "new") => q.resync
  <2>1. CASE e.change = "new"
    BY <1>5, <2>1 DEF Applies, Asks
  <2>2. CASE e.change # "new"
    <3>1. (\E j \in 1..i : E[j].change = "new") => \E j \in 1..i - 1 : E[j].change = "new"
      BY <1>1, <2>2 DEF e
    <3> QED BY <1>8, <3>1 DEF Sofar
  <2> QED BY <2>1, <2>2
<1>11. Anew(E) \/ Sw!Listed(q.state) = Sw!Listed(x)
  <2>1. SUFFICES ASSUME ~Anew(E) PROVE Sw!Listed(q.state) = Sw!Listed(x)
    OBVIOUS
  <2>2. e.change \in {"focus", "title"} /\ Sw!Listed(r.state) = Sw!Listed(x)
    BY <1>2, <2>1 DEF Sofar
  <2>3. Sw!Listed(q.state) = Sw!Listed(r.state)
    BY <1>5, <2>2 DEF Applies, Sw!Listed
  <2> QED BY <2>2, <2>3
<1>12. q.resync => Anew(E) \/ Unlisted(x, E)
  <2>1. SUFFICES ASSUME q.resync, ~Anew(E), ~r.resync PROVE Unlisted(x, E)
    BY DEF Sofar
  <2>2. Asks(r, e) /\ e.change \in {"focus", "title"} /\ Sw!Listed(r.state) = Sw!Listed(x)
    BY <1>2, <1>5, <2>1 DEF Applies, Sofar
  <2>3. e.id \notin Sw!Listed(x)
    BY <2>2 DEF Asks, Marks
  <2> QED BY <1>1, <2>2, <2>3 DEF Unlisted, e
<1>13. Sw!Differ(x, q.state) \subseteq q.changed
  <2> SUFFICES ASSUME NEW a \in Sw!SwayArea, x[a] # q.state[a], a \notin q.changed PROVE FALSE
    BY DEF Sw!Differ
  <2>1. a \notin r.changed /\ x[a] = r.state[a]
    BY <1>8 DEF Sofar, Sw!Differ
  <2>2. a \in {"windows", "focus"}
    BY <1>7 DEF Sw!SwayArea
  <2>3. CASE a = "focus"
    BY <1>5, <2>1, <2>3 DEF Applies
  <2>4. CASE a = "windows"
    <3>1. e.change \notin {"title", "close"} \/ Asks(r, e)
      BY <1>5, <2>4 DEF Applies
    <3> QED BY <1>5, <2>1, <2>4, <3>1 DEF Applies
  <2> QED BY <2>2, <2>3, <2>4
<1> QED BY <1>6, <1>7, <1>9, <1>10, <1>11, <1>12, <1>13, <1>14 DEF Sofar

\* The fold over a batch is what has been gathered at its end.
LEMMA FoldedIs == \A x \in States, E \in Seq(SwayEvents) : Folded(x, E) \in SwayResults /\ Sofar(x, E, Folded(x, E), DOMAIN E)
<1> SUFFICES ASSUME NEW x \in States, NEW E \in Seq(SwayEvents)
             PROVE  Folded(x, E) \in SwayResults /\ Sofar(x, E, Folded(x, E), DOMAIN E)
  OBVIOUS
<1> DEFINE N == Len(E)
<1>1. PICK run : IsRun(run, x, E)
  BY RunThereIs
<1>2. N \in Nat /\ DOMAIN E = 1..N
  OBVIOUS
<1> DEFINE S == {i \in 0..N : Sofar(x, E, run[i], 1..i)}
<1>3. 0 \in S
  <2> DEFINE b == Base(x)
  <2>1. b \in SwayResults /\ b.state = x /\ b.changed = {} /\ b.resync = FALSE
    BY BaseIs
  <2> HIDE DEF b
  <2>2. 1..0 = {} /\ Sw!Differ(x, x) = {}
    BY DEF Sw!Differ
  <2>3. Sofar(x, E, b, 1..0)
    BY <2>1, <2>2 DEF Sofar
  <2>4. run[0] = b
    BY <1>1 DEF IsRun, b
  <2> QED BY <1>2, <2>3, <2>4
<1>4. ASSUME NEW i \in 1..N, i - 1 \in S PROVE i \in S
  <2>1. run[i - 1] \in SwayResults /\ run[i] \in SwayResults /\ Applies(run[i - 1], E[i], run[i])
    <3>1. i - 1 \in 0..N /\ i \in 0..N
      BY <1>2
    <3> QED BY <1>1, <3>1 DEF IsRun
  <2>2. Sofar(x, E, run[i - 1], 1..i - 1)
    BY <1>4
  <2>3. Sofar(x, E, run[i], 1..i)
    BY <2>1, <2>2, SofarGoes
  <2> QED BY <1>2, <2>3
<1> HIDE DEF S
<1>5. \A i \in 1..N : i - 1 \in S => i \in S
  BY <1>4
<1>6. \A i \in 0..N : i \in S
  BY <1>2, <1>3, <1>5, UpTo
<1>7. N \in S
  BY <1>2, <1>6
<1>8. Sofar(x, E, run[N], 1..N)
  BY <1>7 DEF S
<1>9. run[N] \in SwayResults /\ Folded(x, E) = run[N]
  BY <1>1, <1>2 DEF IsRun
<1> QED BY <1>2, <1>8, <1>9

----------------------------------------------------------------------------

\* Events that were written before `s` was so.
PastTitle(E, s) == \A i \in DOMAIN E : E[i].change = "title" =>
  E[i].title = s.title[E[i].id] \/ \E j \in DOMAIN E : j > i /\ E[j].change = "title" /\ E[j].id = E[i].id

PastFocus(E, s) == \A i \in DOMAIN E : E[i].change = "focus" =>
  \/ E[i].id = s.focus
  \/ \E j \in DOMAIN E : j > i /\ E[j].change \in {"focus", "new"} \cup Marks
  \/ s.focus = NoSwayWin /\ \E j \in DOMAIN E : j > i /\ E[j].change = "close" /\ E[j].id = E[i].id

PastClose(E, s) == \A i \in DOMAIN E : E[i].change = "close" =>
  E[i].id \notin s.wins \/ \E j \in DOMAIN E : j > i /\ E[j].change = "new"

PastListed(E, s) == \A i \in DOMAIN E : E[i].change \in {"focus", "title"} =>
  E[i].id \in s.wins \/ \E j \in DOMAIN E : j > i /\ E[j].change = "close"
Past(E, s) == PastTitle(E, s) /\ PastFocus(E, s) /\ PastClose(E, s) /\ PastListed(E, s)
SwayTitles(s) == [w \in s.wins |-> s.title[w]]
Agrees(r, s) == r.resync \/ (r.state.windows = SwayTitles(s) /\ r.state.focus = s.focus)

\* Events that were written before the answer came, read after it: they are of
\* windows that it lists or that were opened or closed, and what they say of those
\* is what it says, in the end.
TitlesSofar(E, s, q, i) ==
  DOMAIN q.state.windows = s.wins
  /\ \A w \in s.wins : q.state.windows[w] = s.title[w] \/ \E j \in DOMAIN E : j > i /\ E[j].change = "title" /\ E[j].id = w

FocusSofar(E, s, q, i) ==
  \/ q.state.focus = s.focus
  \/ \E j \in DOMAIN E : j > i /\ E[j].change = "focus"
  \/ s.focus = NoSwayWin /\ \E j \in DOMAIN E : j > i /\ E[j].change = "close" /\ E[j].id = q.state.focus
Retold(E, s, q, i) == q.resync \/ (TitlesSofar(E, s, q, i) /\ FocusSofar(E, s, q, i))
WellFocused(s) == s.focus \in s.wins \cup {NoSwayWin}

\* An event that opens a window or is about places makes the client ask.
Opening(E) == \E j \in DOMAIN E : E[j].change \in {"new"} \cup Marks

\* The titles read so far agree with the world up to the events still to be read.
LEMMA TitlesGo ==
  \A s \in Worlds, E \in Seq(SwayEvents) : \A i \in 1..Len(E), r \in SwayResults, q \in SwayResults :
    Past(E, s) /\ ~Opening(E) /\ ~q.resync /\ TitlesSofar(E, s, r, i - 1) /\ Applies(r, E[i], q) => TitlesSofar(E, s, q, i)
<1> SUFFICES ASSUME NEW s \in Worlds, NEW E \in Seq(SwayEvents), NEW i \in 1..Len(E), NEW r \in SwayResults, NEW q \in SwayResults,
                    Past(E, s), ~Opening(E), ~q.resync, TitlesSofar(E, s, r, i - 1), Applies(r, E[i], q)
             PROVE  TitlesSofar(E, s, q, i)
  OBVIOUS
<1> DEFINE e == E[i]
<1>1. e \in SwayEvents /\ i \in DOMAIN E /\ DOMAIN E \subseteq Nat /\ i \in Nat
  OBVIOUS
<1>2. e.change \in {"close", "focus", "title"}
  <2>1. e.change \in {"new", "close", "focus", "title"} \cup Marks
    BY <1>1 DEF SwayEvents
  <2> QED BY <1>1, <2>1 DEF Opening
<1>3. \A j \in DOMAIN E : j > i - 1 => j = i \/ j > i
  BY <1>1
<1> HIDE DEF e
<1>4. Applies(r, e, q)
  BY DEF e
<1>5. ~Asks(r, e)
  BY <1>4 DEF Applies
<1>6. CASE e.change = "focus"
  <2>1. q.state.windows = r.state.windows
    BY <1>4, <1>6 DEF Applies
  <2> QED BY <1>3, <1>6, <2>1 DEF TitlesSofar, e
<1>7. CASE e.change = "close"
  <2>1. e.id \notin s.wins
    <3>1. ~ \E j \in DOMAIN E : j > i /\ E[j].change = "new"
      BY DEF Opening
    <3> QED BY <1>1, <1>7, <3>1 DEF Past, PastClose, e
  <2>2. DOMAIN q.state.windows = DOMAIN r.state.windows \ {e.id} /\ \A w \in DOMAIN r.state.windows \ {e.id} : q.state.windows[w] = r.state.windows[w]
    BY <1>4, <1>7 DEF Applies
  <2>3. DOMAIN r.state.windows = s.wins
    BY DEF TitlesSofar
  <2>4. DOMAIN q.state.windows = s.wins /\ \A w \in s.wins : q.state.windows[w] = r.state.windows[w]
    BY <2>1, <2>2, <2>3
  <2> QED BY <1>3, <1>7, <2>4 DEF TitlesSofar, e
<1>8. CASE e.change = "title"
  <2>1. e.id \in DOMAIN r.state.windows
    BY <1>5, <1>8 DEF Asks, Sw!Listed
  <2>2. /\ DOMAIN q.state.windows = DOMAIN r.state.windows
        /\ \A w \in DOMAIN r.state.windows : q.state.windows[w] = IF w = e.id THEN e.title ELSE r.state.windows[w]
    BY <1>4, <1>5, <1>8 DEF Applies
  <2>3. DOMAIN r.state.windows = s.wins
    BY DEF TitlesSofar
  <2>4. e.title = s.title[e.id] \/ \E j \in DOMAIN E : j > i /\ E[j].change = "title" /\ E[j].id = e.id
    BY <1>1, <1>8, <2>1, <2>3 DEF Past, PastTitle, e
  <2>5. ASSUME NEW w \in s.wins
        PROVE  q.state.windows[w] = s.title[w] \/ \E j \in DOMAIN E : j > i /\ E[j].change = "title" /\ E[j].id = w
    <3>1. CASE w = e.id
      BY <2>2, <2>3, <2>4, <3>1
    <3>2. CASE w # e.id
      <4>1. q.state.windows[w] = r.state.windows[w]
        BY <2>2, <2>3, <3>2
      <4>2. r.state.windows[w] = s.title[w] \/ \E j \in DOMAIN E : j > i - 1 /\ E[j].change = "title" /\ E[j].id = w
        BY DEF TitlesSofar
      <4> QED BY <1>3, <3>2, <4>1, <4>2 DEF e
    <3> QED BY <3>1, <3>2
  <2> QED BY <2>2, <2>3, <2>5 DEF TitlesSofar
<1> QED BY <1>2, <1>6, <1>7, <1>8

\* So does the focus.
LEMMA FocusGoes ==
  \A s \in Worlds, E \in Seq(SwayEvents) : \A i \in 1..Len(E), r \in SwayResults, q \in SwayResults :
    Past(E, s) /\ ~Opening(E) /\ WellFocused(s) /\ ~q.resync /\ FocusSofar(E, s, r, i - 1) /\ Applies(r, E[i], q) => FocusSofar(E, s, q, i)
<1> SUFFICES ASSUME NEW s \in Worlds, NEW E \in Seq(SwayEvents), NEW i \in 1..Len(E), NEW r \in SwayResults, NEW q \in SwayResults,
                    Past(E, s), ~Opening(E), WellFocused(s), ~q.resync, FocusSofar(E, s, r, i - 1), Applies(r, E[i], q)
             PROVE  FocusSofar(E, s, q, i)
  OBVIOUS
<1> DEFINE e == E[i]
<1>1. e \in SwayEvents /\ i \in DOMAIN E /\ DOMAIN E \subseteq Nat /\ i \in Nat
  OBVIOUS
<1>2. e.change \in {"close", "focus", "title"}
  <2>1. e.change \in {"new", "close", "focus", "title"} \cup Marks
    BY <1>1 DEF SwayEvents
  <2> QED BY <1>1, <2>1 DEF Opening
<1>3. \A j \in DOMAIN E : j > i - 1 => j = i \/ j > i
  BY <1>1
<1>9. e.change \notin Marks => e.id \in SwayWin
  BY <1>1 DEF SwayEvents
<1> HIDE DEF e
<1>4. Applies(r, e, q)
  BY DEF e
<1>5. ~Asks(r, e)
  BY <1>4 DEF Applies
<1>6. CASE e.change = "focus"
  <2>1. q.state.focus = e.id
    BY <1>4, <1>5, <1>6 DEF Applies
  <2>2. \/ e.id = s.focus
        \/ \E j \in DOMAIN E : j > i /\ E[j].change \in {"focus", "new"} \cup Marks
        \/ s.focus = NoSwayWin /\ \E j \in DOMAIN E : j > i /\ E[j].change = "close" /\ E[j].id = e.id
    BY <1>1, <1>6 DEF Past, PastFocus, e
  <2> QED BY <2>1, <2>2 DEF FocusSofar, Opening
<1>7. CASE e.change = "close"
  <2>1. e.id \notin s.wins
    <3>1. ~ \E j \in DOMAIN E : j > i /\ E[j].change = "new"
      BY DEF Opening
    <3> QED BY <1>1, <1>7, <3>1 DEF Past, PastClose, e
  <2>2. e.id # s.focus
    BY <1>2, <1>7, <1>9, <2>1, SwayAssumption DEF WellFocused, Marks
  <2>3. q.state.focus = IF r.state.focus = e.id THEN NoSwayWin ELSE r.state.focus
    BY <1>4, <1>7 DEF Applies
  <2>4. CASE r.state.focus = e.id
    BY <1>3, <1>7, <2>2, <2>3, <2>4 DEF FocusSofar, e
  <2>5. CASE r.state.focus # e.id
    BY <1>3, <1>7, <2>3, <2>5 DEF FocusSofar, e
  <2> QED BY <2>4, <2>5
<1>8. CASE e.change = "title"
  <2>1. q.state.focus = r.state.focus
    BY <1>4, <1>8 DEF Applies
  <2> QED BY <1>3, <1>8, <2>1 DEF FocusSofar, e
<1> QED BY <1>2, <1>6, <1>7, <1>8

\* What the events make of an answer, which is of a later moment, is the answer
\* itself, unless they make the client ask again.
LEMMA RetoldIs ==
  \A x \in States, s \in Worlds, E \in Seq(SwayEvents) :
    x.windows = SwayTitles(s) /\ x.focus = s.focus /\ WellFocused(s) /\ Past(E, s) => Agrees(Folded(x, E), s)
<1> SUFFICES ASSUME NEW x \in States, NEW s \in Worlds, NEW E \in Seq(SwayEvents),
                    x.windows = SwayTitles(s), x.focus = s.focus, WellFocused(s), Past(E, s)
             PROVE  Agrees(Folded(x, E), s)
  OBVIOUS
<1> DEFINE N == Len(E)
<1>0. N \in Nat /\ DOMAIN E = 1..N
  OBVIOUS
<1>1. PICK run : IsRun(run, x, E)
  BY RunThereIs
<1>2. Folded(x, E) \in SwayResults /\ Sofar(x, E, Folded(x, E), DOMAIN E)
  BY FoldedIs
<1>3. CASE Opening(E)
  <2>1. Folded(x, E).resync
    BY <1>2, <1>3 DEF Sofar, Opening
  <2> QED BY <2>1 DEF Agrees
<1>4. CASE ~Opening(E)
  <2> DEFINE S == {i \in 0..N : Retold(E, s, run[i], i)}
  <2>1. 0 \in S
    <3> DEFINE b == Base(x)
    <3>1. b \in SwayResults /\ b.state = x
      BY BaseIs
    <3>2. s.wins \in SUBSET SwayWin /\ s.title \in [SwayWin -> Texts]
      BY DEF Worlds
    <3>3. DOMAIN SwayTitles(s) = s.wins /\ \A w \in s.wins : SwayTitles(s)[w] = s.title[w]
      BY DEF SwayTitles
    <3> HIDE DEF b
    <3>4. Retold(E, s, b, 0)
      BY <3>1, <3>3 DEF Retold, TitlesSofar, FocusSofar
    <3>5. run[0] = b
      BY <1>1 DEF IsRun, b
    <3> QED BY <1>0, <3>4, <3>5
  <2>2. ASSUME NEW i \in 1..N, i - 1 \in S PROVE i \in S
    <3>1. run[i - 1] \in SwayResults /\ run[i] \in SwayResults /\ Applies(run[i - 1], E[i], run[i])
      <4>1. i - 1 \in 0..N /\ i \in 0..N
        BY <1>0
      <4> QED BY <1>1, <4>1 DEF IsRun
    <3> DEFINE r == run[i - 1]
               q == run[i]
    <3>2. Retold(E, s, r, i - 1)
      BY <2>2
    <3> HIDE DEF r, q
    <3>3. Retold(E, s, q, i)
      <4>1. CASE q.resync
        BY <4>1 DEF Retold
      <4>2. CASE ~q.resync
        <5>1. ~r.resync
          BY <3>1, <4>2 DEF Applies, r, q
        <5>2. TitlesSofar(E, s, r, i - 1) /\ FocusSofar(E, s, r, i - 1)
          BY <3>2, <5>1 DEF Retold
        <5>3. r \in SwayResults /\ q \in SwayResults /\ Applies(r, E[i], q)
          BY <3>1 DEF r, q
        <5>4. TitlesSofar(E, s, q, i)
          BY <1>4, <4>2, <5>2, <5>3, TitlesGo
        <5>5. FocusSofar(E, s, q, i)
          BY <1>4, <4>2, <5>2, <5>3, FocusGoes
        <5> QED BY <5>4, <5>5 DEF Retold
      <4> QED BY <4>1, <4>2
    <3> QED BY <1>0, <3>3 DEF q
  <2> HIDE DEF S
  <2>3. \A i \in 1..N : i - 1 \in S => i \in S
    BY <2>2
  <2>4. \A i \in 0..N : i \in S
    BY <1>0, <2>1, <2>3, UpTo
  <2>5. N \in S
    BY <1>0, <2>4
  <2>6. Retold(E, s, run[N], N) /\ run[N] = Folded(x, E)
    BY <1>1, <2>5 DEF S, IsRun
  <2> DEFINE q == Folded(x, E)
  <2>7. q \in SwayResults /\ Retold(E, s, q, N)
    BY <1>2, <2>6
  <2> HIDE DEF q
  <2>8. ~ \E j \in DOMAIN E : j > N
    BY <1>0
  <2>9. CASE ~q.resync
    <3>1. DOMAIN q.state.windows = s.wins /\ (\A w \in s.wins : q.state.windows[w] = s.title[w]) /\ q.state.focus = s.focus
      BY <2>7, <2>8, <2>9 DEF Retold, TitlesSofar, FocusSofar
    <3>2. q.state.windows \in Lists
      BY <2>7 DEF SwayResults, States
    <3>3. q.state.windows = SwayTitles(s)
      BY <3>1, <3>2, ListIs DEF SwayTitles
    <3> QED BY <3>1, <3>3 DEF Agrees, q
  <2> QED BY <2>9 DEF Agrees, q
<1> QED BY <1>3, <1>4

----------------------------------------------------------------------------

\* What happens in sway, one event at a time.
Moves(s, e, t) ==
  /\ s \in Worlds /\ t \in Worlds /\ e \in SwayEvents
  /\ e.change \notin Marks => t.place = s.place /\ t.outputs = s.outputs
  /\ e.change # "title" => t.title = s.title
  /\ \/ e.change = "new" /\ e.id \notin s.wins /\ t.wins = s.wins \cup {e.id} /\ t.focus = s.focus
     \/ e.change = "close" /\ e.id \in s.wins /\ t.wins = s.wins \ {e.id}
        /\ t.focus = IF s.focus = e.id THEN NoSwayWin ELSE s.focus
     \/ e.change = "focus" /\ e.id \in s.wins /\ t.wins = s.wins /\ t.focus = e.id
     \/ e.change = "title" /\ e.id \in s.wins /\ t.wins = s.wins /\ t.focus = s.focus
        /\ \A w \in SwayWin : t.title[w] = IF w = e.id THEN e.title ELSE s.title[w]
     \/ e.change \in Marks /\ t.wins = s.wins /\ t.focus \in {s.focus, NoSwayWin}

\* What a batch is with one more event.
LEMMA SwayJoined == \A E \in Seq(SwayEvents), e \in SwayEvents :
  /\ Append(E, e) \in Seq(SwayEvents) /\ Len(Append(E, e)) = Len(E) + 1 /\ Len(E) \in Nat
  /\ DOMAIN E = 1..Len(E) /\ DOMAIN Append(E, e) = (1..Len(E)) \cup {Len(E) + 1}
  /\ Append(E, e)[Len(E) + 1] = e /\ \A i \in 1..Len(E) : Append(E, e)[i] = E[i] /\ Len(E) + 1 > i /\ i \in Nat
OBVIOUS

\* The world told so far is told with the event of one more change.
LEMMA PastGoes == \A s, t, e : \A E \in Seq(SwayEvents) :
  Past(E, s) /\ WellFocused(s) /\ Moves(s, e, t) => Past(Append(E, e), t) /\ WellFocused(t)
<1> SUFFICES ASSUME NEW s, NEW t, NEW e, NEW E \in Seq(SwayEvents), Past(E, s), WellFocused(s), Moves(s, e, t)
             PROVE  Past(Append(E, e), t) /\ WellFocused(t)
  OBVIOUS
<1> DEFINE N == Len(E)
           F == Append(E, e)
<1>1. s \in Worlds /\ t \in Worlds /\ e \in SwayEvents
  BY DEF Moves
<1>2. /\ N \in Nat /\ DOMAIN E = 1..N /\ DOMAIN F = (1..N) \cup {N + 1} /\ F[N + 1] = e
      /\ \A i \in 1..N : F[i] = E[i] /\ N + 1 > i /\ i \in Nat
  BY <1>1, SwayJoined
<1>3. e.change \in {"new", "close", "focus", "title"} \cup Marks
  BY <1>1 DEF SwayEvents
<1>4. s.title \in [SwayWin -> Texts] /\ t.title \in [SwayWin -> Texts]
  BY <1>1 DEF Worlds
<1>5. \A i \in 1..N : E[i] \in SwayEvents
  BY <1>2
<1> HIDE DEF N, F
<1>6. WellFocused(t)
  BY DEF Moves, WellFocused
<1>7. PastTitle(F, t)
  <2> SUFFICES ASSUME NEW i \in DOMAIN F, F[i].change = "title"
               PROVE  F[i].title = t.title[F[i].id] \/ \E j \in DOMAIN F : j > i /\ F[j].change = "title" /\ F[j].id = F[i].id
    BY DEF PastTitle
  <2>1. CASE i = N + 1
    <3>1. e.change = "title" /\ e.id \in SwayWin
      BY <1>1, <1>2, <2>1 DEF SwayEvents, Marks
    <3> QED BY <1>2, <2>1, <3>1 DEF Moves, Marks
  <2>2. CASE i \in 1..N
    <3>1. F[i] = E[i] /\ E[i].id \in SwayWin
      BY <1>2, <1>5, <2>2 DEF SwayEvents, Marks
    <3>2. E[i].title = s.title[E[i].id] \/ \E j \in DOMAIN E : j > i /\ E[j].change = "title" /\ E[j].id = E[i].id
      BY <1>2, <2>2, <3>1 DEF Past, PastTitle
    <3>3. (\E j \in DOMAIN E : j > i /\ E[j].change = "title" /\ E[j].id = E[i].id)
          => \E j \in DOMAIN F : j > i /\ F[j].change = "title" /\ F[j].id = F[i].id
      BY <1>2, <3>1
    <3>4. CASE e.change = "title" /\ e.id = E[i].id
      <4>1. N + 1 \in DOMAIN F /\ N + 1 > i
        BY <1>2, <2>2
      <4> QED BY <1>2, <3>1, <3>4, <4>1
    <3>5. CASE ~(e.change = "title" /\ e.id = E[i].id)
      <4>1. t.title[E[i].id] = s.title[E[i].id]
        <5>1. CASE e.change # "title"
          <6>1. t.title = s.title
            BY <5>1 DEF Moves
          <6> QED BY <6>1
        <5>2. CASE e.change = "title"
          <6>1. \A w \in SwayWin : t.title[w] = IF w = e.id THEN e.title ELSE s.title[w]
            BY <5>2 DEF Moves, Marks
          <6> QED BY <3>1, <3>5, <5>2, <6>1
        <5> QED BY <5>1, <5>2
      <4> QED BY <3>1, <3>2, <3>3, <4>1
    <3> QED BY <3>4, <3>5
  <2> QED BY <1>2, <2>1, <2>2
<1>8. PastFocus(F, t)
  <2> SUFFICES ASSUME NEW i \in DOMAIN F, F[i].change = "focus"
               PROVE  \/ F[i].id = t.focus
                      \/ \E j \in DOMAIN F : j > i /\ F[j].change \in {"focus", "new"} \cup Marks
                      \/ t.focus = NoSwayWin /\ \E j \in DOMAIN F : j > i /\ F[j].change = "close" /\ F[j].id = F[i].id
    BY DEF PastFocus
  <2>1. CASE i = N + 1
    BY <1>2, <2>1 DEF Moves, Marks
  <2>2. CASE i \in 1..N
    <3>1. F[i] = E[i]
      BY <1>2, <2>2
    <3>2. \/ E[i].id = s.focus
          \/ \E j \in DOMAIN E : j > i /\ E[j].change \in {"focus", "new"} \cup Marks
          \/ s.focus = NoSwayWin /\ \E j \in DOMAIN E : j > i /\ E[j].change = "close" /\ E[j].id = E[i].id
      BY <1>2, <2>2, <3>1 DEF Past, PastFocus
    <3>3. N + 1 \in DOMAIN F /\ N + 1 > i /\ F[N + 1] = e
      BY <1>2, <2>2
    <3>4. CASE e.change \in {"focus", "new"} \cup Marks
      BY <3>3, <3>4
    <3>5. CASE e.change = "title"
      <4>1. t.focus = s.focus
        BY <3>5 DEF Moves, Marks
      <4> QED BY <1>2, <3>1, <3>2, <4>1
    <3>6. CASE e.change = "close"
      <4>1. t.focus = IF s.focus = e.id THEN NoSwayWin ELSE s.focus
        BY <3>6 DEF Moves, Marks
      <4>2. CASE E[i].id = s.focus
        BY <3>1, <3>3, <3>6, <4>1, <4>2
      <4>3. CASE E[i].id # s.focus
        BY <1>2, <3>1, <3>2, <4>1, <4>3
      <4> QED BY <4>2, <4>3
    <3> QED BY <1>3, <3>4, <3>5, <3>6
  <2> QED BY <1>2, <2>1, <2>2
<1>9. PastClose(F, t)
  <2> SUFFICES ASSUME NEW i \in DOMAIN F, F[i].change = "close"
               PROVE  F[i].id \notin t.wins \/ \E j \in DOMAIN F : j > i /\ F[j].change = "new"
    BY DEF PastClose
  <2>1. CASE i = N + 1
    BY <1>2, <2>1 DEF Moves, Marks
  <2>2. CASE i \in 1..N
    <3>1. F[i] = E[i]
      BY <1>2, <2>2
    <3>2. E[i].id \notin s.wins \/ \E j \in DOMAIN E : j > i /\ E[j].change = "new"
      BY <1>2, <2>2, <3>1 DEF Past, PastClose
    <3>3. N + 1 \in DOMAIN F /\ N + 1 > i /\ F[N + 1] = e
      BY <1>2, <2>2
    <3>4. CASE e.change = "new"
      BY <3>3, <3>4
    <3>5. CASE e.change # "new"
      <4>1. t.wins \subseteq s.wins
        BY <3>5 DEF Moves
      <4> QED BY <1>2, <3>1, <3>2, <4>1
    <3> QED BY <3>4, <3>5
  <2> QED BY <1>2, <2>1, <2>2
<1>10. PastListed(F, t)
  <2> SUFFICES ASSUME NEW i \in DOMAIN F, F[i].change \in {"focus", "title"}
               PROVE  F[i].id \in t.wins \/ \E j \in DOMAIN F : j > i /\ F[j].change = "close"
    BY DEF PastListed
  <2>1. CASE i = N + 1
    BY <1>2, <2>1 DEF Moves, Marks
  <2>2. CASE i \in 1..N
    <3>1. F[i] = E[i]
      BY <1>2, <2>2
    <3>2. E[i].id \in s.wins \/ \E j \in DOMAIN E : j > i /\ E[j].change = "close"
      BY <1>2, <2>2, <3>1 DEF Past, PastListed
    <3>3. N + 1 \in DOMAIN F /\ N + 1 > i /\ F[N + 1] = e
      BY <1>2, <2>2
    <3>4. CASE e.change = "close"
      BY <3>3, <3>4
    <3>5. CASE e.change # "close"
      <4>1. s.wins \subseteq t.wins
        BY <3>5 DEF Moves
      <4> QED BY <1>2, <3>1, <3>2, <4>1
    <3> QED BY <3>4, <3>5
  <2> QED BY <1>2, <2>1, <2>2
<1> QED BY <1>6, <1>7, <1>8, <1>9, <1>10 DEF Past, F

\* A state that agrees with the world agrees after both take the same event.
LEMMA AgreesGoes == \A s, t, e, r, q :
  r \in SwayResults /\ Agrees(r, s) /\ WellFocused(s) /\ Moves(s, e, t) /\ Applies(r, e, q) => Agrees(q, t)
<1> SUFFICES ASSUME NEW s, NEW t, NEW e, NEW r \in SwayResults, NEW q,
                    Agrees(r, s), WellFocused(s), Moves(s, e, t), Applies(r, e, q), ~q.resync
             PROVE  q.state.windows = SwayTitles(t) /\ q.state.focus = t.focus
  BY DEF Agrees
<1>1. q \in SwayResults /\ ~r.resync /\ ~Asks(r, e)
  BY DEF Applies
<1>2. r.state.windows = SwayTitles(s) /\ r.state.focus = s.focus
  BY <1>1 DEF Agrees
<1>3. s \in Worlds /\ t \in Worlds /\ e \in SwayEvents
  BY DEF Moves
<1>4. DOMAIN r.state.windows = s.wins /\ \A w \in s.wins : r.state.windows[w] = s.title[w]
  BY <1>2 DEF SwayTitles
<1>5. q.state.windows \in Lists
  BY <1>1 DEF SwayResults, States
<1>6. e.change \in {"close", "focus", "title"}
  BY <1>1, <1>3 DEF Asks, SwayEvents
<1>7. t.wins \subseteq SwayWin
  BY <1>3 DEF Worlds
<1>8. CASE e.change = "focus"
  <2>1. q.state.windows = r.state.windows /\ q.state.focus = e.id /\ t.wins = s.wins /\ t.focus = e.id /\ t.title = s.title
    BY <1>1, <1>8 DEF Applies, Moves, Marks
  <2> QED BY <1>2, <2>1 DEF SwayTitles
<1>9. CASE e.change = "title"
  <2>1. /\ q.state.focus = r.state.focus /\ t.wins = s.wins /\ t.focus = s.focus
        /\ \A w \in SwayWin : t.title[w] = IF w = e.id THEN e.title ELSE s.title[w]
    BY <1>1, <1>9 DEF Applies, Moves, Marks
  <2>2. /\ DOMAIN q.state.windows = DOMAIN r.state.windows
        /\ \A w \in DOMAIN r.state.windows : q.state.windows[w] = IF w = e.id THEN e.title ELSE r.state.windows[w]
    BY <1>1, <1>9 DEF Applies
  <2>3. DOMAIN q.state.windows = t.wins /\ \A w \in t.wins : q.state.windows[w] = t.title[w]
    BY <1>4, <1>7, <2>1, <2>2
  <2>4. q.state.windows = SwayTitles(t)
    BY <1>5, <2>3, ListIs DEF SwayTitles
  <2> QED BY <1>2, <2>1, <2>4
<1>10. CASE e.change = "close"
  <2>1. /\ q.state.focus = IF r.state.focus = e.id THEN NoSwayWin ELSE r.state.focus
        /\ t.focus = IF s.focus = e.id THEN NoSwayWin ELSE s.focus
        /\ t.wins = s.wins \ {e.id} /\ t.title = s.title
    BY <1>10 DEF Applies, Moves, Marks
  <2>2. DOMAIN q.state.windows = DOMAIN r.state.windows \ {e.id} /\ \A w \in DOMAIN r.state.windows \ {e.id} : q.state.windows[w] = r.state.windows[w]
    BY <1>10 DEF Applies
  <2>3. DOMAIN q.state.windows = t.wins /\ \A w \in t.wins : q.state.windows[w] = t.title[w]
    BY <1>4, <2>1, <2>2
  <2>4. q.state.windows = SwayTitles(t)
    BY <1>5, <2>3, ListIs DEF SwayTitles
  <2> QED BY <1>2, <2>1, <2>4
<1> QED BY <1>6, <1>8, <1>9, <1>10

WorldOf(s) == [windows |-> SwayTitles(s), focus |-> s.focus, workspaces |-> s.place, monitors |-> s.outputs]

SwayTyped ==
  /\ sway \in Worlds /\ WellFocused(sway)
  /\ sway_events \in Seq(SwayEvents) /\ sway_state \in States
  /\ sway_step \in {"idle", "workspaces", "windows"} /\ sway_resync \in BOOLEAN /\ sway_ended \in BOOLEAN
  /\ sway_changed \subseteq Sw!SwayArea /\ sway_lost \subseteq Sw!SwayArea /\ sway_untold \subseteq sway_changed

\* What update_state is about to ask is what its step says.
Asking ==
  /\ sway_step = "idle" => sway_changed = {} /\ ~sway_resync
  /\ sway_step # "idle" => sway_resync /\ ~sway_ended
  /\ sway_step = "workspaces" => Sw!Places \subseteq sway_changed
  /\ Sw!Tree \subseteq sway_lost \/ Sw!Tree \cap sway_lost = {}

\* Between two updates, what the events that wait would make of the state is so,
\* or they will make the client ask; and what it lists is what there is, unless a
\* window opened or closed.
TreeFollows(x, E, s) == Agrees(Folded(x, E), s) /\ (Anew(E) \/ Sw!Listed(x) = s.wins)
PlacesFollow(x, E, s, lost) == \A a \in Sw!Places \ lost : Marked(E) \/ x[a] = WorldOf(s)[a]

\* The inductive invariant.
SwayInv ==
  /\ SwayTyped /\ Asking
  /\ ~sway_ended =>
       /\ Past(sway_events, sway)
       /\ sway_step = "idle" => Sw!Tree \subseteq sway_lost \/ TreeFollows(sway_state, sway_events, sway)
       /\ sway_step # "workspaces" => PlacesFollow(sway_state, sway_events, sway, sway_lost)
SwayBehindNow == sway_lost \cup AboutSome(sway_events) \cup sway_changed \cup (IF sway_resync THEN Sw!Tree ELSE {})

\* What the bridge is behind in: everything once it has ended.
LEMMA BehindIs == Sw!Behind = IF sway_ended THEN Sw!SwayArea ELSE SwayBehindNow
BY DEF Sw!Behind, SwayBehindNow, AboutSome

\* One more event adds what it is about.
LEMMA SwayAboutJoins == \A E \in Seq(SwayEvents), e \in SwayEvents : AboutSome(Append(E, e)) = AboutSome(E) \cup Sw!About(e)
<1> SUFFICES ASSUME NEW E \in Seq(SwayEvents), NEW e \in SwayEvents PROVE AboutSome(Append(E, e)) = AboutSome(E) \cup Sw!About(e)
  OBVIOUS
<1> DEFINE N == Len(E)
           F == Append(E, e)
<1>1. /\ N \in Nat /\ DOMAIN E = 1..N /\ DOMAIN F = (1..N) \cup {N + 1} /\ F[N + 1] = e
      /\ \A i \in 1..N : F[i] = E[i]
  BY SwayJoined
<1> HIDE DEF N, F
<1>2. AboutSome(F) \subseteq AboutSome(E) \cup Sw!About(e)
  BY <1>1 DEF AboutSome
<1>3. Sw!About(e) \subseteq AboutSome(F)
  BY <1>1 DEF AboutSome
<1>4. AboutSome(E) \subseteq AboutSome(F)
  <2> SUFFICES ASSUME NEW i \in 1..N PROVE Sw!About(E[i]) \subseteq AboutSome(F)
    BY <1>1 DEF AboutSome
  <2>1. F[i] = E[i] /\ i \in DOMAIN F
    BY <1>1
  <2>2. Sw!About(F[i]) \subseteq AboutSome(F)
    BY <2>1 DEF AboutSome
  <2> QED BY <2>1, <2>2
<1> QED BY <1>2, <1>3, <1>4 DEF F

\* A change of the world is told by its event.
LEMMA MovesTell == \A s, t, e : Moves(s, e, t) => \A a \in Sw!SwayArea : WorldOf(s)[a] # WorldOf(t)[a] => a \in Sw!About(e)
<1> SUFFICES ASSUME NEW s, NEW t, NEW e, Moves(s, e, t), NEW a \in Sw!SwayArea, WorldOf(s)[a] # WorldOf(t)[a]
             PROVE  a \in Sw!About(e)
  OBVIOUS
<1>1. e \in SwayEvents /\ e.change \in {"new", "close", "focus", "title"} \cup Marks
  BY DEF Moves, SwayEvents
<1>2. CASE e.change \in Marks
  BY <1>1, <1>2, SwayAboutIs
<1>3. CASE e.change \notin Marks
  <2>1. t.place = s.place /\ t.outputs = s.outputs
    BY <1>3 DEF Moves
  <2>2. a \in Sw!Tree
    BY <2>1 DEF WorldOf, Sw!SwayArea, Sw!Tree
  <2>3. CASE e.change \in {"new", "close"}
    BY <1>1, <2>2, <2>3, SwayAboutIs
  <2>4. CASE e.change = "focus"
    <3>1. t.wins = s.wins /\ t.title = s.title
      BY <1>3, <2>4 DEF Moves
    <3>2. a = "focus"
      BY <2>2, <3>1 DEF WorldOf, Sw!Tree, SwayTitles
    <3> QED BY <1>1, <2>4, <3>2, SwayAboutIs
  <2>5. CASE e.change = "title"
    <3>1. t.focus = s.focus
      BY <1>3, <2>5 DEF Moves
    <3>2. a = "windows"
      BY <2>2, <3>1 DEF WorldOf, Sw!Tree
    <3> QED BY <1>1, <2>5, <3>2, SwayAboutIs
  <2> QED BY <1>1, <1>3, <2>3, <2>4, <2>5
<1> QED BY <1>2, <1>3

\* One event more, of something that happened.
LEMMA FollowsGoes == \A s, t, e, lost : \A x \in States, E \in Seq(SwayEvents) :
  Moves(s, e, t) /\ WellFocused(s) =>
    /\ TreeFollows(x, E, s) => TreeFollows(x, Append(E, e), t)
    /\ PlacesFollow(x, E, s, lost) => PlacesFollow(x, Append(E, e), t, lost)
<1> SUFFICES ASSUME NEW s, NEW t, NEW e, NEW lost, NEW x \in States, NEW E \in Seq(SwayEvents), Moves(s, e, t), WellFocused(s)
             PROVE  /\ TreeFollows(x, E, s) => TreeFollows(x, Append(E, e), t)
                    /\ PlacesFollow(x, E, s, lost) => PlacesFollow(x, Append(E, e), t, lost)
  OBVIOUS
<1> DEFINE N == Len(E)
           F == Append(E, e)
<1>0. e \in SwayEvents /\ e.change \in {"new", "close", "focus", "title"} \cup Marks
  BY DEF Moves, SwayEvents
<1>1. /\ N \in Nat /\ DOMAIN E = 1..N /\ DOMAIN F = (1..N) \cup {N + 1} /\ F[N + 1] = e
      /\ \A i \in 1..N : F[i] = E[i]
  BY <1>0, SwayJoined
<1>2. Folded(x, E) \in SwayResults /\ Applies(Folded(x, E), e, Folded(x, F))
  BY <1>0, FoldJoins
<1> HIDE DEF N, F
<1>3. ASSUME TreeFollows(x, E, s) PROVE TreeFollows(x, F, t)
  <2>1. Agrees(Folded(x, F), t)
    BY <1>2, <1>3, AgreesGoes DEF TreeFollows
  <2>2. Anew(E) => Anew(F)
    <3> SUFFICES ASSUME NEW i \in 1..N, E[i].change \notin {"focus", "title"} PROVE Anew(F)
      BY <1>1 DEF Anew
    <3>1. i \in DOMAIN F /\ F[i] = E[i]
      BY <1>1
    <3> QED BY <3>1 DEF Anew
  <2>3. e.change \notin {"focus", "title"} => Anew(F)
    BY <1>1 DEF Anew
  <2>4. e.change \in {"focus", "title"} => t.wins = s.wins
    BY DEF Moves
  <2> QED BY <1>3, <2>1, <2>2, <2>3, <2>4 DEF TreeFollows
<1>4. ASSUME PlacesFollow(x, E, s, lost) PROVE PlacesFollow(x, F, t, lost)
  <2> SUFFICES ASSUME NEW a \in Sw!Places \ lost, ~Marked(F) PROVE x[a] = WorldOf(t)[a]
    BY DEF PlacesFollow
  <2>1. e.change \notin Marks
    BY <1>1 DEF Marked
  <2>2. ~Marked(E)
    <3> SUFFICES ASSUME NEW i \in 1..N, E[i].change \in Marks PROVE FALSE
      BY <1>1 DEF Marked
    <3>1. i \in DOMAIN F /\ F[i] = E[i]
      BY <1>1
    <3> QED BY <3>1 DEF Marked
  <2>3. x[a] = WorldOf(s)[a]
    BY <1>4, <2>2 DEF PlacesFollow
  <2>4. t.place = s.place /\ t.outputs = s.outputs
    BY <2>1 DEF Moves
  <2>5. WorldOf(s)[a] = WorldOf(t)[a]
    BY <2>4 DEF WorldOf, Sw!Places
  <2> QED BY <2>3, <2>5
<1> QED BY <1>3, <1>4 DEF F

\* Joining one event is appending it.
LEMMA OneJoins == \A E \in Seq(SwayEvents), a \in SwayEvents : E \o <<a>> = Append(E, a) /\ E \o (<<a>> \o <<>>) = Append(E, a)
OBVIOUS

\* Joining two is appending twice.
LEMMA TwoJoin == \A E \in Seq(SwayEvents), a, b \in SwayEvents : E \o (<<a>> \o <<b>>) = Append(Append(E, a), b)
<1> SUFFICES ASSUME NEW E \in Seq(SwayEvents), NEW a \in SwayEvents, NEW b \in SwayEvents
             PROVE  E \o (<<a>> \o <<b>>) = Append(Append(E, a), b)
  OBVIOUS
<1>1. <<a>> \in Seq(SwayEvents) /\ <<b>> \in Seq(SwayEvents)
  OBVIOUS
<1>2. E \o (<<a>> \o <<b>>) = (E \o <<a>>) \o <<b>>
  BY <1>1, ConcatAssociative
<1>3. E \o <<a>> = Append(E, a)
  OBVIOUS
<1>4. Append(E, a) \in Seq(SwayEvents)
  OBVIOUS
<1> DEFINE F == Append(E, a)
<1> HIDE DEF F
<1>5. F \o <<b>> = Append(F, b)
  BY <1>4 DEF F
<1> QED BY <1>2, <1>3, <1>5 DEF F

One == \E e : Moves(sway, e, sway') /\ sway_events' = Append(sway_events, e)
Two == \E u, e, f : Moves(sway, e, u) /\ Moves(u, f, sway') /\ sway_events' = Append(Append(sway_events, e), f)

\* The events made are events of the bus.
LEMMA SwayEventIs == \A w \in SwayWin, t \in Texts : 
  /\ \A c \in {"new", "close", "focus", "title"} : 
       Sw!Event(c, w, t) \in SwayEvents /\ Sw!Event(c, w, t).change = c /\ Sw!Event(c, w, t).id = w /\ Sw!Event(c, w, t).title = t
BY DEF Sw!Event, SwayEvents

\* So are the marks.
LEMMA MarkIs == \A c \in Marks : Sw!Event(c, NoSwayWin, 0) \in SwayEvents /\ Sw!Event(c, NoSwayWin, 0).change = c
BY DEF Sw!Event, SwayEvents, Texts

\* A world with other windows, focus, titles, or places.
Made(s, t, wins, title, focus) ==
  /\ t \in Worlds /\ t.wins = wins /\ t.title = title /\ t.focus = focus
Stays(s, t) == t.place = s.place /\ t.outputs = s.outputs

\* The steps of a world.
LEMMA Opened == \A s, t \in Worlds, w \in SwayWin :
  w \notin s.wins /\ Made(s, t, s.wins \cup {w}, s.title, s.focus) /\ Stays(s, t) => Moves(s, Sw!Event("new", w, 0), t)
BY SwayEventIs DEF Moves, Made, Stays, Marks, Texts

\* Closing a window is a change its event tells.
LEMMA Shut == \A s, t \in Worlds, w \in SwayWin :
  w \in s.wins /\ Made(s, t, s.wins \ {w}, s.title, IF s.focus = w THEN NoSwayWin ELSE s.focus) /\ Stays(s, t)
    => Moves(s, Sw!Event("close", w, 0), t)
BY SwayEventIs DEF Moves, Made, Stays, Marks, Texts

\* So is moving the focus.
LEMMA Entered == \A s, t \in Worlds, w \in SwayWin, x \in Texts :
  w \in s.wins /\ Made(s, t, s.wins, s.title, w) /\ Stays(s, t) => Moves(s, Sw!Event("focus", w, x), t)
BY SwayEventIs DEF Moves, Made, Stays, Marks

\* So is a new title.
LEMMA SwayNamed == \A s, t \in Worlds, w \in SwayWin, x \in Texts :
  w \in s.wins /\ Made(s, t, s.wins, [s.title EXCEPT ![w] = x], s.focus) /\ Stays(s, t) => Moves(s, Sw!Event("title", w, x), t)
<1> SUFFICES ASSUME NEW s \in Worlds, NEW t \in Worlds, NEW w \in SwayWin, NEW x \in Texts,
                    w \in s.wins, Made(s, t, s.wins, [s.title EXCEPT ![w] = x], s.focus), Stays(s, t)
             PROVE  Moves(s, Sw!Event("title", w, x), t)
  OBVIOUS
<1> DEFINE e == Sw!Event("title", w, x)
<1>1. e \in SwayEvents /\ e.change = "title" /\ e.id = w /\ e.title = x
  BY SwayEventIs
<1> HIDE DEF e
<1>2. s.title \in [SwayWin -> Texts]
  BY DEF Worlds
<1>3. \A v \in SwayWin : t.title[v] = IF v = w THEN x ELSE s.title[v]
  BY <1>2 DEF Made
<1>4. Moves(s, e, t)
  BY <1>1, <1>3 DEF Moves, Made, Stays, Marks
<1> QED BY <1>4 DEF e

\* So is a change of the tree.
LEMMA SwayMoved == \A s, t \in Worlds, c \in Marks :
  Made(s, t, s.wins, s.title, t.focus) /\ t.focus \in {s.focus, NoSwayWin} => Moves(s, Sw!Event(c, NoSwayWin, 0), t)
BY MarkIs DEF Moves, Made, Marks

Fixed == ~sway_ended /\ UNCHANGED <<sway_state, sway_step, sway_changed, sway_resync, sway_untold, sway_lost, sway_ended>>

\* A change of the world sends its events and nothing else.
LEMMA HappensIs == ASSUME NEW s, NEW ev, Sw!Happens(s, ev) PROVE Fixed /\ sway' = s /\ sway_events' = sway_events \o ev
BY DEF Sw!Happens, Fixed

\* A change of the world sends one event or two.
LEMMA WorldHappens == ASSUME SwayTyped, Sw!World PROVE Fixed /\ (One \/ Two)
<1>0. /\ sway \in Worlds /\ WellFocused(sway) /\ sway_events \in Seq(SwayEvents) /\ 0 \in Texts
      /\ sway.wins \in SUBSET SwayWin /\ sway.title \in [SwayWin -> Texts] /\ sway.focus \in Maybe /\ NoSwayWin \in Maybe
  BY DEF SwayTyped, Worlds, Texts, Maybe
<1>1. CASE Sw!WindowMaps
  <2>1. PICK w \in SwayWin \ sway.wins :
          Sw!Happens([sway EXCEPT !.wins = @ \cup {w}, !.focus = w], <<Sw!Event("new", w, 0)>> \o Sw!Focused(w))
    BY <1>1 DEF Sw!WindowMaps
  <2> DEFINE u == [sway EXCEPT !.wins = @ \cup {w}]
             t == [sway EXCEPT !.wins = @ \cup {w}, !.focus = w]
             e == Sw!Event("new", w, 0)
             f == Sw!Event("focus", w, sway.title[w])
  <2>2. Sw!Focused(w) = <<f>> /\ sway.title[w] \in Texts /\ w \in SwayWin
    BY <1>0, SwayAssumption DEF Sw!Focused
  <2>3. Made(sway, u, sway.wins \cup {w}, sway.title, sway.focus) /\ Stays(sway, u)
    BY <1>0, <2>2 DEF Made, Stays, Worlds
  <2>4. Made(u, t, u.wins, u.title, w) /\ Stays(u, t)
    BY <1>0, <2>2 DEF Made, Stays, Worlds, Maybe
  <2>5. w \in u.wins
    BY <2>3 DEF Made
  <2>6. Fixed /\ sway' = t /\ sway_events' = sway_events \o (<<e>> \o <<f>>)
    BY <2>1, <2>2, HappensIs
  <2> HIDE DEF u, t
  <2>7. u \in Worlds /\ t \in Worlds
    BY <2>3, <2>4 DEF Made
  <2>8. Moves(sway, e, u)
    BY <1>0, <2>2, <2>3, <2>7, Opened
  <2>9. Moves(u, f, t)
    BY <2>2, <2>4, <2>5, <2>7, Entered
  <2>10. e \in SwayEvents /\ f \in SwayEvents
    BY <2>8, <2>9 DEF Moves
  <2> HIDE DEF e, f
  <2>11. sway_events' = Append(Append(sway_events, e), f)
    BY <1>0, <2>6, <2>10, TwoJoin
  <2> QED BY <2>6, <2>8, <2>9, <2>11 DEF Two
<1>2. CASE Sw!WindowUnmaps
  <2>0. PICK w \in sway.wins : LET left == sway.wins \ {w} IN
          \E next \in IF sway.focus # w THEN {sway.focus} ELSE IF left = {} THEN {NoSwayWin} ELSE left :
            Sw!Happens([sway EXCEPT !.wins = left, !.focus = next],
                    <<Sw!Event("close", w, 0)>> \o IF next = sway.focus THEN <<>> ELSE Sw!Focused(next))
    BY <1>2 DEF Sw!WindowUnmaps
  <2> DEFINE left == sway.wins \ {w}
  <2>1. PICK next \in IF sway.focus # w THEN {sway.focus} ELSE IF left = {} THEN {NoSwayWin} ELSE left :
          Sw!Happens([sway EXCEPT !.wins = left, !.focus = next],
                  <<Sw!Event("close", w, 0)>> \o IF next = sway.focus THEN <<>> ELSE Sw!Focused(next))
    BY <2>0
  <2> DEFINE none == IF sway.focus = w THEN NoSwayWin ELSE sway.focus
             u == [sway EXCEPT !.wins = left, !.focus = none]
             t == [sway EXCEPT !.wins = left, !.focus = next]
             e == Sw!Event("close", w, 0)
             f == Sw!Event("focus", next, sway.title[next])
             more == IF next = sway.focus THEN <<>> ELSE Sw!Focused(next)
  <2>2. w \in SwayWin /\ none \in Maybe /\ left \in SUBSET SwayWin /\ next \in Maybe
    BY <1>0 DEF Maybe
  <2>3. Made(sway, u, left, sway.title, none) /\ Stays(sway, u)
    BY <1>0, <2>2 DEF Made, Stays, Worlds
  <2>4. Made(u, t, left, sway.title, next) /\ Stays(u, t) /\ u.wins = left /\ u.title = sway.title
    BY <1>0, <2>2 DEF Made, Stays, Worlds
  <2>6. Fixed /\ sway' = t /\ sway_events' = sway_events \o (<<e>> \o more)
    BY <2>1, HappensIs
  <2>13. next = none \/ (next \in left /\ next # sway.focus)
    <3>1. w # NoSwayWin
      BY <2>2, SwayAssumption
    <3> QED BY <3>1
  <2>14. next = none => more = <<>>
    BY <2>2, SwayAssumption DEF Sw!Focused
  <2>15. next \in left /\ next # sway.focus => more = <<f>>
    BY <2>2, SwayAssumption DEF Sw!Focused
  <2>16. next = none => u = t
    OBVIOUS
  <2> HIDE DEF u, t, more
  <2>7. u \in Worlds /\ t \in Worlds
    BY <2>3, <2>4 DEF Made
  <2>8. Moves(sway, e, u)
    BY <1>0, <2>2, <2>3, <2>7, Shut
  <2>10. e \in SwayEvents
    BY <2>8 DEF Moves
  <2>11. CASE next = none
    <3> HIDE DEF e
    <3>1. sway_events' = Append(sway_events, e) /\ sway' = u
      BY <1>0, <2>6, <2>10, <2>11, <2>14, <2>16, OneJoins
    <3> QED BY <2>6, <2>8, <3>1 DEF One
  <2>12. CASE next \in left /\ next # sway.focus
    <3>1. Moves(u, f, t)
      <4>1. next \in SwayWin /\ sway.title[next] \in Texts
        BY <1>0, <2>2, <2>12
      <4> QED BY <2>4, <2>7, <2>12, <4>1, Entered
    <3>2. f \in SwayEvents
      BY <3>1 DEF Moves
    <3> HIDE DEF e, f
    <3>3. sway_events' = Append(Append(sway_events, e), f)
      BY <1>0, <2>6, <2>10, <2>12, <2>15, <3>2, TwoJoin
    <3> QED BY <2>6, <2>8, <3>1, <3>3 DEF Two
  <2> QED BY <2>11, <2>12, <2>13
<1>3. CASE Sw!WindowFocused
  <2>1. PICK w \in sway.wins \ {sway.focus} : Sw!Happens([sway EXCEPT !.focus = w], Sw!Focused(w))
    BY <1>3 DEF Sw!WindowFocused
  <2> DEFINE t == [sway EXCEPT !.focus = w]
             e == Sw!Event("focus", w, sway.title[w])
  <2>2. Sw!Focused(w) = <<e>> /\ sway.title[w] \in Texts /\ w \in SwayWin /\ w \in Maybe
    BY <1>0, SwayAssumption DEF Sw!Focused, Maybe
  <2>3. Made(sway, t, sway.wins, sway.title, w) /\ Stays(sway, t)
    BY <1>0, <2>2 DEF Made, Stays, Worlds
  <2>4. Fixed /\ sway' = t /\ sway_events' = sway_events \o <<e>>
    BY <2>1, <2>2, HappensIs
  <2> HIDE DEF t
  <2>5. Moves(sway, e, t)
    <3>1. t \in Worlds
      BY <2>3 DEF Made
    <3> QED BY <1>0, <2>2, <2>3, <3>1, Entered
  <2>6. e \in SwayEvents
    BY <2>5 DEF Moves
  <2> HIDE DEF e
  <2>7. sway_events' = Append(sway_events, e)
    BY <1>0, <2>4, <2>6, OneJoins
  <2> QED BY <2>4, <2>5, <2>7 DEF One
<1>4. CASE Sw!WindowRenamed
  <2>1. PICK w \in sway.wins : Sw!Happens([sway EXCEPT !.title[w] = 1 - @], <<Sw!Event("title", w, 1 - sway.title[w])>>)
    BY <1>4 DEF Sw!WindowRenamed
  <2> DEFINE x == 1 - sway.title[w]
             title == [sway.title EXCEPT ![w] = x]
             t == [sway EXCEPT !.title = title]
             e == Sw!Event("title", w, x)
  <2>2. w \in SwayWin /\ x \in Texts
    BY <1>0 DEF Texts
  <2>8. [sway EXCEPT !.title[w] = 1 - @] = t
    BY <1>0, <2>2 DEF Worlds
  <2> HIDE DEF x
  <2>9. title \in [SwayWin -> Texts]
    BY <1>0, <2>2
  <2> HIDE DEF title
  <2>3. Made(sway, t, sway.wins, title, sway.focus) /\ Stays(sway, t)
    BY <1>0, <2>9 DEF Made, Stays, Worlds
  <2>4. Fixed /\ sway' = t /\ sway_events' = sway_events \o <<e>>
    BY <2>1, <2>8, HappensIs DEF x
  <2> HIDE DEF t
  <2>5. Moves(sway, e, t)
    <3>1. t \in Worlds
      BY <2>3 DEF Made
    <3> QED BY <1>0, <2>2, <2>3, <3>1, SwayNamed DEF title
  <2>6. e \in SwayEvents
    BY <2>5 DEF Moves
  <2> HIDE DEF e
  <2>7. sway_events' = Append(sway_events, e)
    BY <1>0, <2>4, <2>6, OneJoins
  <2> QED BY <2>4, <2>5, <2>7 DEF One
<1>5. CASE Sw!WorkspaceFocused
  <2>1. PICK p \in SwayWorkspace \ {sway.place}, w \in sway.wins \cup {NoSwayWin} :
          Sw!Happens([sway EXCEPT !.place = p, !.focus = w], <<Sw!Event("workspace", NoSwayWin, 0)>> \o Sw!Focused(w))
    BY <1>5 DEF Sw!WorkspaceFocused
  <2> DEFINE u == [sway EXCEPT !.place = p, !.focus = NoSwayWin]
             t == [sway EXCEPT !.place = p, !.focus = w]
             e == Sw!Event("workspace", NoSwayWin, 0)
             f == Sw!Event("focus", w, sway.title[w])
  <2>2. w \in Maybe /\ p \in Somewhere
    BY <1>0 DEF Maybe, Somewhere
  <2>3. Made(sway, u, sway.wins, sway.title, NoSwayWin)
    BY <1>0, <2>2 DEF Made, Worlds
  <2>4. Made(u, t, sway.wins, sway.title, w) /\ Stays(u, t) /\ u.wins = sway.wins /\ u.title = sway.title /\ u.focus = NoSwayWin
    BY <1>0, <2>2 DEF Made, Stays, Worlds
  <2>6. Fixed /\ sway' = t /\ sway_events' = sway_events \o (<<e>> \o Sw!Focused(w))
    BY <2>1, HappensIs
  <2>16. w = NoSwayWin => u = t
    OBVIOUS
  <2> HIDE DEF u, t
  <2>7. u \in Worlds /\ t \in Worlds /\ "workspace" \in Marks
    BY <2>3, <2>4 DEF Made, Marks
  <2>8. Moves(sway, e, u)
    BY <1>0, <2>3, <2>4, <2>7, SwayMoved
  <2>10. e \in SwayEvents
    BY <2>8 DEF Moves
  <2>11. CASE w = NoSwayWin
    <3> HIDE DEF e
    <3>1. Sw!Focused(w) = <<>>
      BY <2>11 DEF Sw!Focused
    <3>2. sway_events' = Append(sway_events, e) /\ sway' = u
      BY <1>0, <2>6, <2>10, <2>11, <2>16, <3>1, OneJoins
    <3> QED BY <2>6, <2>8, <3>2 DEF One
  <2>12. CASE w # NoSwayWin
    <3>1. w \in sway.wins /\ w \in SwayWin /\ sway.title[w] \in Texts
      BY <1>0, <2>12
    <3>2. Moves(u, f, t)
      BY <2>4, <2>7, <3>1, Entered
    <3>3. f \in SwayEvents /\ Sw!Focused(w) = <<f>>
      BY <2>12, <3>2 DEF Moves, Sw!Focused
    <3> HIDE DEF e, f
    <3>4. sway_events' = Append(Append(sway_events, e), f)
      BY <1>0, <2>6, <2>10, <3>3, TwoJoin
    <3> QED BY <2>6, <2>8, <3>2, <3>4 DEF Two
  <2> QED BY <2>11, <2>12
<1>6. CASE Sw!OutputChanges
  <2>1. PICK o \in SUBSET SwayOutput \ {sway.outputs} : Sw!Happens([sway EXCEPT !.outputs = o], <<Sw!Event("output", NoSwayWin, 0)>>)
    BY <1>6 DEF Sw!OutputChanges
  <2> DEFINE t == [sway EXCEPT !.outputs = o]
             e == Sw!Event("output", NoSwayWin, 0)
  <2>3. Made(sway, t, sway.wins, sway.title, sway.focus) /\ t.focus = sway.focus
    BY <1>0 DEF Made, Worlds
  <2>4. Fixed /\ sway' = t /\ sway_events' = sway_events \o <<e>>
    BY <2>1, HappensIs
  <2> HIDE DEF t
  <2>5. Moves(sway, e, t)
    <3>1. t \in Worlds /\ "output" \in Marks
      BY <2>3 DEF Made, Marks
    <3> QED BY <1>0, <2>3, <3>1, SwayMoved
  <2>6. e \in SwayEvents
    BY <2>5 DEF Moves
  <2> HIDE DEF e
  <2>7. sway_events' = Append(sway_events, e)
    BY <1>0, <2>4, <2>6, OneJoins
  <2> QED BY <2>4, <2>5, <2>7 DEF One
<1> QED BY <1>1, <1>2, <1>3, <1>4, <1>5, <1>6 DEF Sw!World

\* What is so and what the state says, as the view has them.
SwaySame == sway_state' = sway_state /\ sway_untold' = sway_untold

\* One event and what it is of keep the invariant's parts, whatever waits already.
SwayKept(E, s) ==
  /\ Past(E, s) /\ WellFocused(s) /\ E \in Seq(SwayEvents) /\ s \in Worlds
  /\ sway_step = "idle" => Sw!Tree \subseteq sway_lost \/ TreeFollows(sway_state, E, s)
  /\ sway_step # "workspaces" => PlacesFollow(sway_state, E, s, sway_lost)

\* What has been kept of the world stays kept as it changes.
LEMMA KeptGoes == \A s, t, e, E : sway_state \in States /\ SwayKept(E, s) /\ Moves(s, e, t) =>
  /\ SwayKept(Append(E, e), t) /\ AboutSome(Append(E, e)) = AboutSome(E) \cup Sw!About(e)
  /\ \A a \in Sw!SwayArea : WorldOf(s)[a] # WorldOf(t)[a] => a \in Sw!About(e)
<1> SUFFICES ASSUME NEW s, NEW t, NEW e, NEW E, sway_state \in States, SwayKept(E, s), Moves(s, e, t)
             PROVE  /\ SwayKept(Append(E, e), t) /\ AboutSome(Append(E, e)) = AboutSome(E) \cup Sw!About(e)
                    /\ \A a \in Sw!SwayArea : WorldOf(s)[a] # WorldOf(t)[a] => a \in Sw!About(e)
  OBVIOUS
<1>1. E \in Seq(SwayEvents) /\ e \in SwayEvents /\ s \in Worlds /\ t \in Worlds /\ WellFocused(s) /\ Past(E, s)
  BY DEF SwayKept, Moves
<1>2. Past(Append(E, e), t) /\ WellFocused(t)
  BY <1>1, PastGoes
<1>3. Append(E, e) \in Seq(SwayEvents)
  BY <1>1
<1>4. /\ TreeFollows(sway_state, E, s) => TreeFollows(sway_state, Append(E, e), t)
      /\ PlacesFollow(sway_state, E, s, sway_lost) => PlacesFollow(sway_state, Append(E, e), t, sway_lost)
  BY <1>1, FollowsGoes
<1>5. AboutSome(Append(E, e)) = AboutSome(E) \cup Sw!About(e)
  BY <1>1, SwayAboutJoins
<1>6. \A a \in Sw!SwayArea : WorldOf(s)[a] # WorldOf(t)[a] => a \in Sw!About(e)
  BY MovesTell
<1> QED BY <1>1, <1>2, <1>3, <1>4, <1>5, <1>6 DEF SwayKept

\* A step of the world is the view's world moving.
LEMMA TheyMove ==
  ASSUME Fixed, AboutSome(sway_events) \subseteq AboutSome(sway_events'), ~sway_ended,
         \A a \in Sw!SwayArea : WorldOf(sway)[a] # WorldOf(sway')[a] => a \in AboutSome(sway_events')
  PROVE  Sw!View!WorldMoves
<1>1. Sw!Behind = SwayBehindNow
  BY BehindIs
<1>2. Sw!Behind' = SwayBehindNow'
  <2>1. ~sway_ended'
    BY DEF Fixed
  <2> QED BY <2>1 DEF Sw!Behind, SwayBehindNow, AboutSome
<1>3. Sw!Behind \subseteq Sw!Behind'
  BY <1>1, <1>2 DEF SwayBehindNow, Fixed
<1>4. AboutSome(sway_events') \subseteq Sw!Behind'
  BY <1>2 DEF SwayBehindNow
<1>5. \A a \in Sw!SwayArea : WorldOf(sway)[a] # WorldOf(sway')[a] => a \in Sw!Behind'
  BY <1>4
<1>6. UNCHANGED <<[a \in Sw!SwayArea |-> sway_state[a]], sway_untold>>
  BY DEF Fixed
<1> QED BY <1>3, <1>5, <1>6 DEF Sw!View!WorldMoves, Sw!View!Differ, WorldOf, SwayTitles

\* A change of the world keeps Sway's invariant and is a change of the view's world.
LEMMA SwayWorldStep == ASSUME SwayInv, Sw!World PROVE SwayInv' /\ Sw!View!WorldMoves
<1>1. SwayTyped /\ Asking
  BY DEF SwayInv
<1>2. Fixed /\ (One \/ Two)
  BY <1>1, WorldHappens
<1>3. ~sway_ended /\ sway_state \in States /\ SwayKept(sway_events, sway)
  BY <1>1, <1>2 DEF SwayInv, SwayKept, SwayTyped, Fixed
<1>4. /\ SwayKept(sway_events', sway') /\ AboutSome(sway_events) \subseteq AboutSome(sway_events')
      /\ \A a \in Sw!SwayArea : WorldOf(sway)[a] # WorldOf(sway')[a] => a \in AboutSome(sway_events')
  <2>1. CASE One
    <3>1. PICK e : Moves(sway, e, sway') /\ sway_events' = Append(sway_events, e)
      BY <2>1 DEF One
    <3>2. /\ SwayKept(Append(sway_events, e), sway') /\ AboutSome(Append(sway_events, e)) = AboutSome(sway_events) \cup Sw!About(e)
          /\ \A a \in Sw!SwayArea : WorldOf(sway)[a] # WorldOf(sway')[a] => a \in Sw!About(e)
      BY <1>3, <3>1, KeptGoes
    <3> QED BY <3>1, <3>2
  <2>2. CASE Two
    <3>1. PICK u, e, f : Moves(sway, e, u) /\ Moves(u, f, sway') /\ sway_events' = Append(Append(sway_events, e), f)
      BY <2>2 DEF Two
    <3> DEFINE E == Append(sway_events, e)
    <3>2. /\ SwayKept(E, u) /\ AboutSome(E) = AboutSome(sway_events) \cup Sw!About(e)
          /\ \A a \in Sw!SwayArea : WorldOf(sway)[a] # WorldOf(u)[a] => a \in Sw!About(e)
      BY <1>3, <3>1, KeptGoes
    <3> HIDE DEF E
    <3>3. /\ SwayKept(Append(E, f), sway') /\ AboutSome(Append(E, f)) = AboutSome(E) \cup Sw!About(f)
          /\ \A a \in Sw!SwayArea : WorldOf(u)[a] # WorldOf(sway')[a] => a \in Sw!About(f)
      BY <1>3, <3>1, <3>2, KeptGoes
    <3>4. sway_events' = Append(E, f)
      BY <3>1 DEF E
    <3>5. ASSUME NEW a \in Sw!SwayArea, WorldOf(sway)[a] # WorldOf(sway')[a] PROVE a \in AboutSome(sway_events')
      BY <3>2, <3>3, <3>4, <3>5
    <3> QED BY <3>2, <3>3, <3>4, <3>5
  <2> QED BY <1>2, <2>1, <2>2
<1>5. SwayTyped'
  BY <1>1, <1>2, <1>4 DEF SwayTyped, Fixed, SwayKept
<1>6. Asking'
  BY <1>1, <1>2 DEF Asking, Fixed
<1>7. SwayInv'
  BY <1>2, <1>4, <1>5, <1>6 DEF SwayInv, SwayKept, Fixed, PlacesFollow
<1> QED BY <1>2, <1>3, <1>4, <1>7, TheyMove

----------------------------------------------------------------------------

\* When the events read make the client ask, word of the tree was under way.
LEMMA ResyncBehind ==
  ASSUME SwayInv, ~sway_ended, sway_step = "idle", Folded(sway_state, sway_events).resync
  PROVE  Sw!Tree \subseteq Sw!Behind
<1> DEFINE E == sway_events
           r == Folded(sway_state, E)
<1>1. SwayTyped /\ Past(E, sway) /\ (Sw!Tree \subseteq sway_lost \/ TreeFollows(sway_state, E, sway))
  BY DEF SwayInv
<1>2. sway_state \in States /\ E \in Seq(SwayEvents)
  BY <1>1 DEF SwayTyped
<1>3. Anew(E) \/ Unlisted(sway_state, E)
  BY <1>2, FoldedIs DEF Sofar
<1>4. Sw!Behind = SwayBehindNow
  BY BehindIs
<1>5. \A i \in DOMAIN E : E[i] \in SwayEvents
  BY <1>2
<1>6. CASE Sw!Tree \subseteq sway_lost
  BY <1>4, <1>6 DEF SwayBehindNow
<1>7. CASE Anew(E)
  <2>1. PICK i \in DOMAIN E : E[i].change \notin {"focus", "title"}
    BY <1>7 DEF Anew
  <2>2. E[i].change \in {"new", "close"} \cup Marks
    BY <1>5, <2>1 DEF SwayEvents
  <2>3. Sw!Tree \subseteq Sw!About(E[i])
    BY <1>5, <2>2, SwayAboutIs DEF Sw!SwayArea, Sw!Tree
  <2>4. Sw!Tree \subseteq AboutSome(E)
    BY <2>3 DEF AboutSome
  <2> QED BY <1>4, <2>4 DEF SwayBehindNow
<1>8. CASE ~Anew(E) /\ ~(Sw!Tree \subseteq sway_lost)
  <2>1. Sw!Listed(sway_state) = sway.wins
    BY <1>1, <1>8 DEF TreeFollows
  <2>2. PICK i \in DOMAIN E : E[i].change \in {"focus", "title"} /\ E[i].id \notin sway.wins
    BY <1>3, <1>8, <2>1 DEF Unlisted
  <2>3. \E j \in DOMAIN E : j > i /\ E[j].change = "close"
    BY <1>1, <2>2 DEF Past, PastListed
  <2>4. Anew(E)
    BY <2>3 DEF Anew
  <2> QED BY <1>8, <2>4
<1> QED BY <1>6, <1>7, <1>8

\* Whatever is not behind is as it is, and was announced.
IsSettled == \A a \in Sw!SwayArea \ Sw!Behind : sway_state[a] = WorldOf(sway)[a] /\ a \notin sway_untold

\* Sway's invariant says that what is not behind is settled.
LEMMA InvSettles == SwayInv => IsSettled
<1> SUFFICES ASSUME SwayInv, NEW a \in Sw!SwayArea \ Sw!Behind PROVE sway_state[a] = WorldOf(sway)[a] /\ a \notin sway_untold
  BY DEF IsSettled
<1> DEFINE E == sway_events
           r == Folded(sway_state, E)
<1>1. ~sway_ended /\ Sw!Behind = SwayBehindNow
  BY BehindIs
<1>2. SwayTyped /\ Asking
  BY DEF SwayInv
<1>3. a \notin sway_changed /\ a \notin sway_lost /\ a \notin AboutSome(E)
  BY <1>1 DEF SwayBehindNow
<1>4. a \notin sway_untold
  BY <1>2, <1>3 DEF SwayTyped
<1>5. sway_state \in States /\ E \in Seq(SwayEvents)
  BY <1>2 DEF SwayTyped
<1>6. CASE a \in Sw!Tree
  <2>1. sway_step = "idle"
    BY <1>1, <1>2, <1>6 DEF Asking, SwayBehindNow
  <2>2. ~r.resync
    BY <1>1, <1>6, <2>1, ResyncBehind
  <2>3. TreeFollows(sway_state, E, sway)
    BY <1>1, <1>3, <1>6, <2>1 DEF SwayInv
  <2>4. r.state.windows = SwayTitles(sway) /\ r.state.focus = sway.focus
    BY <2>2, <2>3 DEF TreeFollows, Agrees
  <2>5. Sofar(sway_state, E, r, DOMAIN E)
    BY <1>5, FoldedIs
  <2>6. a \notin r.changed
    BY <1>3, <2>5 DEF Sofar
  <2>7. sway_state[a] = r.state[a]
    BY <2>5, <2>6 DEF Sofar, Sw!Differ
  <2> HIDE DEF r
  <2>8. r.state[a] = WorldOf(sway)[a]
    BY <1>6, <2>4 DEF WorldOf, Sw!Tree
  <2> QED BY <1>4, <2>7, <2>8
<1>7. CASE a \in Sw!Places
  <2>1. sway_step # "workspaces"
    BY <1>2, <1>3, <1>7 DEF Asking
  <2>2. PlacesFollow(sway_state, E, sway, sway_lost)
    BY <1>1, <2>1 DEF SwayInv
  <2>3. ~Marked(E)
    <3> SUFFICES ASSUME NEW i \in DOMAIN E, E[i].change \in Marks PROVE FALSE
      BY DEF Marked
    <3>1. E[i] \in SwayEvents
      BY <1>5
    <3>2. Sw!About(E[i]) = Sw!SwayArea
      BY <3>1, SwayAboutIs
    <3> QED BY <1>3, <3>2 DEF AboutSome
  <2> QED BY <1>3, <1>4, <1>7, <2>2, <2>3 DEF PlacesFollow
<1> QED BY <1>6, <1>7 DEF Sw!SwayArea, Sw!Tree, Sw!Places

\* What narrows what is behind, and keeps the invariant, is an update of the view.
LEMMA SwayUpdatesView ==
  ASSUME IsSettled', sway' = sway, Sw!Behind' \subseteq Sw!Behind,
         sway_untold' \subseteq sway_untold \cup Sw!Differ(sway_state, sway_state')
  PROVE  Sw!View!Update
<1>2. Sw!View!Settled'
  BY DEF Sw!View!Settled, IsSettled, WorldOf, SwayTitles
<1>3. sway_untold' \subseteq sway_untold \cup {a \in Sw!SwayArea : [b \in Sw!SwayArea |-> sway_state[b]][a]
                                                                # [b \in Sw!SwayArea |-> sway_state'[b]][a]}
  BY DEF Sw!Differ
<1> QED BY <1>2, <1>3 DEF Sw!View!Update, Sw!View!Differ

\* What the bridge is behind in, in the next state.
LEMMA SwayBehindNext == Sw!Behind' = IF sway_ended' THEN Sw!SwayArea ELSE SwayBehindNow'
BY DEF Sw!Behind, SwayBehindNow, AboutSome

\* Nothing waits in an empty batch.
LEMMA NoneWaits == /\ <<>> \in Seq(SwayEvents) /\ AboutSome(<<>>) = {} /\ ~Anew(<<>>) /\ ~Marked(<<>>)
                   /\ \A s : Past(<<>>, s)
BY DEF AboutSome, Anew, Marked, Past, PastTitle, PastFocus, PastClose, PastListed

\* The fold over an empty batch changes nothing.
LEMMA NoneFolds == \A x \in States : Folded(x, <<>>) = Base(x)
<1> SUFFICES ASSUME NEW x \in States PROVE Folded(x, <<>>) = Base(x)
  OBVIOUS
<1>1. <<>> \in Seq(SwayEvents) /\ Len(<<>>) = 0
  OBVIOUS
<1>2. PICK run : IsRun(run, x, <<>>)
  BY <1>1, RunThereIs
<1> QED BY <1>1, <1>2 DEF IsRun

\* An answer that is what is so is followed, whatever events wait.
LEMMA AnswerFollows == \A x \in States, s \in Worlds, E \in Seq(SwayEvents) :
  x.windows = SwayTitles(s) /\ x.focus = s.focus /\ WellFocused(s) /\ Past(E, s) => TreeFollows(x, E, s)
<1> SUFFICES ASSUME NEW x \in States, NEW s \in Worlds, NEW E \in Seq(SwayEvents),
                    x.windows = SwayTitles(s), x.focus = s.focus, WellFocused(s), Past(E, s)
             PROVE  TreeFollows(x, E, s)
  OBVIOUS
<1>1. Agrees(Folded(x, E), s)
  BY RetoldIs
<1>2. Sw!Listed(x) = s.wins
  BY DEF Sw!Listed, SwayTitles
<1> QED BY <1>1, <1>2 DEF TreeFollows

\* Reading a batch keeps Sway's invariant and is an update of the view.
LEMMA ReadStep == ASSUME SwayInv, Sw!ReadEvents PROVE SwayInv' /\ Sw!View!Update
<1> DEFINE E == sway_events
           r == Folded(sway_state, E)
           asks == Sw!Places \subseteq r.changed \/ r.resync
<1>1. SwayTyped /\ Asking
  BY DEF SwayInv
<1>2. /\ sway_step = "idle" /\ ~sway_ended /\ sway_events' = <<>> /\ sway_state' = r.state
      /\ UNCHANGED <<sway, sway_lost, sway_ended>>
      /\ asks => /\ sway_changed' = r.changed /\ sway_resync' = r.resync
                 /\ sway_step' = IF Sw!Places \subseteq r.changed THEN "workspaces" ELSE "windows"
                 /\ sway_untold' = sway_untold \cup Sw!Differ(sway_state, sway_state')
      /\ ~asks => /\ sway_changed' = {} /\ sway_resync' = FALSE /\ sway_step' = "idle"
                  /\ sway_untold' = (sway_untold \cup Sw!Differ(sway_state, sway_state')) \ r.changed
  BY DEF Sw!ReadEvents, Sw!Ask, Sw!Return, Folded, Base, Ran
<1>3. sway_state \in States /\ E \in Seq(SwayEvents) /\ sway_changed = {} /\ sway_untold = {}
  BY <1>1, <1>2 DEF SwayTyped, Asking
<1>4. r \in SwayResults /\ Sofar(sway_state, E, r, DOMAIN E)
  BY <1>3, FoldedIs
<1>5. r.state \in States /\ r.changed \in SUBSET Sw!SwayArea /\ r.resync \in BOOLEAN
  BY <1>4 DEF SwayResults
<1>6. Sw!Tree \subseteq sway_lost \/ TreeFollows(sway_state, E, sway)
  BY <1>2 DEF SwayInv
<1>7. PlacesFollow(sway_state, E, sway, sway_lost)
  BY <1>2 DEF SwayInv
<1>8. r.resync => Sw!Tree \subseteq Sw!Behind
  BY <1>2, ResyncBehind
<1>9. Sw!Behind = SwayBehindNow
  BY <1>2, BehindIs
<1> HIDE DEF r
<1>10. Sw!Differ(sway_state, r.state) \subseteq r.changed /\ r.changed \subseteq AboutSome(E)
  BY <1>4 DEF Sofar
<1>11. Sw!Places \subseteq r.changed => r.resync
  BY <1>4 DEF Sofar, Sw!Places
<1>12. SwayTyped'
  BY <1>1, <1>2, <1>3, <1>5, <1>10, NoneWaits DEF SwayTyped
<1>13. Asking'
  BY <1>1, <1>2, <1>5, <1>11 DEF Asking
<1>14. Past(sway_events', sway')
  BY <1>2, NoneWaits
<1>15. sway_step' = "idle" => Sw!Tree \subseteq sway_lost' \/ TreeFollows(sway_state', sway_events', sway')
  <2>1. SUFFICES ASSUME ~asks, ~(Sw!Tree \subseteq sway_lost) PROVE TreeFollows(r.state, <<>>, sway)
    BY <1>2
  <2>2. r.state.windows = SwayTitles(sway) /\ r.state.focus = sway.focus
    BY <1>6, <2>1 DEF TreeFollows, Agrees, r
  <2>3. sway \in Worlds /\ WellFocused(sway)
    BY <1>1 DEF SwayTyped
  <2> QED BY <1>5, <2>2, <2>3, NoneWaits, AnswerFollows
<1>16. sway_step' # "workspaces" => PlacesFollow(sway_state', sway_events', sway', sway_lost')
  <2>1. SUFFICES ASSUME ~(Sw!Places \subseteq r.changed), NEW a \in Sw!Places \ sway_lost
                 PROVE  r.state[a] = WorldOf(sway)[a]
    BY <1>2 DEF PlacesFollow
  <2>2. ~Marked(E)
    BY <1>4, <2>1 DEF Sofar, Marked
  <2>3. sway_state[a] = WorldOf(sway)[a]
    BY <1>7, <2>1, <2>2 DEF PlacesFollow
  <2>4. r.state.workspaces = sway_state.workspaces /\ r.state.monitors = sway_state.monitors
    BY <1>4 DEF Sofar
  <2> QED BY <2>3, <2>4 DEF Sw!Places
<1>17. SwayInv'
  BY <1>12, <1>13, <1>14, <1>15, <1>16 DEF SwayInv
<1>18. Sw!Behind' \subseteq Sw!Behind
  <2>1. Sw!Behind' = SwayBehindNow'
    BY <1>2, SwayBehindNext
  <2>2. sway_changed' \subseteq AboutSome(E)
    BY <1>2, <1>10
  <2>3. sway_resync' => Sw!Tree \subseteq Sw!Behind
    BY <1>2, <1>8
  <2>4. AboutSome(sway_events') = {}
    BY <1>2, NoneWaits
  <2>5. SwayBehindNow' = sway_lost \cup sway_changed' \cup (IF sway_resync' THEN Sw!Tree ELSE {})
    BY <1>2, <2>4 DEF SwayBehindNow
  <2> QED BY <1>9, <2>1, <2>2, <2>3, <2>5 DEF SwayBehindNow
<1>19. sway_untold' \subseteq sway_untold \cup Sw!Differ(sway_state, sway_state')
  BY <1>2
<1>20. IsSettled'
  BY <1>17, InvSettles, PTL
<1> QED BY <1>2, <1>17, <1>18, <1>19, <1>20, SwayUpdatesView

\* So is asking for the workspaces.
LEMMA SwayRefreshWorkspacesStep == ASSUME SwayInv, Sw!RefreshWorkspaces PROVE SwayInv' /\ Sw!View!Update
<1>1. SwayTyped /\ Asking
  BY DEF SwayInv
<1>2. /\ sway_step = "workspaces" /\ sway_lost' = sway_lost \ Sw!Places
      /\ sway_state' = [sway_state EXCEPT !.workspaces = sway.place, !.monitors = sway.outputs]
      /\ UNCHANGED <<sway, sway_events, sway_ended>>
  BY DEF Sw!RefreshWorkspaces
<1>3. sway_resync /\ ~sway_ended /\ Sw!Places \subseteq sway_changed
  BY <1>1, <1>2 DEF Asking
<1>4. sway_step' = "windows" /\ UNCHANGED <<sway_changed, sway_resync>> /\ sway_untold' = sway_untold \cup Sw!Differ(sway_state, sway_state')
  BY <1>3 DEF Sw!RefreshWorkspaces, Sw!Ask
<1>5. /\ sway_state' \in States /\ sway_state'.windows = sway_state.windows /\ sway_state'.focus = sway_state.focus
      /\ sway_state'.workspaces = sway.place /\ sway_state'.monitors = sway.outputs
  BY <1>1, <1>2 DEF SwayTyped, States, Worlds
<1>6. Sw!Differ(sway_state, sway_state') \subseteq Sw!Places
  BY <1>5 DEF Sw!Differ, Sw!SwayArea, Sw!Places
<1>7. SwayTyped'
  BY <1>1, <1>2, <1>3, <1>4, <1>5, <1>6 DEF SwayTyped
<1>8. Asking'
  <2>1. Sw!Tree \cap Sw!Places = {}
    BY DEF Sw!Tree, Sw!Places
  <2> QED BY <1>1, <1>2, <1>3, <1>4, <2>1 DEF Asking
<1>9. PlacesFollow(sway_state', sway_events', sway', sway_lost')
  <2> DEFINE x == sway_state'
             w == WorldOf(sway')
  <2>1. x["workspaces"] = w["workspaces"] /\ x["monitors"] = w["monitors"]
    BY <1>2, <1>5 DEF WorldOf
  <2> HIDE DEF x, w
  <2>2. \A a \in Sw!Places : x[a] = w[a]
    BY <2>1 DEF Sw!Places
  <2> QED BY <2>2 DEF PlacesFollow, x, w
<1>10. Past(sway_events', sway')
  BY <1>2, <1>3 DEF SwayInv
<1>11. SwayInv'
  BY <1>4, <1>7, <1>8, <1>9, <1>10 DEF SwayInv
<1>12. Sw!Behind' \subseteq Sw!Behind
  BY <1>2, <1>3, <1>4, BehindIs, SwayBehindNext DEF SwayBehindNow
<1>13. IsSettled'
  BY <1>11, InvSettles, PTL
<1> QED BY <1>2, <1>4, <1>11, <1>12, <1>13, SwayUpdatesView

\* So is asking for the windows.
LEMMA SwayRefreshWindowsStep == ASSUME SwayInv, Sw!RefreshWindows PROVE SwayInv' /\ Sw!View!Update
<1>1. SwayTyped /\ Asking
  BY DEF SwayInv
<1> DEFINE title == IF sway.focus = NoSwayWin THEN 0 ELSE sway.title[sway.focus]
<1>2. /\ sway_step = "windows" /\ sway_lost' = sway_lost \ Sw!Tree
      /\ sway_state' = [sway_state EXCEPT !.windows = SwayTitles(sway), !.focus = sway.focus, !.focus_title = title]
      /\ sway_step' = "idle" /\ sway_changed' = {} /\ sway_resync' = FALSE
      /\ sway_untold' = (sway_untold \cup Sw!Differ(sway_state, sway_state')) \ (sway_changed \cup Sw!Tree)
      /\ UNCHANGED <<sway, sway_events, sway_ended>>
  BY DEF Sw!RefreshWindows, Sw!Return, SwayTitles
<1>3. ~sway_ended /\ sway_resync
  BY <1>1, <1>2 DEF Asking
<1>4. sway \in Worlds /\ WellFocused(sway) /\ sway_events \in Seq(SwayEvents) /\ sway_state \in States
  BY <1>1 DEF SwayTyped
<1>5. sway.wins \in SUBSET SwayWin /\ sway.title \in [SwayWin -> Texts] /\ sway.focus \in Maybe
  BY <1>4 DEF Worlds
<1>6. title \in Texts
  BY <1>5 DEF Texts, Maybe
<1>7. SwayTitles(sway) \in Lists
  <2> DEFINE f == SwayTitles(sway)
  <2>1. f \in [sway.wins -> Texts]
    BY <1>5 DEF SwayTitles
  <2> DEFINE W == sway.wins
  <2>2. W \in SUBSET SwayWin /\ f \in [W -> Texts]
    BY <1>5, <2>1
  <2> HIDE DEF f, W
  <2>3. [W -> Texts] \in {[V -> Texts] : V \in SUBSET SwayWin}
    BY <2>2
  <2>4. f \in Lists
    BY <2>2, <2>3 DEF Lists
  <2> QED BY <2>4 DEF f
<1> HIDE DEF title
<1> DEFINE list == SwayTitles(sway)
<1> HIDE DEF list
<1>8. /\ sway_state' \in States /\ sway_state'.windows = list /\ sway_state'.focus = sway.focus
      /\ sway_state'.workspaces = sway_state.workspaces /\ sway_state'.monitors = sway_state.monitors
  <2>1. sway_state' = [sway_state EXCEPT !.windows = list, !.focus = sway.focus, !.focus_title = title] /\ list \in Lists
    BY <1>2, <1>7 DEF list
  <2> QED BY <1>4, <1>5, <1>6, <2>1 DEF States
<1>9. Sw!Differ(sway_state, sway_state') \subseteq Sw!Tree
  BY <1>8 DEF Sw!Differ, Sw!SwayArea, Sw!Tree
<1>10. sway_untold' = {}
  BY <1>1, <1>2, <1>9 DEF SwayTyped
<1>11. SwayTyped'
  BY <1>1, <1>2, <1>3, <1>8, <1>10 DEF SwayTyped
<1>12. Asking'
  BY <1>1, <1>2 DEF Asking
<1>13. Past(sway_events, sway)
  BY <1>3 DEF SwayInv
<1>14. TreeFollows(sway_state', sway_events', sway')
  BY <1>2, <1>4, <1>8, <1>13, AnswerFollows DEF list
<1>15. PlacesFollow(sway_state', sway_events', sway', sway_lost')
  <2>1. PlacesFollow(sway_state, sway_events, sway, sway_lost)
    BY <1>2, <1>3 DEF SwayInv
  <2>2. Sw!Places \ sway_lost' = Sw!Places \ sway_lost
    BY <1>2 DEF Sw!Places, Sw!Tree
  <2>3. \A a \in Sw!Places : sway_state'[a] = sway_state[a]
    BY <1>8 DEF Sw!Places
  <2> QED BY <1>2, <2>1, <2>2, <2>3 DEF PlacesFollow
<1>16. SwayInv'
  BY <1>2, <1>11, <1>12, <1>13, <1>14, <1>15 DEF SwayInv
<1>17. Sw!Behind' \subseteq Sw!Behind
  BY <1>2, <1>3, BehindIs, SwayBehindNext DEF SwayBehindNow
<1>18. IsSettled'
  BY <1>16, InvSettles, PTL
<1> QED BY <1>2, <1>10, <1>16, <1>17, <1>18, SwayUpdatesView

\* So is a query that fails.
LEMMA SwayQueryFailsStep == ASSUME SwayInv, Sw!QueryFails PROVE SwayInv' /\ Sw!View!Update
<1>1. SwayTyped /\ Asking
  BY DEF SwayInv
<1>2. /\ sway_step # "idle"
      /\ sway_lost' = sway_lost \cup (IF sway_step = "workspaces" THEN Sw!Places ELSE {}) \cup (IF sway_resync THEN Sw!Tree ELSE {})
      /\ sway_step' = "idle" /\ sway_changed' = {} /\ sway_resync' = FALSE
      /\ sway_untold' = (sway_untold \cup Sw!Differ(sway_state, sway_state')) \ Sw!SwayArea
      /\ UNCHANGED <<sway, sway_events, sway_state, sway_ended>>
  BY DEF Sw!QueryFails, Sw!Return
<1>3. sway_resync /\ ~sway_ended /\ Sw!Tree \subseteq Sw!SwayArea /\ Sw!Places \subseteq Sw!SwayArea
  BY <1>1, <1>2 DEF Asking, Sw!Tree, Sw!Places, Sw!SwayArea
<1>4. sway_untold' = {}
  BY <1>1, <1>2 DEF SwayTyped, Sw!Differ
<1>5. Sw!Tree \subseteq sway_lost'
  BY <1>2, <1>3
<1>6. SwayTyped'
  BY <1>1, <1>2, <1>3, <1>4 DEF SwayTyped
<1>7. Asking'
  BY <1>1, <1>2, <1>5 DEF Asking
<1>8. PlacesFollow(sway_state', sway_events', sway', sway_lost')
  <2>1. CASE sway_step = "workspaces"
    BY <1>2, <2>1 DEF PlacesFollow
  <2>2. CASE sway_step # "workspaces"
    <3>1. PlacesFollow(sway_state, sway_events, sway, sway_lost)
      BY <1>3, <2>2 DEF SwayInv
    <3>2. Sw!Places \ sway_lost' \subseteq Sw!Places \ sway_lost
      BY <1>2
    <3> QED BY <1>2, <3>1, <3>2 DEF PlacesFollow
  <2> QED BY <2>1, <2>2
<1>9. Past(sway_events', sway')
  BY <1>2, <1>3 DEF SwayInv
<1>10. SwayInv'
  BY <1>5, <1>6, <1>7, <1>8, <1>9 DEF SwayInv
<1>11. Sw!Behind' \subseteq Sw!Behind
  <2>1. sway_lost' \subseteq sway_lost \cup sway_changed \cup Sw!Tree
    BY <1>1, <1>2, <1>3 DEF Asking
  <2> QED BY <1>2, <1>3, <2>1, BehindIs, SwayBehindNext DEF SwayBehindNow
<1>12. IsSettled'
  BY <1>10, InvSettles, PTL
<1> QED BY <1>2, <1>4, <1>10, <1>11, <1>12, SwayUpdatesView

\* When the stream is over everything is behind, for good.
LEMMA StreamEndsStep == ASSUME SwayInv, Sw!StreamEnds PROVE SwayInv' /\ Sw!View!WorldMoves
<1>1. SwayTyped /\ Asking
  BY DEF SwayInv
<1>2. /\ sway_step = "idle" /\ ~sway_ended /\ sway_ended' = TRUE /\ sway_events' = <<>>
      /\ sway_step' = "idle" /\ sway_changed' = {} /\ sway_resync' = FALSE
      /\ sway_untold' = (sway_untold \cup Sw!Differ(sway_state, sway_state')) \ Sw!SwayArea
      /\ UNCHANGED <<sway, sway_lost, sway_state>>
  BY DEF Sw!StreamEnds, Sw!Return
<1>3. sway_untold = {} /\ sway_untold' = {}
  BY <1>1, <1>2 DEF SwayTyped, Asking, Sw!Differ
<1>4. SwayTyped'
  BY <1>1, <1>2, <1>3, NoneWaits DEF SwayTyped
<1>5. Asking'
  BY <1>1, <1>2 DEF Asking
<1>6. SwayInv'
  BY <1>2, <1>4, <1>5 DEF SwayInv
<1>7. Sw!Behind' = Sw!SwayArea
  BY <1>2, SwayBehindNext
<1>8. Sw!Behind \subseteq Sw!SwayArea
  <2>1. \A i \in DOMAIN sway_events : sway_events[i] \in SwayEvents
    BY <1>1 DEF SwayTyped
  <2>2. AboutSome(sway_events) \subseteq Sw!SwayArea
    BY <2>1, SwayAboutIs DEF AboutSome
  <2>3. Sw!Tree \subseteq Sw!SwayArea
    BY DEF Sw!Tree, Sw!SwayArea
  <2> QED BY <1>1, <1>2, <2>2, <2>3, BehindIs DEF SwayBehindNow, SwayTyped
<1>9. UNCHANGED <<[a \in Sw!SwayArea |-> sway_state[a]], sway_untold>>
  BY <1>2, <1>3
<1> QED BY <1>2, <1>6, <1>7, <1>8, <1>9 DEF Sw!View!WorldMoves, Sw!View!Differ

\* The start satisfies Sway's invariant and the view's initial states.
LEMMA SwayStarts == ASSUME Sw!Init PROVE SwayInv /\ Sw!View!Init
<1> DEFINE none == [w \in {} |-> 0]
           title == [w \in SwayWin |-> 0]
           place == CHOOSE p \in SwayWorkspace : TRUE
<1>1. /\ sway = [wins |-> {}, title |-> title, focus |-> NoSwayWin, place |-> place, outputs |-> SwayOutput]
      /\ sway_state = [windows |-> none, focus |-> NoSwayWin, focus_title |-> 0, workspaces |-> sway.place, monitors |-> sway.outputs]
      /\ sway_events = <<>> /\ sway_step = "idle" /\ sway_changed = {} /\ sway_resync = FALSE
      /\ sway_untold = {} /\ sway_lost = {} /\ sway_ended = FALSE
  BY DEF Sw!Init
<1>2. place \in Somewhere /\ title \in [SwayWin -> Texts] /\ 0 \in Texts /\ NoSwayWin \in Maybe
  BY DEF Somewhere, Texts, Maybe
<1>3. none \in Lists
  <2>1. none \in [{} -> Texts] /\ {} \in SUBSET SwayWin
    OBVIOUS
  <2> HIDE DEF none
  <2> QED BY <2>1 DEF Lists
<1>4. SwayTitles(sway) = none
  BY <1>1 DEF SwayTitles
<1> HIDE DEF none, title, place
<1>5. sway \in Worlds
  BY <1>1, <1>2 DEF Worlds
<1>6. sway_state \in States
  BY <1>1, <1>2, <1>3 DEF States
<1>7. WellFocused(sway)
  BY <1>1 DEF WellFocused
<1>8. SwayTyped /\ Asking
  BY <1>1, <1>5, <1>6, <1>7, NoneWaits DEF SwayTyped, Asking
<1>9. TreeFollows(sway_state, sway_events, sway)
  BY <1>1, <1>4, <1>5, <1>6, <1>7, NoneWaits, AnswerFollows
<1>10. PlacesFollow(sway_state, sway_events, sway, sway_lost)
  BY <1>1 DEF PlacesFollow, WorldOf, Sw!Places
<1>11. SwayInv
  BY <1>1, <1>8, <1>9, <1>10, NoneWaits DEF SwayInv
<1>12. Sw!Behind = {}
  BY <1>1, BehindIs, NoneWaits DEF SwayBehindNow
<1>13. Sw!View!Init
  BY <1>1, <1>4, <1>12 DEF Sw!View!Init, Sw!SwayArea, SwayTitles
<1> QED BY <1>11, <1>13

\* Every step keeps Sway's invariant and is a step of the view.
LEMMA SwayGoesOn == ASSUME SwayInv, [Sw!Next]_(Sw!swayVars) PROVE SwayInv' /\ [Sw!View!Next]_(Sw!View!viewVars)
<1>1. CASE Sw!World
  BY <1>1, SwayWorldStep DEF Sw!View!Next
<1>2. CASE Sw!ReadEvents
  BY <1>2, ReadStep DEF Sw!View!Next
<1>3. CASE Sw!RefreshWorkspaces
  BY <1>3, SwayRefreshWorkspacesStep DEF Sw!View!Next
<1>4. CASE Sw!RefreshWindows
  BY <1>4, SwayRefreshWindowsStep DEF Sw!View!Next
<1>5. CASE Sw!QueryFails
  BY <1>5, SwayQueryFailsStep DEF Sw!View!Next
<1>6. CASE Sw!StreamEnds
  BY <1>6, StreamEndsStep DEF Sw!View!Next
<1>7. CASE UNCHANGED Sw!swayVars
  <2>1. UNCHANGED <<sway, sway_events, sway_state, sway_step, sway_changed, sway_resync, sway_untold, sway_lost, sway_ended>>
    BY <1>7 DEF Sw!swayVars
  <2>2. SwayTyped' /\ Asking'
    BY <2>1 DEF SwayInv, SwayTyped, Asking
  <2>3. SwayInv'
    BY <2>1, <2>2 DEF SwayInv
  <2>4. Sw!Behind' = Sw!Behind
    BY <2>1 DEF Sw!Behind
  <2>5. UNCHANGED Sw!View!viewVars
    BY <2>1, <2>4 DEF Sw!View!viewVars
  <2> QED BY <2>3, <2>5
<1> QED BY <1>1, <1>2, <1>3, <1>4, <1>5, <1>6, <1>7 DEF Sw!Next, Sw!UpdateState

\* Sway's invariant gives its types.
LEMMA SwayPromises == ASSUME SwayInv PROVE Sw!TypeOK
<1>1. SwayTyped /\ sway_state.windows \in Lists /\ sway_state.focus \in Maybe
  BY DEF SwayInv, SwayTyped, States
<1>2. Sw!Listed(sway_state) \subseteq SwayWin
  BY <1>1, ListIs DEF Sw!Listed
<1>3. sway_untold \subseteq Sw!SwayArea
  BY <1>1 DEF SwayTyped
<1> QED BY <1>1, <1>2, <1>3 DEF SwayTyped, Sw!TypeOK, Maybe

\* On Sway the bridge has its types and implements CompositorView: what is shown differs from
\* the compositor's state only in areas some event or query still stands for.
THEOREM SwayFollows == Sw!Spec => []Sw!TypeOK /\ Sw!ImplementsView
<1>1. Sw!Init => SwayInv /\ Sw!View!Init
  BY SwayStarts
<1>2. SwayInv /\ [Sw!Next]_(Sw!swayVars) => SwayInv' /\ [Sw!View!Next]_(Sw!View!viewVars)
  BY SwayGoesOn
<1>3. SwayInv => Sw!TypeOK
  BY SwayPromises
<1> QED BY <1>1, <1>2, <1>3, PTL DEF Sw!Spec, Sw!ImplementsView, Sw!View!Spec

-----------------------------------------------------------------------------
(* Niri (Niri.tla).                                                         *)

NiriWins == NiriWin \cup {NoNiriWin}

\* Every output that has workspaces has an active one.
Tiled(spaces, active) == active \subseteq spaces /\ \A p \in spaces : \E q \in active : OutputOf[q] = OutputOf[p]

NiriStates == [wins : SUBSET NiriWin, named : SUBSET NiriWin, focus : NiriWins, spaces : SUBSET NiriSpace,
               active : SUBSET NiriSpace, urgent : SUBSET NiriSpace, overview : BOOLEAN]
NiriWorlds == {s \in NiriStates : Tiled(s.spaces, s.active)}
Layouts == [spaces : SUBSET NiriSpace, active : SUBSET NiriSpace, urgent : SUBSET NiriSpace]
NiriKinds == {"window_opened", "window_closed", "window_focused", "activated", "urgency", "workspaces", "overview"}

\* An event has a kind, and about what it is of that kind.
IsEvent(e) ==
  /\ e = [kind |-> e.kind, arg |-> e.arg] /\ e.kind \in NiriKinds
  /\ e.kind = "window_opened" => e.arg.id \in NiriWin
  /\ e.kind = "window_closed" => e.arg \in NiriWin
  /\ e.kind = "window_focused" => e.arg \in NiriWins
  /\ e.kind \in {"activated", "urgency"} => e.arg.id \in NiriSpace
  /\ e.kind = "workspaces" => e.arg \in Layouts /\ Tiled(e.arg.spaces, e.arg.active)
  /\ e.kind = "overview" => e.arg.open \in BOOLEAN

\* Two states of niri that are alike in an area.
AlikeIn(a, s, t) ==
  /\ a = "windows" => s.named = t.named
  /\ a = "focus" => s.focus = t.focus
  /\ a = "workspaces" => s.spaces = t.spaces /\ s.active = t.active /\ s.urgent = t.urgent
  /\ a = "monitors" => s.spaces = t.spaces
  /\ a = "overview" => s.overview = t.overview

\* What windows have a name, which has the focus, and which workspaces are urgent after an event.
NamedBy(e, n) == IF e.arg.named THEN n \cup {e.arg.id} ELSE n \ {e.arg.id}
FocusedBy(e, f) == IF e.arg.focused THEN e.arg.id ELSE f
UrgentBy(e, u) == IF e.arg.urgent THEN u \cup {e.arg.id} ELSE u \ {e.arg.id}

\* What a replayed event makes of a state.
Replays(s, e, t) ==
  /\ t \in NiriWorlds
  /\ \A a \in Ni!NiriArea : a \notin Ni!EventMask(e) => AlikeIn(a, s, t)
  /\ e.kind = "window_opened" => /\ t.named = NamedBy(e, s.named)
                                 /\ t.focus = FocusedBy(e, s.focus)
  /\ e.kind = "window_closed" => /\ t.named = s.named \ {e.arg}
                                 /\ t.focus = IF s.focus = e.arg THEN NoNiriWin ELSE s.focus
  /\ e.kind = "window_focused" => t.named = s.named /\ t.focus = e.arg
  /\ e.kind = "activated" => /\ t.spaces = s.spaces /\ t.urgent = s.urgent
                             /\ t.active = {p \in s.active : OutputOf[p] # OutputOf[e.arg.id]} \cup {e.arg.id}
  /\ e.kind = "urgency" => /\ t.spaces = s.spaces /\ t.active = s.active
                           /\ t.urgent = UrgentBy(e, s.urgent)
  /\ e.kind = "workspaces" => t.spaces = e.arg.spaces /\ t.active = e.arg.active /\ t.urgent = e.arg.urgent
  /\ e.kind = "overview" => t.overview = e.arg.open

\* What replaying an accepted event does, by cases of the event.
LEMMA ReplayIs == \A s \in NiriWorlds : \A e : IsEvent(e) /\ Ni!Accepts(s, e) => Replays(s, e, Ni!Replay(s, e))
<1> SUFFICES ASSUME NEW s \in NiriWorlds, NEW e, IsEvent(e), Ni!Accepts(s, e) PROVE Replays(s, e, Ni!Replay(s, e))
  OBVIOUS
<1>0. s \in NiriStates /\ Tiled(s.spaces, s.active) /\ e.kind \in NiriKinds
  BY DEF NiriWorlds, IsEvent
<1>1. CASE e.kind = "window_opened"
  <2> DEFINE w == e.arg.id
             n == IF e.arg.named THEN s.named \cup {w} ELSE s.named \ {w}
             f == IF e.arg.focused THEN w ELSE s.focus
             v == s.wins \cup {w}
             t == [s EXCEPT !.wins = v, !.focus = f, !.named = n]
  <2>1. Ni!Replay(s, e) = t
    BY <1>1 DEF Ni!Replay, Ni!WindowOpened
  <2>2. w \in NiriWin
    BY <1>1 DEF IsEvent
  <2>3. n \in SUBSET NiriWin /\ f \in NiriWins /\ v \in SUBSET NiriWin
    BY <1>0, <2>2 DEF NiriStates, NiriWins
  <2>4. Ni!EventMask(e) = {"windows", "focus"}
    BY <1>1 DEF Ni!EventMask
  <2>7. n = NamedBy(e, s.named) /\ f = FocusedBy(e, s.focus)
    BY DEF NamedBy, FocusedBy
  <2> HIDE DEF n, f, v
  <2>5. /\ t \in NiriStates /\ t.named = n /\ t.focus = f /\ t.spaces = s.spaces /\ t.active = s.active
        /\ t.urgent = s.urgent /\ t.overview = s.overview
    BY <1>0, <2>3 DEF NiriStates
  <2> HIDE DEF t
  <2>6. t \in NiriWorlds
    BY <1>0, <2>5 DEF NiriWorlds
  <2> QED BY <1>1, <2>1, <2>4, <2>5, <2>6, <2>7 DEF Replays, AlikeIn
<1>2. CASE e.kind = "window_closed"
  <2> DEFINE w == e.arg
             n == s.named \ {w}
             f == IF s.focus = w THEN NoNiriWin ELSE s.focus
             v == s.wins \ {w}
             t == [s EXCEPT !.wins = v, !.named = n, !.focus = f]
  <2>1. Ni!Replay(s, e) = t
    BY <1>2 DEF Ni!Replay, Ni!WindowClosed
  <2>3. n \in SUBSET NiriWin /\ f \in NiriWins /\ v \in SUBSET NiriWin
    BY <1>0 DEF NiriStates, NiriWins
  <2>4. Ni!EventMask(e) = {"windows", "focus"}
    BY <1>2 DEF Ni!EventMask
  <2>7. n = s.named \ {e.arg} /\ f = IF s.focus = e.arg THEN NoNiriWin ELSE s.focus
    OBVIOUS
  <2> HIDE DEF n, f, v
  <2>5. /\ t \in NiriStates /\ t.named = n /\ t.focus = f /\ t.spaces = s.spaces /\ t.active = s.active
        /\ t.urgent = s.urgent /\ t.overview = s.overview
    BY <1>0, <2>3 DEF NiriStates
  <2> HIDE DEF t
  <2>6. t \in NiriWorlds
    BY <1>0, <2>5 DEF NiriWorlds
  <2> QED BY <1>2, <2>1, <2>4, <2>5, <2>6, <2>7 DEF Replays, AlikeIn
<1>3. CASE e.kind = "window_focused"
  <2> DEFINE f == e.arg
             t == [s EXCEPT !.focus = f]
  <2>1. Ni!Replay(s, e) = t
    BY <1>3 DEF Ni!Replay
  <2>3. f \in NiriWins
    BY <1>3 DEF IsEvent
  <2>4. Ni!EventMask(e) = {"windows", "focus"}
    BY <1>3 DEF Ni!EventMask
  <2>5. /\ t \in NiriStates /\ t.named = s.named /\ t.focus = f /\ t.spaces = s.spaces /\ t.active = s.active
        /\ t.urgent = s.urgent /\ t.overview = s.overview
    BY <1>0, <2>3 DEF NiriStates
  <2> HIDE DEF t
  <2>6. t \in NiriWorlds
    BY <1>0, <2>5 DEF NiriWorlds
  <2> QED BY <1>3, <2>1, <2>4, <2>5, <2>6 DEF Replays, AlikeIn
<1>4. CASE e.kind = "activated"
  <2> DEFINE p == e.arg.id
             on == {q \in s.active : OutputOf[q] # OutputOf[p]} \cup {p}
             t == [s EXCEPT !.active = on]
  <2>1. Ni!Replay(s, e) = t
    BY <1>4 DEF Ni!Replay, Ni!Activated
  <2>2. p \in NiriSpace /\ p \in s.spaces
    BY <1>4 DEF IsEvent, Ni!Accepts
  <2>3. on \in SUBSET NiriSpace
    BY <1>0, <2>2 DEF NiriStates
  <2>8. Tiled(s.spaces, on)
    BY <1>0, <2>2 DEF Tiled
  <2>4. Ni!EventMask(e) = {"workspaces"}
    BY <1>4 DEF Ni!EventMask
  <2>7. on = {q \in s.active : OutputOf[q] # OutputOf[e.arg.id]} \cup {e.arg.id}
    OBVIOUS
  <2> HIDE DEF on
  <2>5. /\ t \in NiriStates /\ t.named = s.named /\ t.focus = s.focus /\ t.spaces = s.spaces /\ t.active = on
        /\ t.urgent = s.urgent /\ t.overview = s.overview
    BY <1>0, <2>3 DEF NiriStates
  <2> HIDE DEF t
  <2>6. t \in NiriWorlds
    BY <2>5, <2>8 DEF NiriWorlds
  <2> QED BY <1>4, <2>1, <2>4, <2>5, <2>6, <2>7 DEF Replays, AlikeIn
<1>5. CASE e.kind = "urgency"
  <2> DEFINE u == IF e.arg.urgent THEN s.urgent \cup {e.arg.id} ELSE s.urgent \ {e.arg.id}
             t == [s EXCEPT !.urgent = u]
  <2>1. Ni!Replay(s, e) = t
    BY <1>5 DEF Ni!Replay
  <2>2. e.arg.id \in NiriSpace
    BY <1>5 DEF IsEvent
  <2>3. u \in SUBSET NiriSpace
    BY <1>0, <2>2 DEF NiriStates
  <2>4. Ni!EventMask(e) = {"workspaces"}
    BY <1>5 DEF Ni!EventMask
  <2>7. u = UrgentBy(e, s.urgent)
    BY DEF UrgentBy
  <2> HIDE DEF u
  <2>5. /\ t \in NiriStates /\ t.named = s.named /\ t.focus = s.focus /\ t.spaces = s.spaces /\ t.active = s.active
        /\ t.urgent = u /\ t.overview = s.overview
    BY <1>0, <2>3 DEF NiriStates
  <2> HIDE DEF t
  <2>6. t \in NiriWorlds
    BY <1>0, <2>5 DEF NiriWorlds
  <2> QED BY <1>5, <2>1, <2>4, <2>5, <2>6, <2>7 DEF Replays, AlikeIn
<1>6. CASE e.kind = "workspaces"
  <2> DEFINE l == e.arg
             t == [s EXCEPT !.spaces = l.spaces, !.active = l.active, !.urgent = l.urgent]
  <2>1. Ni!Replay(s, e) = t
    BY <1>6 DEF Ni!Replay
  <2>2. l \in Layouts /\ Tiled(l.spaces, l.active)
    BY <1>6 DEF IsEvent
  <2>3. l.spaces \in SUBSET NiriSpace /\ l.active \in SUBSET NiriSpace /\ l.urgent \in SUBSET NiriSpace
    BY <2>2 DEF Layouts
  <2>4. Ni!EventMask(e) = {"workspaces", "monitors"}
    BY <1>6 DEF Ni!EventMask
  <2>5. /\ t \in NiriStates /\ t.named = s.named /\ t.focus = s.focus /\ t.spaces = l.spaces /\ t.active = l.active
        /\ t.urgent = l.urgent /\ t.overview = s.overview
    BY <1>0, <2>3 DEF NiriStates
  <2> HIDE DEF t
  <2>6. t \in NiriWorlds
    BY <2>2, <2>5 DEF NiriWorlds
  <2> QED BY <1>6, <2>1, <2>4, <2>5, <2>6 DEF Replays, AlikeIn
<1>7. CASE e.kind = "overview"
  <2> DEFINE o == e.arg.open
             t == [s EXCEPT !.overview = o]
  <2>1. Ni!Replay(s, e) = t
    BY <1>7 DEF Ni!Replay
  <2>3. o \in BOOLEAN
    BY <1>7 DEF IsEvent
  <2>4. Ni!EventMask(e) = {"overview"}
    BY <1>7 DEF Ni!EventMask
  <2>5. /\ t \in NiriStates /\ t.named = s.named /\ t.focus = s.focus /\ t.spaces = s.spaces /\ t.active = s.active
        /\ t.urgent = s.urgent /\ t.overview = o
    BY <1>0, <2>3 DEF NiriStates
  <2> HIDE DEF t
  <2>6. t \in NiriWorlds
    BY <1>0, <2>5 DEF NiriWorlds
  <2> QED BY <1>7, <2>1, <2>4, <2>5, <2>6 DEF Replays, AlikeIn
<1> QED BY <1>0, <1>1, <1>2, <1>3, <1>4, <1>5, <1>6, <1>7 DEF NiriKinds

NiriRan(b, s) == Ni!FoldLeft(Ni!Accept, b, s)
NiriSteady(R, N, s) == \A r \in R, i \in 1..N : Ni!Accept(r, s[i]) \in R
NiriRunsOver(run, R, b, N, s) == run \in [0..N -> R] /\ run[0] = b /\ NiriRan(b, s) = run[N] /\ \A i \in 1..N : run[i] = Ni!Accept(run[i - 1], s[i])

\* A fold of events is a run over them.
LEMMA NiriRunsThereAre == \A R, b, N, s : b \in R /\ N \in Nat /\ DOMAIN s = 1..N /\ NiriSteady(R, N, s) => \E run : NiriRunsOver(run, R, b, N, s)
<1> SUFFICES ASSUME NEW R, NEW b \in R, NEW N \in Nat, NEW s, DOMAIN s = 1..N, NiriSteady(R, N, s)
             PROVE  \E run : NiriRunsOver(run, R, b, N, s)
  OBVIOUS
<1>0. \A r \in R, i \in 1..N : Ni!Accept(r, s[i]) \in R
  BY DEF NiriSteady
<1> DEFINE Fits(it) == it = [x \in SUBSET (DOMAIN s) |-> IF x = {} THEN b ELSE Ni!Accept(it[x \ {Max(x)}], s[Max(x)])]
           step == [p \in R \X (1..N) |-> Ni!Accept(p[1], s[p[2]])]
           iter == CHOOSE it : Fits(it)
           run == [k \in 0..N |-> iter[1..k]]
<1>1. step \in [R \X (1..N) -> R] /\ \A r \in R, i \in 1..N : step[<<r, i>>] = Ni!Accept(r, s[i])
  BY <1>0
<1> HIDE DEF step
<1>2. \A x \in SUBSET (1..N) : x # {} => Max(x) \in 1..N
  <2> SUFFICES ASSUME NEW x \in SUBSET (1..N), x # {} PROVE Max(x) \in 1..N
    OBVIOUS
  <2>1. Max(x) \in x
    BY GreatestOf
  <2> QED BY <2>1
<1>3. PICK it \in [SUBSET (1..N) -> R] : IsFold(it, b, N, step)
  BY <1>1, FoldsThereAre
<1>4. Fits(it)
  <2>1. \A x \in SUBSET (1..N) : it[x] = IF x = {} THEN b ELSE Ni!Accept(it[x \ {Max(x)}], s[Max(x)])
    <3> SUFFICES ASSUME NEW x \in SUBSET (1..N), x # {} PROVE it[x] = Ni!Accept(it[x \ {Max(x)}], s[Max(x)])
      BY <1>3 DEF IsFold
    <3>1. x \ {Max(x)} \in SUBSET (1..N) /\ Max(x) \in 1..N
      BY <1>2
    <3> QED BY <1>1, <1>3, <3>1 DEF IsFold
  <2> QED BY <2>1
<1>5. Fits(iter)
  <2> HIDE DEF Fits
  <2> QED BY <1>4
<1>6. iter[{}] = b
  BY <1>5
<1>7. \A k \in 1..N : iter[1..k] = Ni!Accept(iter[1..k - 1], s[k])
  <2> SUFFICES ASSUME NEW k \in 1..N PROVE iter[1..k] = Ni!Accept(iter[1..k - 1], s[k])
    OBVIOUS
  <2>1. k \in Nat \ {0} /\ (1..k) \in SUBSET (1..N) /\ k \in 1..k /\ 1..k # {} /\ (1..k) \ {k} = 1..k - 1
    <3>1. k \in Nat \ {0} /\ k <= N
      OBVIOUS
    <3>2. (1..k) \in SUBSET (1..N) /\ k \in 1..k
      BY <3>1
    <3>3. (1..k) \ {k} = 1..k - 1
      BY <3>1
    <3> QED BY <3>1, <3>2, <3>3
  <2>2. Max(1..k) = k
    BY <2>1, MaxIs
  <2> QED BY <1>5, <2>1, <2>2
<1>8. NiriRan(b, s) = iter[1..N]
  BY DEF NiriRan, Ni!FoldLeft, Ni!MapThenFoldSet, Ni!Max, Max
<1> HIDE DEF iter
<1>9. run \in [0..N -> R]
  <2>1. \A k \in 1..N : iter[1..k - 1] \in R => iter[1..k] \in R
    BY <1>0, <1>7
  <2> QED BY <1>6, <2>1, PrefixesRun
<1>10. run[0] = b /\ run[N] = iter[1..N]
  <2>1. 1..0 = {}
    OBVIOUS
  <2> QED BY <1>6, <2>1
<1>11. \A i \in 1..N : run[i] = Ni!Accept(run[i - 1], s[i])
  BY <1>7
<1> HIDE DEF run
<1>12. NiriRunsOver(run, R, b, N, s)
  BY <1>8, <1>9, <1>10, <1>11 DEF NiriRunsOver
<1> QED BY <1>12

NiriEvents ==
  {Ni!Event("window_opened", a) : a \in [id : NiriWin, named : BOOLEAN, focused : BOOLEAN]}
  \cup {Ni!Event("window_closed", w) : w \in NiriWin}
  \cup {Ni!Event("window_focused", w) : w \in NiriWins}
  \cup {Ni!Event("activated", a) : a \in [id : NiriSpace]}
  \cup {Ni!Event("urgency", a) : a \in [id : NiriSpace, urgent : BOOLEAN]}
  \cup {Ni!Event("workspaces", l) : l \in {k \in Layouts : Tiled(k.spaces, k.active)}}
  \cup {Ni!Event("overview", a) : a \in [open : BOOLEAN]}
NiriResults == [state : NiriWorlds, changed : SUBSET Ni!NiriArea]
NiriBase(x) == [state |-> x, changed |-> {}]
NiriFolded(x, E) == NiriRan(NiriBase(x), E)

\* The events of the stream are events, about areas of the view.
LEMMA NiriEventIs == \A e \in NiriEvents : IsEvent(e) /\ Ni!EventMask(e) \subseteq Ni!NiriArea
<1> SUFFICES ASSUME NEW e \in NiriEvents PROVE IsEvent(e)
  BY DEF IsEvent, Ni!EventMask, NiriKinds, Ni!NiriArea
<1>1. CASE \E a \in [id : NiriWin, named : BOOLEAN, focused : BOOLEAN] : e = Ni!Event("window_opened", a)
  BY <1>1 DEF Ni!Event, IsEvent, NiriKinds
<1>2. CASE \E w \in NiriWin : e = Ni!Event("window_closed", w)
  BY <1>2 DEF Ni!Event, IsEvent, NiriKinds
<1>3. CASE \E w \in NiriWins : e = Ni!Event("window_focused", w)
  BY <1>3 DEF Ni!Event, IsEvent, NiriKinds
<1>4. CASE \E a \in [id : NiriSpace] : e = Ni!Event("activated", a)
  BY <1>4 DEF Ni!Event, IsEvent, NiriKinds
<1>5. CASE \E a \in [id : NiriSpace, urgent : BOOLEAN] : e = Ni!Event("urgency", a)
  BY <1>5 DEF Ni!Event, IsEvent, NiriKinds
<1>6. CASE \E l \in {k \in Layouts : Tiled(k.spaces, k.active)} : e = Ni!Event("workspaces", l)
  BY <1>6 DEF Ni!Event, IsEvent, NiriKinds
<1>7. CASE \E a \in [open : BOOLEAN] : e = Ni!Event("overview", a)
  BY <1>7 DEF Ni!Event, IsEvent, NiriKinds
<1> QED BY <1>1, <1>2, <1>3, <1>4, <1>5, <1>6, <1>7 DEF NiriEvents

\* An event that is taken changes what its mask names, and one that is not, nothing.
NiriTakes(r, e, q) ==
  /\ q \in NiriResults /\ r.changed \subseteq q.changed /\ q.changed \subseteq r.changed \cup Ni!EventMask(e)
  /\ Ni!Accepts(r.state, e) => Replays(r.state, e, q.state) /\ q.changed = r.changed \cup Ni!EventMask(e)
  /\ ~Ni!Accepts(r.state, e) => q = r

\* What accepting an event does, by cases of the event.
LEMMA AcceptIs == \A r \in NiriResults, e \in NiriEvents : NiriTakes(r, e, Ni!Accept(r, e))
<1> SUFFICES ASSUME NEW r \in NiriResults, NEW e \in NiriEvents PROVE NiriTakes(r, e, Ni!Accept(r, e))
  OBVIOUS
<1>1. IsEvent(e) /\ Ni!EventMask(e) \subseteq Ni!NiriArea
  BY NiriEventIs
<1>2. r.state \in NiriWorlds /\ r.changed \in SUBSET Ni!NiriArea
  BY DEF NiriResults
<1>3. CASE Ni!Accepts(r.state, e)
  <2> DEFINE x == Ni!Replay(r.state, e)
             m == Ni!EventMask(e)
  <2>1. Replays(r.state, e, x)
    BY <1>1, <1>2, <1>3, ReplayIs
  <2>2. x \in NiriWorlds
    BY <2>1 DEF Replays
  <2>3. Ni!Accept(r, e) = [state |-> x, changed |-> r.changed \cup m]
    BY <1>3 DEF Ni!Accept
  <2> HIDE DEF x
  <2>4. m \subseteq Ni!NiriArea
    BY <1>1
  <2> HIDE DEF m
  <2>5. /\ Ni!Accept(r, e) \in NiriResults /\ Ni!Accept(r, e).state = x /\ Ni!Accept(r, e).changed = r.changed \cup m
    BY <1>2, <2>2, <2>3, <2>4 DEF NiriResults
  <2> QED BY <1>3, <2>1, <2>5 DEF NiriTakes, m
<1>4. CASE ~Ni!Accepts(r.state, e)
  <2>1. Ni!Accept(r, e) = r
    BY <1>4 DEF Ni!Accept
  <2> QED BY <1>4, <2>1 DEF NiriTakes
<1> QED BY <1>3, <1>4

\* A batch of lines starts with nothing changed.
LEMMA NiriBaseIs == \A x \in NiriWorlds : NiriBase(x) \in NiriResults /\ NiriBase(x).state = x /\ NiriBase(x).changed = {}
BY DEF NiriBase, NiriResults

\* The run over the events.
NiriIsRun(run, x, E) ==
  /\ run \in [0..Len(E) -> NiriResults] /\ run[0] = NiriBase(x) /\ NiriFolded(x, E) = run[Len(E)]
  /\ \A i \in 1..Len(E) : run[i] = Ni!Accept(run[i - 1], E[i]) /\ NiriTakes(run[i - 1], E[i], run[i])

\* Reading the lines is a run of one step per line.
LEMMA NiriRunThereIs == \A x \in NiriWorlds, E \in Seq(NiriEvents) : \E run : NiriIsRun(run, x, E)
<1> SUFFICES ASSUME NEW x \in NiriWorlds, NEW E \in Seq(NiriEvents) PROVE \E run : NiriIsRun(run, x, E)
  OBVIOUS
<1> DEFINE N == Len(E)
           b == NiriBase(x)
<1>1. N \in Nat /\ DOMAIN E = 1..N /\ \A i \in 1..N : E[i] \in NiriEvents
  OBVIOUS
<1>2. b \in NiriResults
  BY NiriBaseIs
<1>3. NiriFolded(x, E) = NiriRan(b, E)
  BY DEF NiriFolded
<1>4. \A r \in NiriResults, i \in 1..N : Ni!Accept(r, E[i]) \in NiriResults /\ NiriTakes(r, E[i], Ni!Accept(r, E[i]))
  <2> SUFFICES ASSUME NEW r \in NiriResults, NEW i \in 1..N
               PROVE  Ni!Accept(r, E[i]) \in NiriResults /\ NiriTakes(r, E[i], Ni!Accept(r, E[i]))
    OBVIOUS
  <2>1. E[i] \in NiriEvents
    BY <1>1
  <2>2. NiriTakes(r, E[i], Ni!Accept(r, E[i]))
    BY <2>1, AcceptIs
  <2> DEFINE q == Ni!Accept(r, E[i])
  <2> HIDE DEF q
  <2>3. NiriTakes(r, E[i], q) => q \in NiriResults
    BY DEF NiriTakes
  <2> QED BY <2>2, <2>3 DEF q
<1> HIDE DEF b, N
<1>8. \A r \in NiriResults, i \in 1..N : Ni!Accept(r, E[i]) \in NiriResults
  BY <1>4
<1>9. NiriSteady(NiriResults, N, E)
  BY <1>8 DEF NiriSteady
<1>10. \E run : NiriRunsOver(run, NiriResults, b, N, E)
  BY <1>1, <1>2, <1>9, NiriRunsThereAre
<1>5. PICK run \in [0..N -> NiriResults] :
        run[0] = b /\ NiriRan(b, E) = run[N] /\ \A i \in 1..N : run[i] = Ni!Accept(run[i - 1], E[i])
  BY <1>10 DEF NiriRunsOver
<1>6. \A i \in 1..N : run[i - 1] \in NiriResults
  BY <1>1
<1>7. NiriIsRun(run, x, E)
  BY <1>3, <1>4, <1>5, <1>6 DEF NiriIsRun, b, N
<1> QED BY <1>7

\* One event more.
LEMMA NiriFoldJoins == \A x \in NiriWorlds, E \in Seq(NiriEvents), e \in NiriEvents :
  /\ NiriFolded(x, E) \in NiriResults /\ NiriFolded(x, Append(E, e)) = Ni!Accept(NiriFolded(x, E), e)
  /\ NiriTakes(NiriFolded(x, E), e, NiriFolded(x, Append(E, e)))
<1> SUFFICES ASSUME NEW x \in NiriWorlds, NEW E \in Seq(NiriEvents), NEW e \in NiriEvents
             PROVE  /\ NiriFolded(x, E) \in NiriResults /\ NiriFolded(x, Append(E, e)) = Ni!Accept(NiriFolded(x, E), e)
  BY AcceptIs
<1> DEFINE N == Len(E)
           F == Append(E, e)
<1>1. PICK f : NiriIsRun(f, x, E)
  BY NiriRunThereIs
<1>2. F \in Seq(NiriEvents) /\ Len(F) = N + 1 /\ F[N + 1] = e /\ N \in Nat /\ \A i \in 1..N : F[i] = E[i]
  OBVIOUS
<1>3. PICK g : NiriIsRun(g, x, F)
  BY <1>2, NiriRunThereIs
<1>7. N \in Nat
  OBVIOUS
<1> HIDE DEF F, N
<1>4. g[0] = f[0] /\ \A i \in 1..N : (g[i - 1] = f[i - 1] => g[i] = f[i])
  <2>1. \A i \in 1..N : i \in 1..N + 1
    BY <1>7
  <2> QED BY <1>1, <1>2, <1>3, <2>1 DEF NiriIsRun, N
<1>8. g[0] = f[0]
  BY <1>4
<1>9. \A i \in 1..N : g[i - 1] = f[i - 1] => g[i] = f[i]
  BY <1>4
<1>5. \A i \in 0..N : g[i] = f[i]
  BY <1>7, <1>8, <1>9, Alike
<1>6. g[N] = f[N] /\ g[N + 1] = Ni!Accept(g[N], e)
  <2>1. N + 1 \in 1..N + 1 /\ (N + 1) - 1 = N /\ N \in 0..N
    BY <1>2
  <2> QED BY <1>2, <1>3, <1>5, <2>1 DEF NiriIsRun
<1> QED BY <1>1, <1>2, <1>3, <1>6 DEF NiriIsRun, F

\* What the events change is what their masks name.
MaskOf(E) == UNION {Ni!EventMask(E[i]) : i \in DOMAIN E}
NiriSofar(x, E, r) == r.changed \subseteq MaskOf(E) /\ \A a \in Ni!NiriArea : a \notin r.changed => AlikeIn(a, x, r.state)

\* Being alike in an area is reflexive, symmetric and transitive.
LEMMA AlikeGoes == \A a, s, t, u : AlikeIn(a, s, s) /\ (AlikeIn(a, s, t) => AlikeIn(a, t, s)) /\ (AlikeIn(a, s, t) /\ AlikeIn(a, t, u) => AlikeIn(a, s, u))
BY DEF AlikeIn

\* The fold over the lines is what has been gathered at their end.
LEMMA NiriFoldedIs == \A x \in NiriWorlds, E \in Seq(NiriEvents) : NiriFolded(x, E) \in NiriResults /\ NiriSofar(x, E, NiriFolded(x, E))
<1> SUFFICES ASSUME NEW x \in NiriWorlds, NEW E \in Seq(NiriEvents)
             PROVE  NiriFolded(x, E) \in NiriResults /\ NiriSofar(x, E, NiriFolded(x, E))
  OBVIOUS
<1> DEFINE N == Len(E)
<1>1. PICK run : NiriIsRun(run, x, E)
  BY NiriRunThereIs
<1>2. N \in Nat /\ DOMAIN E = 1..N /\ \A i \in 1..N : i - 1 \in 0..N
  OBVIOUS
<1>3. \A i \in 0..N : run[i] \in NiriResults
  BY <1>1, <1>2 DEF NiriIsRun
<1> HIDE DEF N
<1> DEFINE S == {i \in 0..N : NiriSofar(x, E, run[i])}
<1>4. 0 \in S
  <2>1. run[0].state = x /\ run[0].changed = {} /\ 0 \in 0..N
    BY <1>1, <1>2, NiriBaseIs DEF NiriIsRun
  <2> QED BY <2>1, AlikeGoes DEF NiriSofar
<1>5. ASSUME NEW i \in 1..N, i - 1 \in S PROVE i \in S
  <2> DEFINE r == run[i - 1]
             q == run[i]
  <2>1. NiriTakes(r, E[i], q) /\ NiriSofar(x, E, r) /\ i \in 0..N
    BY <1>1, <1>2, <1>5 DEF NiriIsRun, N
  <2>2. Ni!EventMask(E[i]) \subseteq MaskOf(E)
    BY <1>2 DEF MaskOf
  <2> HIDE DEF r, q
  <2>3. q.changed \subseteq MaskOf(E)
    BY <2>1, <2>2 DEF NiriTakes, NiriSofar
  <2>4. ASSUME NEW a \in Ni!NiriArea, a \notin q.changed PROVE AlikeIn(a, x, q.state)
    <3>1. a \notin r.changed /\ AlikeIn(a, x, r.state)
      BY <2>1, <2>4 DEF NiriTakes, NiriSofar
    <3>2. CASE Ni!Accepts(r.state, E[i])
      <4>1. a \notin Ni!EventMask(E[i]) /\ AlikeIn(a, r.state, q.state)
        BY <2>1, <2>4, <3>2 DEF NiriTakes, Replays
      <4> QED BY <3>1, <4>1, AlikeGoes
    <3>3. CASE ~Ni!Accepts(r.state, E[i])
      BY <2>1, <3>1, <3>3 DEF NiriTakes
    <3> QED BY <3>2, <3>3
  <2>5. NiriSofar(x, E, q)
    BY <2>3, <2>4 DEF NiriSofar
  <2> QED BY <2>1, <2>5 DEF q
<1> HIDE DEF S
<1>6. \A i \in 0..N : i \in S
  BY <1>2, <1>4, <1>5, UpTo
<1>7. N \in 0..N /\ NiriFolded(x, E) = run[N]
  BY <1>1, <1>2 DEF NiriIsRun, N
<1> QED BY <1>3, <1>6, <1>7 DEF S

NiriAgrees(f, s, lost) == \A a \in Ni!NiriArea \ lost : AlikeIn(a, f, s)

\* The inductive invariant: what the waiting events would make of what was
\* replayed is what is so, but for what was lost; and what is shown is derived
\* from what was replayed.
NiriTyped ==
  /\ niri \in NiriWorlds /\ replayed \in NiriWorlds /\ niri_events \in Seq(NiriEvents)
  /\ niri_state \in {Ni!Derived(s) : s \in NiriWorlds}
  /\ niri_untold = {} /\ niri_lost \subseteq Ni!NiriArea /\ niri_ended \in BOOLEAN

NiriInv ==
  /\ NiriTyped
  /\ niri_ended => niri_events = <<>>
  /\ ~niri_ended => niri_state = Ni!Derived(replayed) /\ NiriAgrees(NiriFolded(replayed, niri_events).state, niri, niri_lost)

\* Where two states of niri are alike, the same is shown of them.
LEMMA DerivedAlike == \A s, t \in NiriWorlds, a \in Ni!NiriArea : AlikeIn(a, s, t) => Ni!Derived(s)[a] = Ni!Derived(t)[a]
<1> SUFFICES ASSUME NEW s \in NiriWorlds, NEW t \in NiriWorlds, NEW a \in Ni!NiriArea, AlikeIn(a, s, t)
             PROVE  Ni!Derived(s)[a] = Ni!Derived(t)[a]
  OBVIOUS
<1>1. CASE a = "monitors"
  <2>1. s.spaces = t.spaces /\ Tiled(s.spaces, s.active) /\ Tiled(t.spaces, t.active)
    BY <1>1 DEF AlikeIn, NiriWorlds
  <2>2. {OutputOf[p] : p \in s.active} = {OutputOf[p] : p \in t.active}
    BY <2>1 DEF Tiled
  <2>3. Ni!ApplyMonitors(s) = Ni!ApplyMonitors(t)
    BY <2>2 DEF Ni!ApplyMonitors
  <2>4. Ni!Derived(s)["monitors"] = Ni!ApplyMonitors(s) /\ Ni!Derived(t)["monitors"] = Ni!ApplyMonitors(t)
    BY DEF Ni!Derived
  <2> QED BY <1>1, <2>3, <2>4
<1>2. CASE a = "windows"
  BY <1>2 DEF AlikeIn, Ni!Derived, Ni!ApplyWindows
<1>3. CASE a = "focus"
  BY <1>3 DEF AlikeIn, Ni!Derived, Ni!ApplyFocus
<1>4. CASE a = "workspaces"
  BY <1>4 DEF AlikeIn, Ni!Derived, Ni!ApplyWorkspaces
<1>5. CASE a = "overview"
  BY <1>5 DEF AlikeIn, Ni!Derived
<1> QED BY <1>1, <1>2, <1>3, <1>4, <1>5 DEF Ni!NiriArea

\* An event that can happen in a world is replayed as it happened.
LEMMA AlikeReplays == \A r, q \in NiriResults, s, t \in NiriWorlds, e \in NiriEvents, a \in Ni!NiriArea :
  NiriTakes(r, e, q) /\ Replays(s, e, t) /\ Ni!Accepts(s, e) /\ AlikeIn(a, r.state, s) => AlikeIn(a, q.state, t)
<1> SUFFICES ASSUME NEW r \in NiriResults, NEW q \in NiriResults, NEW s \in NiriWorlds, NEW t \in NiriWorlds,
                    NEW e \in NiriEvents, NEW a \in Ni!NiriArea,
                    NiriTakes(r, e, q), Replays(s, e, t), Ni!Accepts(s, e), AlikeIn(a, r.state, s)
             PROVE  AlikeIn(a, q.state, t)
  OBVIOUS
<1>1. IsEvent(e)
  BY NiriEventIs
<1>2. CASE a \notin Ni!EventMask(e)
  <2>1. AlikeIn(a, s, t)
    BY <1>2 DEF Replays
  <2>2. AlikeIn(a, r.state, q.state)
    <3>1. CASE Ni!Accepts(r.state, e)
      BY <1>2, <3>1 DEF NiriTakes, Replays
    <3>2. CASE ~Ni!Accepts(r.state, e)
      BY <3>2, AlikeGoes DEF NiriTakes
    <3> QED BY <3>1, <3>2
  <2> QED BY <2>1, <2>2, AlikeGoes
<1>3. CASE a \in Ni!EventMask(e)
  <2>1. Ni!Accepts(r.state, e)
    BY <1>3 DEF Ni!Accepts, Ni!EventMask, AlikeIn
  <2>2. Replays(r.state, e, q.state)
    BY <2>1 DEF NiriTakes
  <2> DEFINE x == r.state
             y == q.state
  <2> HIDE DEF x, y
  <2>3. Replays(x, e, y) /\ AlikeIn(a, x, s)
    BY <2>2 DEF x, y
  <2>4. CASE e.kind \in {"window_opened", "window_closed", "window_focused"}
    <3>1. a \in {"windows", "focus"}
      BY <1>3, <2>4 DEF Ni!EventMask
    <3>2. (a = "windows" /\ y.named = t.named) \/ (a = "focus" /\ y.focus = t.focus)
      <4>0. (a = "windows" => x.named = s.named) /\ (a = "focus" => x.focus = s.focus)
        BY <2>3 DEF AlikeIn
      <4>1. CASE e.kind = "window_opened"
        <5>1. /\ y.named = NamedBy(e, x.named) /\ y.focus = FocusedBy(e, x.focus)
              /\ t.named = NamedBy(e, s.named) /\ t.focus = FocusedBy(e, s.focus)
          BY <2>3, <4>1 DEF Replays
        <5> QED BY <3>1, <4>0, <5>1
      <4>2. CASE e.kind = "window_closed"
        <5>1. /\ y.named = x.named \ {e.arg} /\ y.focus = IF x.focus = e.arg THEN NoNiriWin ELSE x.focus
              /\ t.named = s.named \ {e.arg} /\ t.focus = IF s.focus = e.arg THEN NoNiriWin ELSE s.focus
          BY <2>3, <4>2 DEF Replays
        <5> QED BY <3>1, <4>0, <5>1
      <4>3. CASE e.kind = "window_focused"
        <5>1. y.named = x.named /\ y.focus = e.arg /\ t.named = s.named /\ t.focus = e.arg
          BY <2>3, <4>3 DEF Replays
        <5> QED BY <3>1, <4>0, <5>1
      <4> QED BY <2>4, <4>1, <4>2, <4>3
    <3>3. AlikeIn(a, y, t)
      BY <3>2 DEF AlikeIn
    <3> QED BY <3>3 DEF y
  <2>5. CASE e.kind \in {"activated", "urgency"}
    <3>1. a = "workspaces"
      BY <1>3, <2>5 DEF Ni!EventMask
    <3>2. AlikeIn(a, y, t)
      BY <2>3, <2>5, <3>1 DEF Replays, AlikeIn
    <3> QED BY <3>2 DEF y
  <2>6. CASE e.kind = "workspaces"
    <3>1. a \in {"workspaces", "monitors"}
      BY <1>3, <2>6 DEF Ni!EventMask
    <3>2. AlikeIn(a, y, t)
      BY <2>3, <2>6, <3>1 DEF Replays, AlikeIn
    <3> QED BY <3>2 DEF y
  <2>7. CASE e.kind = "overview"
    <3>1. a = "overview"
      BY <1>3, <2>7 DEF Ni!EventMask
    <3>2. AlikeIn(a, y, t)
      BY <2>3, <2>7, <3>1 DEF Replays, AlikeIn
    <3> QED BY <3>2 DEF y
  <2> QED BY <1>1, <2>4, <2>5, <2>6, <2>7 DEF IsEvent, NiriKinds
<1> QED BY <1>2, <1>3

NiriBehind == IF niri_ended THEN Ni!NiriArea ELSE niri_lost \cup MaskOf(niri_events)

\* One event more waits.
LEMMA MaskJoins == \A E \in Seq(NiriEvents), e \in NiriEvents : MaskOf(Append(E, e)) = MaskOf(E) \cup Ni!EventMask(e)
<1> SUFFICES ASSUME NEW E \in Seq(NiriEvents), NEW e \in NiriEvents PROVE MaskOf(Append(E, e)) = MaskOf(E) \cup Ni!EventMask(e)
  OBVIOUS
<1> DEFINE N == Len(E)
           F == Append(E, e)
<1>1. /\ N \in Nat /\ DOMAIN E = 1..N /\ DOMAIN F = (1..N) \cup {N + 1} /\ F[N + 1] = e
      /\ \A i \in 1..N : F[i] = E[i]
  OBVIOUS
<1> HIDE DEF N, F
<1>2. MaskOf(F) \subseteq MaskOf(E) \cup Ni!EventMask(e)
  BY <1>1 DEF MaskOf
<1>3. Ni!EventMask(e) \subseteq MaskOf(F)
  BY <1>1 DEF MaskOf
<1>4. MaskOf(E) \subseteq MaskOf(F)
  <2> SUFFICES ASSUME NEW i \in 1..N PROVE Ni!EventMask(E[i]) \subseteq MaskOf(F)
    BY <1>1 DEF MaskOf
  <2>1. F[i] = E[i] /\ i \in DOMAIN F
    BY <1>1
  <2>2. Ni!EventMask(F[i]) \subseteq MaskOf(F)
    BY <2>1 DEF MaskOf
  <2> QED BY <2>1, <2>2
<1> QED BY <1>2, <1>3, <1>4 DEF F

\* An event the world sends keeps Niri's invariant and is a change of the view's world.
LEMMA HappensStep == ASSUME NiriInv, NEW e \in NiriEvents, Ni!Accepts(niri, e), Ni!Happens(e) PROVE NiriInv' /\ Ni!View!WorldMoves
<1> DEFINE E == niri_events
           F == Append(E, e)
<1>1. /\ ~niri_ended /\ niri' = Ni!Replay(niri, e) /\ niri_events' = F
      /\ UNCHANGED <<replayed, niri_state, niri_untold, niri_lost, niri_ended>>
  BY DEF Ni!Happens
<1>2. NiriTyped /\ NiriAgrees(NiriFolded(replayed, E).state, niri, niri_lost) /\ niri_state = Ni!Derived(replayed)
  BY <1>1 DEF NiriInv
<1>3. niri \in NiriWorlds /\ replayed \in NiriWorlds /\ E \in Seq(NiriEvents)
  BY <1>2 DEF NiriTyped
<1>4. Replays(niri, e, niri')
  BY <1>1, <1>3, NiriEventIs, ReplayIs
<1>5. niri' \in NiriWorlds /\ F \in Seq(NiriEvents)
  BY <1>3, <1>4 DEF Replays
<1>6. NiriFolded(replayed, E) \in NiriResults /\ NiriTakes(NiriFolded(replayed, E), e, NiriFolded(replayed, F))
  BY <1>3, NiriFoldJoins
<1>7. NiriFolded(replayed, F) \in NiriResults
  BY <1>3, <1>5, NiriFoldedIs
<1> HIDE DEF F
<1>8. NiriAgrees(NiriFolded(replayed, F).state, niri', niri_lost)
  <2> SUFFICES ASSUME NEW a \in Ni!NiriArea \ niri_lost PROVE AlikeIn(a, NiriFolded(replayed, F).state, niri')
    BY DEF NiriAgrees
  <2>1. AlikeIn(a, NiriFolded(replayed, E).state, niri)
    BY <1>2 DEF NiriAgrees
  <2> QED BY <1>3, <1>4, <1>5, <1>6, <1>7, <2>1, AlikeReplays
<1>9. NiriTyped'
  BY <1>1, <1>2, <1>5 DEF NiriTyped
<1>10. NiriInv'
  BY <1>1, <1>2, <1>8, <1>9 DEF NiriInv
<1>11. MaskOf(F) = MaskOf(E) \cup Ni!EventMask(e)
  BY <1>3, MaskJoins DEF F
<1>12. ASSUME NEW a \in Ni!NiriArea, Ni!Derived(niri)[a] # Ni!Derived(niri')[a] PROVE a \in Ni!EventMask(e)
  <2>1. ~AlikeIn(a, niri, niri')
    BY <1>3, <1>5, <1>12, DerivedAlike
  <2> QED BY <1>4, <2>1 DEF Replays
<1>13. niri_events' = F /\ ~niri_ended' /\ niri_lost' = niri_lost /\ UNCHANGED <<niri_state, niri_untold>>
  BY <1>1
<1> QED BY <1>1, <1>10, <1>11, <1>12, <1>13 DEF Ni!View!WorldMoves, Ni!View!Differ, MaskOf

\* So does every change of the world.
LEMMA NiriWorldStep == ASSUME NiriInv, Ni!World PROVE NiriInv' /\ Ni!View!WorldMoves
<1>0. niri \in NiriWorlds /\ niri \in NiriStates
  BY DEF NiriInv, NiriTyped, NiriWorlds
<1>1. CASE Ni!Opens
  <2>1. PICK w \in NiriWin, n \in BOOLEAN, f \in BOOLEAN : Ni!Happens(Ni!Event("window_opened", [id |-> w, named |-> n, focused |-> f]))
    BY <1>1 DEF Ni!Opens
  <2> DEFINE a == [id |-> w, named |-> n, focused |-> f]
             e == Ni!Event("window_opened", a)
  <2>2. a \in [id : NiriWin, named : BOOLEAN, focused : BOOLEAN] /\ Ni!Happens(e)
    BY <2>1
  <2> HIDE DEF a
  <2>3. e \in NiriEvents /\ Ni!Accepts(niri, e)
    BY <2>2 DEF NiriEvents, Ni!Accepts, Ni!Event
  <2> HIDE DEF e
  <2> QED BY <2>2, <2>3, HappensStep
<1>2. CASE Ni!Closes
  <2>1. PICK w \in niri.wins : Ni!Happens(Ni!Event("window_closed", w))
    BY <1>2 DEF Ni!Closes
  <2> DEFINE e == Ni!Event("window_closed", w)
  <2>2. w \in NiriWin
    BY <1>0 DEF NiriStates
  <2>3. e \in NiriEvents /\ Ni!Accepts(niri, e)
    BY <2>2 DEF NiriEvents, Ni!Accepts, Ni!Event
  <2> HIDE DEF e
  <2> QED BY <2>1, <2>3, HappensStep DEF e
<1>3. CASE Ni!Focuses
  <2>1. PICK w \in niri.wins \cup {NoNiriWin} : Ni!Happens(Ni!Event("window_focused", w))
    BY <1>3 DEF Ni!Focuses
  <2> DEFINE e == Ni!Event("window_focused", w)
  <2>2. w \in NiriWins
    BY <1>0 DEF NiriStates, NiriWins
  <2>3. e \in NiriEvents /\ Ni!Accepts(niri, e)
    BY <2>2 DEF NiriEvents, Ni!Accepts, Ni!Event
  <2> HIDE DEF e
  <2> QED BY <2>1, <2>3, HappensStep DEF e
<1>4. CASE Ni!Activates
  <2>1. PICK p \in niri.spaces : Ni!Happens(Ni!Event("activated", [id |-> p]))
    BY <1>4 DEF Ni!Activates
  <2> DEFINE a == [id |-> p]
             e == Ni!Event("activated", a)
  <2>2. p \in NiriSpace
    BY <1>0 DEF NiriStates
  <2>3. a \in [id : NiriSpace] /\ a.id = p /\ Ni!Happens(e)
    BY <2>1, <2>2
  <2> HIDE DEF a
  <2>4. e \in NiriEvents /\ Ni!Accepts(niri, e)
    BY <2>3 DEF NiriEvents, Ni!Accepts, Ni!Event
  <2> HIDE DEF e
  <2> QED BY <2>3, <2>4, HappensStep
<1>5. CASE Ni!Urges
  <2>1. PICK p \in niri.spaces, u \in BOOLEAN : Ni!Happens(Ni!Event("urgency", [id |-> p, urgent |-> u]))
    BY <1>5 DEF Ni!Urges
  <2> DEFINE a == [id |-> p, urgent |-> u]
             e == Ni!Event("urgency", a)
  <2>2. p \in NiriSpace
    BY <1>0 DEF NiriStates
  <2>3. a \in [id : NiriSpace, urgent : BOOLEAN] /\ Ni!Happens(e)
    BY <2>1, <2>2
  <2> HIDE DEF a
  <2>4. e \in NiriEvents /\ Ni!Accepts(niri, e)
    BY <2>3 DEF NiriEvents, Ni!Accepts, Ni!Event
  <2> HIDE DEF e
  <2> QED BY <2>3, <2>4, HappensStep
<1>6. CASE Ni!Rearranges
  <2>1. PICK spaces \in SUBSET NiriSpace : \E active \in Ni!ActiveIn(spaces) :
          Ni!Happens(Ni!Event("workspaces", [spaces |-> spaces, active |-> active, urgent |-> niri.urgent \cap spaces]))
    BY <1>6 DEF Ni!Rearranges
  <2>2. PICK active \in Ni!ActiveIn(spaces) :
          Ni!Happens(Ni!Event("workspaces", [spaces |-> spaces, active |-> active, urgent |-> niri.urgent \cap spaces]))
    BY <2>1
  <2> DEFINE a == [spaces |-> spaces, active |-> active, urgent |-> niri.urgent \cap spaces]
             e == Ni!Event("workspaces", a)
  <2>3. active \in SUBSET spaces /\ \A p \in spaces : Cardinality({q \in active : OutputOf[q] = OutputOf[p]}) = 1
    BY DEF Ni!ActiveIn, Ni!Cardinality, Cardinality
  <2>4. \A p \in spaces : {q \in active : OutputOf[q] = OutputOf[p]} # {}
    <3> SUFFICES ASSUME NEW p \in spaces, {q \in active : OutputOf[q] = OutputOf[p]} = {} PROVE FALSE
      OBVIOUS
    <3>1. Cardinality({}) = 1
      BY <2>3
    <3> QED BY <3>1, FS_EmptySet
  <2>5. Tiled(spaces, active)
    BY <2>3, <2>4 DEF Tiled
  <2>6. niri.urgent \cap spaces \in SUBSET NiriSpace
    OBVIOUS
  <2>7. a \in Layouts /\ a.spaces = spaces /\ a.active = active /\ Ni!Happens(e)
    BY <2>2, <2>3, <2>6 DEF Layouts
  <2> HIDE DEF a
  <2>8. e \in NiriEvents /\ Ni!Accepts(niri, e)
    BY <2>5, <2>7 DEF NiriEvents, Ni!Accepts, Ni!Event
  <2> HIDE DEF e
  <2> QED BY <2>7, <2>8, HappensStep
<1>7. CASE Ni!Overview
  <2> DEFINE a == [open |-> ~niri.overview]
             e == Ni!Event("overview", a)
  <2>1. a \in [open : BOOLEAN] /\ Ni!Happens(e)
    <3>1. \A b \in BOOLEAN : (~b) \in BOOLEAN
      OBVIOUS
    <3>2. niri.overview \in BOOLEAN
      BY <1>0 DEF NiriStates
    <3>3. (~niri.overview) \in BOOLEAN
      BY <3>1, <3>2
    <3> QED BY <1>7, <3>3 DEF Ni!Overview
  <2> HIDE DEF a
  <2>3. e \in NiriEvents /\ Ni!Accepts(niri, e)
    BY <2>1 DEF NiriEvents, Ni!Accepts, Ni!Event
  <2> HIDE DEF e
  <2> QED BY <2>1, <2>3, HappensStep
<1> QED BY <1>1, <1>2, <1>3, <1>4, <1>5, <1>6, <1>7 DEF Ni!World

NiriSettled == \A a \in Ni!NiriArea \ NiriBehind : niri_state[a] = Ni!Derived(niri)[a] /\ a \notin niri_untold

\* Niri's invariant says that what is not behind is settled.
LEMMA NiriSettles == NiriInv => NiriSettled
<1> SUFFICES ASSUME NiriInv, NEW a \in Ni!NiriArea \ NiriBehind
             PROVE  niri_state[a] = Ni!Derived(niri)[a] /\ a \notin niri_untold
  BY DEF NiriSettled
<1> DEFINE f == NiriFolded(replayed, niri_events)
<1>1. ~niri_ended /\ a \notin niri_lost /\ a \notin MaskOf(niri_events)
  BY DEF NiriBehind
<1>2. NiriTyped /\ niri_state = Ni!Derived(replayed) /\ NiriAgrees(f.state, niri, niri_lost)
  BY <1>1 DEF NiriInv
<1>3. niri \in NiriWorlds /\ replayed \in NiriWorlds /\ niri_events \in Seq(NiriEvents) /\ niri_untold = {}
  BY <1>2 DEF NiriTyped
<1>4. f \in NiriResults /\ NiriSofar(replayed, niri_events, f)
  BY <1>3, NiriFoldedIs
<1> HIDE DEF f
<1>5. AlikeIn(a, replayed, f.state) /\ AlikeIn(a, f.state, niri)
  BY <1>1, <1>2, <1>4 DEF NiriSofar, NiriAgrees
<1>6. AlikeIn(a, replayed, niri)
  BY <1>5, AlikeGoes
<1>7. Ni!Derived(replayed)[a] = Ni!Derived(niri)[a]
  BY <1>3, <1>6, DerivedAlike
<1> QED BY <1>2, <1>3, <1>7

\* Being behind in less, with nothing left untold, is an update of the view.
LEMMA NiriUpdatesView ==
  ASSUME NiriSettled', niri' = niri, ~niri_ended, ~niri_ended', NiriBehind' \subseteq NiriBehind, niri_untold' = {}
  PROVE  Ni!View!Update
<1>1. Ni!View!Settled'
  BY DEF Ni!View!Settled, NiriSettled, NiriBehind, MaskOf
<1>2. Ni!Derived(niri)' = Ni!Derived(niri)
  BY DEF Ni!Derived, Ni!ApplyWindows, Ni!ApplyFocus, Ni!ApplyWorkspaces, Ni!ApplyMonitors
<1> QED BY <1>1, <1>2 DEF Ni!View!Update, Ni!View!Differ, NiriBehind, MaskOf

\* Reading no lines changes nothing.
LEMMA NothingFolds == \A x \in NiriWorlds : NiriFolded(x, <<>>) = NiriBase(x) /\ <<>> \in Seq(NiriEvents) /\ MaskOf(<<>>) = {}
<1> SUFFICES ASSUME NEW x \in NiriWorlds PROVE NiriFolded(x, <<>>) = NiriBase(x)
  BY DEF MaskOf
<1>1. <<>> \in Seq(NiriEvents) /\ Len(<<>>) = 0
  OBVIOUS
<1>2. PICK run : NiriIsRun(run, x, <<>>)
  BY <1>1, NiriRunThereIs
<1> QED BY <1>1, <1>2 DEF NiriIsRun

\* What is derived after lines were read is all that is derived of the new state.
LEMMA DerivesAnew ==
  ASSUME NiriInv, ~niri_ended, NEW E \in Seq(NiriEvents), NEW r, r = NiriFolded(replayed, E)
  PROVE  Ni!ApplyEvents(r.state, r.changed) = Ni!Derived(r.state) /\ Ni!Differ(niri_state, Ni!Derived(r.state)) \subseteq r.changed
<1>1. niri_state = Ni!Derived(replayed) /\ replayed \in NiriWorlds
  BY DEF NiriInv, NiriTyped
<1>2. r \in NiriResults /\ NiriSofar(replayed, E, r)
  BY <1>1, NiriFoldedIs
<1>3. r.state \in NiriWorlds
  BY <1>2 DEF NiriResults
<1>4. \A a \in Ni!NiriArea : a \notin r.changed => niri_state[a] = Ni!Derived(r.state)[a]
  <2> SUFFICES ASSUME NEW a \in Ni!NiriArea, a \notin r.changed PROVE niri_state[a] = Ni!Derived(r.state)[a]
    OBVIOUS
  <2>1. AlikeIn(a, replayed, r.state)
    BY <1>2 DEF NiriSofar
  <2> QED BY <1>1, <1>3, <2>1, DerivedAlike
<1> DEFINE d == Ni!Derived(r.state)
<1>5. Ni!ApplyEvents(r.state, r.changed) = [a \in Ni!NiriArea |-> d[a]]
  BY <1>4 DEF Ni!ApplyEvents
<1>6. d = [a \in Ni!NiriArea |-> d[a]]
  BY DEF Ni!Derived, Ni!NiriArea
<1>7. Ni!Differ(niri_state, d) \subseteq r.changed
  <2> HIDE DEF d
  <2> QED BY <1>4 DEF Ni!Differ, d
<1> QED BY <1>5, <1>6, <1>7

\* Reading whole lines keeps Niri's invariant and is an update of the view.
LEMMA ReadLinesStep == ASSUME NiriInv, Ni!ReadLines PROVE NiriInv' /\ Ni!View!Update
<1> DEFINE E == niri_events
           r == NiriFolded(replayed, E)
<1>1. /\ niri_events # <<>> /\ niri_events' = <<>> /\ replayed' = r.state /\ niri_state' = Ni!ApplyEvents(r.state, r.changed)
      /\ niri_untold' = (niri_untold \cup Ni!Differ(niri_state, niri_state')) \ r.changed
      /\ UNCHANGED <<niri, niri_lost, niri_ended>>
  BY DEF Ni!ReadLines, Ni!Read, NiriFolded, NiriBase, NiriRan
<1>2. ~niri_ended /\ NiriTyped /\ NiriAgrees(r.state, niri, niri_lost)
  BY <1>1 DEF NiriInv
<1>3. replayed \in NiriWorlds /\ E \in Seq(NiriEvents) /\ niri_untold = {}
  BY <1>2 DEF NiriTyped
<1>4. r \in NiriResults
  BY <1>3, NiriFoldedIs
<1>5. Ni!ApplyEvents(r.state, r.changed) = Ni!Derived(r.state) /\ Ni!Differ(niri_state, Ni!Derived(r.state)) \subseteq r.changed
  BY <1>2, <1>3, DerivesAnew
<1> HIDE DEF r
<1>6. niri_state' = Ni!Derived(replayed') /\ niri_untold' = {} /\ replayed' \in NiriWorlds
  BY <1>1, <1>3, <1>4, <1>5 DEF NiriResults
<1>7. NiriFolded(replayed', niri_events').state = r.state
  BY <1>1, <1>6, NothingFolds, NiriBaseIs
<1>8. NiriTyped'
  BY <1>1, <1>2, <1>6, NothingFolds DEF NiriTyped
<1>9. NiriInv'
  BY <1>1, <1>2, <1>6, <1>7, <1>8 DEF NiriInv
<1>10. NiriBehind' \subseteq NiriBehind
  <2>1. MaskOf(niri_events') = {}
    BY <1>1, <1>3, NothingFolds
  <2> QED BY <1>1, <1>2, <2>1 DEF NiriBehind
<1>11. NiriSettled'
  BY <1>9, NiriSettles, PTL
<1> QED BY <1>1, <1>2, <1>6, <1>9, <1>10, <1>11, NiriUpdatesView

\* Lines that are there have a last one, and the ones before it.
LEMMA FrontIs == \A E \in Seq(NiriEvents) : E # <<>> => /\ Ni!Front(E) \in Seq(NiriEvents) /\ Ni!Last(E) \in NiriEvents
                                                     /\ E = Append(Ni!Front(E), Ni!Last(E))
<1> SUFFICES ASSUME NEW E \in Seq(NiriEvents), E # <<>>
             PROVE  Ni!Front(E) \in Seq(NiriEvents) /\ Ni!Last(E) \in NiriEvents /\ E = Append(Ni!Front(E), Ni!Last(E))
  OBVIOUS
<1>1. Len(E) \in Nat \ {0} /\ DOMAIN E = 1..Len(E)
  OBVIOUS
<1>2. Ni!Front(E) \in Seq(NiriEvents) /\ Len(Ni!Front(E)) = Len(E) - 1 /\ \A i \in 1..Len(E) - 1 : Ni!Front(E)[i] = E[i]
  BY <1>1 DEF Ni!Front
<1>3. Ni!Last(E) = E[Len(E)] /\ Ni!Last(E) \in NiriEvents
  BY <1>1 DEF Ni!Last
<1> DEFINE F == Ni!Front(E)
           l == Ni!Last(E)
           N == Len(E)
<1>6. F \in Seq(NiriEvents) /\ l \in NiriEvents /\ Len(F) = N - 1 /\ N \in Nat \ {0} /\ l = E[N] /\ \A i \in 1..N - 1 : F[i] = E[i]
  BY <1>1, <1>2, <1>3
<1> HIDE DEF F, l, N
<1>7. \A i \in 1..N : i \in 1..N - 1 \/ i = N
  BY <1>6
<1>8. Append(F, l) \in Seq(NiriEvents) /\ Len(Append(F, l)) = N /\ Append(F, l)[N] = l /\ \A i \in 1..N - 1 : Append(F, l)[i] = F[i]
  BY <1>6
<1>4. Append(F, l) \in Seq(NiriEvents) /\ Len(Append(F, l)) = Len(E) /\ \A i \in 1..Len(E) : Append(F, l)[i] = E[i]
  BY <1>6, <1>7, <1>8 DEF N
<1>5. Append(F, l) = E
  BY <1>4
<1> QED BY <1>2, <1>3, <1>5 DEF F, l

\* Reading lines of which the last is torn keeps Niri's invariant and is an update of the
\* view.
LEMMA ReadTornStep == ASSUME NiriInv, Ni!ReadTorn PROVE NiriInv' /\ Ni!View!Update
<1> DEFINE E == niri_events
           F == Ni!Front(E)
           e == Ni!Last(E)
           r == NiriFolded(replayed, F)
           q == NiriFolded(replayed, E)
<1>1. /\ niri_events # <<>> /\ niri_events' = <<>> /\ replayed' = r.state /\ niri_state' = Ni!ApplyEvents(r.state, r.changed)
      /\ niri_untold' = (niri_untold \cup Ni!Differ(niri_state, niri_state')) \ r.changed
      /\ niri_lost' = niri_lost \cup Ni!EventMask(e) /\ UNCHANGED <<niri, niri_ended>>
  BY DEF Ni!ReadTorn, Ni!Read, NiriFolded, NiriBase, NiriRan
<1>2. ~niri_ended /\ NiriTyped /\ NiriAgrees(q.state, niri, niri_lost)
  BY <1>1 DEF NiriInv
<1>3. replayed \in NiriWorlds /\ E \in Seq(NiriEvents) /\ niri_untold = {} /\ niri_lost \subseteq Ni!NiriArea
  BY <1>2 DEF NiriTyped
<1>4. F \in Seq(NiriEvents) /\ e \in NiriEvents /\ E = Append(F, e)
  BY <1>1, <1>3, FrontIs
<1>5. Ni!ApplyEvents(r.state, r.changed) = Ni!Derived(r.state) /\ Ni!Differ(niri_state, Ni!Derived(r.state)) \subseteq r.changed
  BY <1>2, <1>4, DerivesAnew
<1>6. r \in NiriResults /\ q \in NiriResults
  BY <1>3, <1>4, NiriFoldedIs
<1>7. NiriTakes(r, e, q)
  <2> HIDE DEF F, e
  <2>1. NiriTakes(NiriFolded(replayed, F), e, NiriFolded(replayed, Append(F, e)))
    BY <1>3, <1>4, NiriFoldJoins
  <2>2. Append(F, e) = E
    BY <1>4
  <2> QED BY <2>1, <2>2
<1>8. MaskOf(E) = MaskOf(F) \cup Ni!EventMask(e) /\ Ni!EventMask(e) \subseteq Ni!NiriArea
  <2> HIDE DEF F, e
  <2>1. MaskOf(Append(F, e)) = MaskOf(F) \cup Ni!EventMask(e)
    BY <1>4, MaskJoins
  <2>2. Append(F, e) = E
    BY <1>4
  <2> QED BY <1>4, <2>1, <2>2, NiriEventIs
<1> HIDE DEF r, q, F, e
<1>9. NiriAgrees(r.state, niri, niri_lost')
  <2> SUFFICES ASSUME NEW a \in Ni!NiriArea, a \notin niri_lost, a \notin Ni!EventMask(e) PROVE AlikeIn(a, r.state, niri)
    BY <1>1 DEF NiriAgrees
  <2>1. AlikeIn(a, q.state, niri)
    BY <1>2 DEF NiriAgrees
  <2>2. AlikeIn(a, r.state, q.state)
    <3>1. CASE Ni!Accepts(r.state, e)
      BY <1>7, <3>1 DEF NiriTakes, Replays
    <3>2. CASE ~Ni!Accepts(r.state, e)
      BY <1>7, <3>2, AlikeGoes DEF NiriTakes
    <3> QED BY <3>1, <3>2
  <2> QED BY <2>1, <2>2, AlikeGoes
<1>10. niri_state' = Ni!Derived(replayed') /\ niri_untold' = {} /\ replayed' \in NiriWorlds
  BY <1>1, <1>3, <1>5, <1>6 DEF NiriResults
<1>11. NiriFolded(replayed', niri_events').state = r.state
  BY <1>1, <1>10, NothingFolds, NiriBaseIs
<1>12. NiriTyped'
  BY <1>1, <1>2, <1>3, <1>8, <1>10, NothingFolds DEF NiriTyped
<1>13. NiriInv'
  BY <1>1, <1>2, <1>9, <1>10, <1>11, <1>12 DEF NiriInv
<1>14. NiriBehind' \subseteq NiriBehind
  <2>1. MaskOf(niri_events') = {}
    BY <1>1, <1>3, NothingFolds
  <2> QED BY <1>1, <1>2, <1>8, <2>1 DEF NiriBehind
<1>15. NiriSettled'
  BY <1>13, NiriSettles, PTL
<1> QED BY <1>1, <1>2, <1>10, <1>13, <1>14, <1>15, NiriUpdatesView

\* The end of the stream keeps Niri's invariant and leaves the bridge behind.
LEMMA NiriEndsStep == ASSUME NiriInv, Ni!StreamEnds PROVE NiriInv' /\ Ni!View!WorldMoves
<1> DEFINE r == NiriFolded(replayed, niri_events)
<1>1. /\ ~niri_ended /\ niri_ended' = TRUE /\ niri_events' = <<>> /\ replayed' = r.state /\ niri_untold' = {}
      /\ UNCHANGED <<niri, niri_state, niri_lost>>
  BY DEF Ni!StreamEnds, NiriFolded, NiriBase, NiriRan
<1>2. NiriTyped
  BY DEF NiriInv
<1>3. replayed \in NiriWorlds /\ niri_events \in Seq(NiriEvents) /\ niri_untold = {} /\ niri_lost \subseteq Ni!NiriArea
  BY <1>2 DEF NiriTyped
<1>4. r.state \in NiriWorlds
  BY <1>3, NiriFoldedIs DEF NiriResults
<1>5. NiriInv'
  BY <1>1, <1>2, <1>4, NothingFolds DEF NiriInv, NiriTyped
<1>6. MaskOf(niri_events) \subseteq Ni!NiriArea
  <2>1. \A i \in DOMAIN niri_events : niri_events[i] \in NiriEvents
    BY <1>3
  <2> QED BY <2>1, NiriEventIs DEF MaskOf
<1>7. \A i \in DOMAIN niri_events : Ni!EventMask(niri_events[i]) \subseteq Ni!NiriArea
  BY <1>6 DEF MaskOf
<1>8. UNCHANGED <<niri_state, niri_untold>>
  BY <1>1, <1>3
<1> QED BY <1>1, <1>3, <1>5, <1>6, <1>8 DEF Ni!View!WorldMoves, Ni!View!Differ, MaskOf

\* The start satisfies Niri's invariant and the view's initial states.
LEMMA NiriStarts == ASSUME Ni!Init PROVE NiriInv /\ Ni!View!Init
<1>1. /\ niri = [wins |-> {}, named |-> {}, focus |-> NoNiriWin, spaces |-> {}, active |-> {}, urgent |-> {}, overview |-> FALSE]
      /\ replayed = niri /\ niri_state = Ni!Derived(niri) /\ niri_events = <<>> /\ niri_untold = {} /\ niri_lost = {}
      /\ niri_ended = FALSE
  BY DEF Ni!Init
<1>2. niri \in NiriWorlds
  <2>1. NoNiriWin \in NiriWins /\ FALSE \in BOOLEAN
    BY DEF NiriWins
  <2>2. Tiled({}, {})
    BY DEF Tiled
  <2>3. niri \in NiriStates /\ niri.spaces = {} /\ niri.active = {}
    BY <1>1, <2>1 DEF NiriStates
  <2> QED BY <2>2, <2>3 DEF NiriWorlds
<1>3. NiriTyped
  BY <1>1, <1>2, NothingFolds DEF NiriTyped
<1>4. NiriFolded(replayed, niri_events).state = niri
  BY <1>1, <1>2, NothingFolds, NiriBaseIs
<1>5. NiriInv
  BY <1>1, <1>3, <1>4, AlikeGoes DEF NiriInv, NiriAgrees
<1>6. Ni!View!Init
  BY <1>1 DEF Ni!View!Init
<1> QED BY <1>5, <1>6

\* Every step keeps Niri's invariant and is a step of the view.
LEMMA NiriGoesOn == ASSUME NiriInv, [Ni!Next]_(Ni!niriVars) PROVE NiriInv' /\ [Ni!View!Next]_(Ni!View!viewVars)
<1>1. CASE Ni!World
  BY <1>1, NiriWorldStep DEF Ni!View!Next
<1>2. CASE Ni!ReadLines
  BY <1>2, ReadLinesStep DEF Ni!View!Next
<1>3. CASE Ni!ReadTorn
  BY <1>3, ReadTornStep DEF Ni!View!Next
<1>4. CASE Ni!StreamEnds
  BY <1>4, NiriEndsStep DEF Ni!View!Next
<1>5. CASE UNCHANGED Ni!niriVars
  <2>1. UNCHANGED <<niri, niri_events, replayed, niri_state, niri_untold, niri_lost, niri_ended>>
    BY <1>5 DEF Ni!niriVars
  <2>2. NiriInv'
    BY <2>1 DEF NiriInv, NiriTyped
  <2>3. Ni!Derived(niri)' = Ni!Derived(niri)
    BY <2>1 DEF Ni!Derived, Ni!ApplyWindows, Ni!ApplyFocus, Ni!ApplyWorkspaces, Ni!ApplyMonitors
  <2>4. UNCHANGED Ni!View!viewVars
    BY <2>1, <2>3 DEF Ni!View!viewVars
  <2> QED BY <2>2, <2>4
<1> QED BY <1>1, <1>2, <1>3, <1>4, <1>5 DEF Ni!Next, Ni!UpdateState

\* Niri's invariant gives what the runs check of it.
LEMMA NiriPromises == ASSUME NiriInv PROVE Ni!TypeOK /\ Ni!ShowsWhatItReplayed
<1>1. NiriTyped /\ Ni!ShowsWhatItReplayed
  BY DEF NiriInv, Ni!ShowsWhatItReplayed
<1>2. PICK s \in NiriWorlds : niri_state = Ni!Derived(s)
  BY <1>1 DEF NiriTyped
<1>3. s.named \subseteq NiriWin /\ s.focus \in NiriWins /\ replayed.wins \subseteq NiriWin
  BY <1>1 DEF NiriTyped, NiriWorlds, NiriStates
<1>4. niri_state.focus = s.focus /\ niri_state.windows = s.named
  BY <1>2 DEF Ni!Derived, Ni!ApplyFocus, Ni!ApplyWindows
<1>5. niri_untold \subseteq Ni!NiriArea /\ niri_lost \subseteq Ni!NiriArea
  BY <1>1 DEF NiriTyped
<1>6. Ni!TypeOK
  BY <1>3, <1>4, <1>5 DEF Ni!TypeOK, NiriWins
<1> QED BY <1>1, <1>6

\* On Niri the bridge has its types, shows what replaying the events it has read gives, and
\* implements CompositorView.
THEOREM NiriFollows == Ni!Spec => []Ni!TypeOK /\ []Ni!ShowsWhatItReplayed /\ Ni!ImplementsView
<1>1. Ni!Init => NiriInv /\ Ni!View!Init
  BY NiriStarts
<1>2. NiriInv /\ [Ni!Next]_(Ni!niriVars) => NiriInv' /\ [Ni!View!Next]_(Ni!View!viewVars)
  BY NiriGoesOn
<1>3. NiriInv => Ni!TypeOK /\ Ni!ShowsWhatItReplayed
  BY NiriPromises
<1> QED BY <1>1, <1>2, <1>3, PTL DEF Ni!Spec, Ni!ImplementsView, Ni!View!Spec

-----------------------------------------------------------------------------
(* Other compositors (Fallback.tla).                                        *)

FbRan(b, s) == Fb!FoldLeft(Fb!Dispatch, b, s)
FbSteady(R, N, s) == \A r \in R, i \in 1..N : Fb!Dispatch(r, s[i]) \in R
FbRuns(run, R, b, N, s) == run \in [0..N -> R] /\ run[0] = b /\ FbRan(b, s) = run[N] /\ \A i \in 1..N : run[i] = Fb!Dispatch(run[i - 1], s[i])

\* A fold of events is a run over them.
LEMMA FbRunsThereAre == \A R, b, N, s : b \in R /\ N \in Nat /\ DOMAIN s = 1..N /\ FbSteady(R, N, s) => \E run : FbRuns(run, R, b, N, s)
<1> SUFFICES ASSUME NEW R, NEW b \in R, NEW N \in Nat, NEW s, DOMAIN s = 1..N, FbSteady(R, N, s)
             PROVE  \E run : FbRuns(run, R, b, N, s)
  OBVIOUS
<1>0. \A r \in R, i \in 1..N : Fb!Dispatch(r, s[i]) \in R
  BY DEF FbSteady
<1> DEFINE Fits(it) == it = [x \in SUBSET (DOMAIN s) |-> IF x = {} THEN b ELSE Fb!Dispatch(it[x \ {Max(x)}], s[Max(x)])]
           step == [p \in R \X (1..N) |-> Fb!Dispatch(p[1], s[p[2]])]
           iter == CHOOSE it : Fits(it)
           run == [k \in 0..N |-> iter[1..k]]
<1>1. step \in [R \X (1..N) -> R] /\ \A r \in R, i \in 1..N : step[<<r, i>>] = Fb!Dispatch(r, s[i])
  BY <1>0
<1> HIDE DEF step
<1>2. \A x \in SUBSET (1..N) : x # {} => Max(x) \in 1..N
  <2> SUFFICES ASSUME NEW x \in SUBSET (1..N), x # {} PROVE Max(x) \in 1..N
    OBVIOUS
  <2>1. Max(x) \in x
    BY GreatestOf
  <2> QED BY <2>1
<1>3. PICK it \in [SUBSET (1..N) -> R] : IsFold(it, b, N, step)
  BY <1>1, FoldsThereAre
<1>4. Fits(it)
  <2>1. \A x \in SUBSET (1..N) : it[x] = IF x = {} THEN b ELSE Fb!Dispatch(it[x \ {Max(x)}], s[Max(x)])
    <3> SUFFICES ASSUME NEW x \in SUBSET (1..N), x # {} PROVE it[x] = Fb!Dispatch(it[x \ {Max(x)}], s[Max(x)])
      BY <1>3 DEF IsFold
    <3>1. x \ {Max(x)} \in SUBSET (1..N) /\ Max(x) \in 1..N
      BY <1>2
    <3> QED BY <1>1, <1>3, <3>1 DEF IsFold
  <2> QED BY <2>1
<1>5. Fits(iter)
  <2> HIDE DEF Fits
  <2> QED BY <1>4
<1>6. iter[{}] = b
  BY <1>5
<1>7. \A k \in 1..N : iter[1..k] = Fb!Dispatch(iter[1..k - 1], s[k])
  <2> SUFFICES ASSUME NEW k \in 1..N PROVE iter[1..k] = Fb!Dispatch(iter[1..k - 1], s[k])
    OBVIOUS
  <2>1. k \in Nat \ {0} /\ (1..k) \in SUBSET (1..N) /\ k \in 1..k /\ 1..k # {} /\ (1..k) \ {k} = 1..k - 1
    <3>1. k \in Nat \ {0} /\ k <= N
      OBVIOUS
    <3>2. (1..k) \in SUBSET (1..N) /\ k \in 1..k
      BY <3>1
    <3>3. (1..k) \ {k} = 1..k - 1
      BY <3>1
    <3> QED BY <3>1, <3>2, <3>3
  <2>2. Max(1..k) = k
    BY <2>1, MaxIs
  <2> QED BY <1>5, <2>1, <2>2
<1>8. FbRan(b, s) = iter[1..N]
  BY DEF FbRan, Fb!FoldLeft, Fb!MapThenFoldSet, Fb!Max, Max
<1> HIDE DEF iter
<1>9. run \in [0..N -> R]
  <2>1. \A k \in 1..N : iter[1..k - 1] \in R => iter[1..k] \in R
    BY <1>0, <1>7
  <2> QED BY <1>6, <2>1, PrefixesRun
<1>10. run[0] = b /\ run[N] = iter[1..N]
  <2>1. 1..0 = {}
    OBVIOUS
  <2> QED BY <1>6, <2>1
<1>11. \A i \in 1..N : run[i] = Fb!Dispatch(run[i - 1], s[i])
  BY <1>7
<1> HIDE DEF run
<1>12. FbRuns(run, R, b, N, s)
  BY <1>8, <1>9, <1>10, <1>11 DEF FbRuns
<1> QED BY <1>12

\* The types.
FbTexts == 0..1
FbRows == [id : Toplevel, title : FbTexts, activated : BOOLEAN]
FbMaybe == FbOutput \cup {NoFbOutput}

Tables == [unnamed : SUBSET FbOutput, named : SUBSET FbOutput, groups : SUBSET FbOutput, entered : SUBSET FbOutput,
           group : [FbSpace -> FbMaybe], active : SUBSET FbSpace, tops : Seq(FbRows), dirty : SUBSET Fb!FbArea]
OutputKinds == {"global", "global_remove", "name", "group", "output_enter", "output_leave", "group_removed"}

FbEvents ==
  {Fb!Event(k, o, NoFbOutput) : k \in OutputKinds, o \in FbOutput}
  \cup {Fb!Event(k, o, p) : k \in {"ws_enter", "ws_leave"}, o \in FbOutput, p \in FbSpace}
  \cup {Fb!Event(k, p, NoFbOutput) : k \in {"active", "inactive"}, p \in FbSpace}
  \cup {Fb!Event(k, w, NoFbOutput) : k \in {"toplevel", "closed"}, w \in Toplevel}
  \cup {Fb!Event(k, w, x) : k \in {"title", "state"}, w \in Toplevel, x \in FbTexts}

\* The windows of a table, as a set.
FbRowsOf(s) == {s[i] : i \in DOMAIN s}

\* A window with another title, or another state.
FbTitled(r, id, x) == IF r.id = id THEN [id |-> r.id, title |-> x, activated |-> r.activated] ELSE r
Lit(r, id, x) == IF r.id = id THEN [id |-> r.id, title |-> r.title, activated |-> (x = 1)] ELSE r

\* All but the windows, and what is dirty.
Others(t, unnamed, named, groups, entered, group, active) ==
  t.unnamed = unnamed /\ t.named = named /\ t.groups = groups /\ t.entered = entered /\ t.group = group /\ t.active = active
OthersStay(t, q) == Others(q, t.unnamed, t.named, t.groups, t.entered, t.group, t.active)

\* What an event makes of the tables.
Dispatched(t, e, q) ==
  /\ q \in Tables
  /\ e.kind = "global_remove" => q = t
  /\ e.kind = "global" => Others(q, t.unnamed \cup {e.id}, t.named, t.groups, t.entered, t.group, t.active)
  /\ e.kind = "name" => Others(q, t.unnamed \ {e.id}, t.named \cup {e.id}, t.groups, t.entered, t.group, t.active)
  /\ e.kind = "group" => Others(q, t.unnamed, t.named, t.groups \cup {e.id}, t.entered, t.group, t.active)
  /\ e.kind = "output_enter" => Others(q, t.unnamed, t.named, t.groups, t.entered \cup ({e.id} \cap t.groups), t.group, t.active)
  /\ e.kind = "output_leave" => Others(q, t.unnamed, t.named, t.groups, t.entered \ {e.id}, t.group, t.active)
  /\ e.kind = "group_removed" => Others(q, t.unnamed, t.named, t.groups \ {e.id}, t.entered \ {e.id}, t.group, t.active)
  /\ e.kind = "ws_enter" => Others(q, t.unnamed, t.named, t.groups, t.entered, [t.group EXCEPT ![e.arg] = e.id], t.active)
  /\ e.kind = "ws_leave" => Others(q, t.unnamed, t.named, t.groups, t.entered, [t.group EXCEPT ![e.arg] = NoFbOutput], t.active)
  /\ e.kind = "active" => Others(q, t.unnamed, t.named, t.groups, t.entered, t.group, t.active \cup {e.id})
  /\ e.kind = "inactive" => Others(q, t.unnamed, t.named, t.groups, t.entered, t.group, t.active \ {e.id})
  /\ e.kind \in {"toplevel", "title", "state", "closed"} => OthersStay(t, q)
  /\ e.kind \notin {"toplevel", "title", "state", "closed"} => q.tops = t.tops
  /\ e.kind = "toplevel" => q.tops = Append(t.tops, [id |-> e.id, title |-> 0, activated |-> FALSE])
  /\ e.kind = "title" => q.tops = [i \in DOMAIN t.tops |-> FbTitled(t.tops[i], e.id, e.arg)]
  /\ e.kind = "state" => q.tops = [i \in DOMAIN t.tops |-> Lit(t.tops[i], e.id, e.arg)]
  /\ e.kind = "closed" => FbRowsOf(q.tops) = {r \in FbRowsOf(t.tops) : r.id # e.id}
  /\ q.dirty = t.dirty \cup Fb!About(e)

\* What is left of the windows without one of them.
LEMMA WithoutRows == \A s \in Seq(FbRows) : \A id : Fb!Without(s, id) \in Seq(FbRows) /\ FbRowsOf(Fb!Without(s, id)) = {r \in FbRowsOf(s) : r.id # id}
<1> SUFFICES ASSUME NEW s \in Seq(FbRows), NEW id
             PROVE  Fb!Without(s, id) \in Seq(FbRows) /\ FbRowsOf(Fb!Without(s, id)) = {r \in FbRowsOf(s) : r.id # id}
  OBVIOUS
<1> DEFINE N == Len(s)
           R == Seq(FbRows)
           Keep(k, w) == IF w.id = id THEN k ELSE Append(k, w)
           Fits(it) == it = [x \in SUBSET (DOMAIN s) |-> IF x = {} THEN <<>> ELSE Keep(it[x \ {Max(x)}], s[Max(x)])]
           step == [p \in R \X (1..N) |-> Keep(p[1], s[p[2]])]
           iter == CHOOSE it : Fits(it)
           run == [k \in 0..N |-> iter[1..k]]
<1>0. N \in Nat /\ DOMAIN s = 1..N /\ \A i \in 1..N : s[i] \in FbRows
  OBVIOUS
<1>00. \A r \in R, i \in 1..N : Keep(r, s[i]) \in R
  BY <1>0
<1>1. step \in [R \X (1..N) -> R] /\ \A r \in R, i \in 1..N : step[<<r, i>>] = Keep(r, s[i])
  BY <1>00
<1>01. <<>> \in R
  OBVIOUS
<1> HIDE DEF step, R
<1>2. \A x \in SUBSET (1..N) : x # {} => Max(x) \in 1..N
  <2> SUFFICES ASSUME NEW x \in SUBSET (1..N), x # {} PROVE Max(x) \in 1..N
    OBVIOUS
  <2>1. Max(x) \in x
    BY <1>0, GreatestOf
  <2> QED BY <2>1
<1>3. PICK it \in [SUBSET (1..N) -> R] : IsFold(it, <<>>, N, step)
  BY <1>0, <1>01, <1>1, FoldsThereAre
<1>4. Fits(it)
  <2>1. \A x \in SUBSET (1..N) : it[x] = IF x = {} THEN <<>> ELSE Keep(it[x \ {Max(x)}], s[Max(x)])
    <3> SUFFICES ASSUME NEW x \in SUBSET (1..N), x # {} PROVE it[x] = Keep(it[x \ {Max(x)}], s[Max(x)])
      BY <1>3 DEF IsFold
    <3>1. x \ {Max(x)} \in SUBSET (1..N) /\ Max(x) \in 1..N
      BY <1>2
    <3> QED BY <1>1, <1>3, <3>1 DEF IsFold
  <2> QED BY <1>0, <2>1
<1>5. Fits(iter)
  <2> HIDE DEF Fits
  <2> QED BY <1>4
<1>6. iter[{}] = <<>>
  BY <1>5
<1>7. \A k \in 1..N : iter[1..k] = Keep(iter[1..k - 1], s[k])
  <2> SUFFICES ASSUME NEW k \in 1..N PROVE iter[1..k] = Keep(iter[1..k - 1], s[k])
    OBVIOUS
  <2>1. k \in Nat \ {0} /\ (1..k) \in SUBSET (1..N) /\ k \in 1..k /\ 1..k # {} /\ (1..k) \ {k} = 1..k - 1
    <3>1. k \in Nat \ {0} /\ k <= N
      BY <1>0
    <3>2. (1..k) \in SUBSET (1..N) /\ k \in 1..k
      BY <1>0, <3>1
    <3>3. (1..k) \ {k} = 1..k - 1
      BY <3>1
    <3> QED BY <3>1, <3>2, <3>3
  <2>2. Max(1..k) = k
    BY <2>1, MaxIs
  <2>3. (1..k) \in SUBSET (DOMAIN s)
    BY <1>0, <2>1
  <2> HIDE DEF N, Keep
  <2> QED BY <1>5, <2>1, <2>2, <2>3
<1>8. Fb!Without(s, id) = iter[DOMAIN s]
  BY DEF Fb!Without, Fb!FoldLeft, Fb!MapThenFoldSet, Fb!Max, Max
<1> HIDE DEF iter, Fits
<1>9. \A k \in 1..N : iter[1..k - 1] \in R => iter[1..k] \in R
  BY <1>00, <1>7
<1>10. run \in [0..N -> R]
  <2>1. N \in Nat /\ iter[{}] \in R
    BY <1>0, <1>01, <1>6
  <2> HIDE DEF Keep, N
  <2> QED BY <2>1, <1>9, PrefixesRun
<1> DEFINE S == {k \in 0..N : FbRowsOf(iter[1..k]) = {s[i] : i \in {j \in 1..k : s[j].id # id}}}
<1>11. 0 \in S
  <2>1. 1..0 = {} /\ 0 \in 0..N
    BY <1>0
  <2>2. FbRowsOf(iter[1..0]) = {}
    BY <1>6, <2>1 DEF FbRowsOf
  <2> QED BY <2>1, <2>2
<1>12. ASSUME NEW k \in 1..N, k - 1 \in S PROVE k \in S
  <2> DEFINE old == iter[1..k - 1]
             new == iter[1..k]
             had == {j \in 1..k - 1 : s[j].id # id}
             has == {j \in 1..k : s[j].id # id}
  <2>0. k \in 0..N /\ k - 1 \in 0..N
    BY <1>0
  <2>1. old \in Seq(FbRows) /\ s[k] \in FbRows
    <3>1. run[k - 1] = old /\ run[k - 1] \in R
      BY <1>10, <2>0
    <3> QED BY <1>0, <3>1 DEF R
  <2>2. new = Keep(old, s[k]) /\ FbRowsOf(old) = {s[i] : i \in had}
    BY <1>7, <1>12
  <2>3. has = had \cup {j \in {k} : s[k].id # id}
    BY <1>0
  <2> HIDE DEF old, new, had, has
  <2>4. CASE s[k].id = id
    BY <2>0, <2>2, <2>3, <2>4 DEF new, has
  <2>5. CASE s[k].id # id
    <3>1. new = Append(old, s[k])
      BY <2>2, <2>5
    <3>2. FbRowsOf(new) = FbRowsOf(old) \cup {s[k]}
      <4> DEFINE M == Len(old)
                 x == s[k]
      <4>1. M \in Nat /\ DOMAIN old = 1..M /\ DOMAIN new = (1..M) \cup {M + 1} /\ new[M + 1] = x /\ \A i \in 1..M : new[i] = old[i]
        BY <2>1, <3>1
      <4> HIDE DEF M, x
      <4> QED BY <4>1 DEF FbRowsOf, x
    <3>3. has = had \cup {k}
      BY <2>3, <2>5
    <3>4. {s[i] : i \in has} = {s[i] : i \in had} \cup {s[k]}
      BY <3>3
    <3> QED BY <2>0, <2>2, <3>2, <3>4 DEF new, has
  <2> QED BY <2>4, <2>5
<1> HIDE DEF S
<1>13. \A k \in 0..N : k \in S
  BY <1>0, <1>11, <1>12, UpTo
<1>14. FbRowsOf(iter[1..N]) = {s[i] : i \in {j \in 1..N : s[j].id # id}}
  BY <1>0, <1>13 DEF S
<1>15. iter[1..N] \in R
  <2>1. run[N] \in R /\ run[N] = iter[1..N]
    BY <1>0, <1>10
  <2> QED BY <2>1
<1>16. {s[i] : i \in {j \in 1..N : s[j].id # id}} = {r \in FbRowsOf(s) : r.id # id}
  BY <1>0 DEF FbRowsOf
<1> QED BY <1>0, <1>8, <1>14, <1>15, <1>16 DEF R

WorkspaceKinds == {"ws_enter", "ws_leave"}
ActiveKinds == {"active", "inactive"}
OpenKinds == {"toplevel", "closed"}
TextKinds == {"title", "state"}

\* What an event is about, by its kind.
KindFits(e) ==
  /\ e.kind \in OutputKinds \cup WorkspaceKinds \cup ActiveKinds \cup OpenKinds \cup TextKinds
  /\ e.kind \in OutputKinds \cup WorkspaceKinds => e.id \in FbOutput
  /\ e.kind \in WorkspaceKinds => e.arg \in FbSpace
  /\ e.kind \in ActiveKinds => e.id \in FbSpace
  /\ e.kind \in OpenKinds \cup TextKinds => e.id \in Toplevel
  /\ e.kind \in TextKinds => e.arg \in FbTexts

\* Every event fits its kind.
LEMMA KindsFit == \A e \in FbEvents : KindFits(e)
<1> SUFFICES ASSUME NEW e \in FbEvents PROVE KindFits(e)
  OBVIOUS
<1>1. CASE e \in {Fb!Event(k, o, NoFbOutput) : k \in OutputKinds, o \in FbOutput}
  BY <1>1 DEF KindFits, Fb!Event, OutputKinds, WorkspaceKinds, ActiveKinds, OpenKinds, TextKinds
<1>2. CASE e \in {Fb!Event(k, o, p) : k \in {"ws_enter", "ws_leave"}, o \in FbOutput, p \in FbSpace}
  BY <1>2 DEF KindFits, Fb!Event, OutputKinds, WorkspaceKinds, ActiveKinds, OpenKinds, TextKinds
<1>3. CASE e \in {Fb!Event(k, p, NoFbOutput) : k \in {"active", "inactive"}, p \in FbSpace}
  BY <1>3 DEF KindFits, Fb!Event, OutputKinds, WorkspaceKinds, ActiveKinds, OpenKinds, TextKinds
<1>4. CASE e \in {Fb!Event(k, w, NoFbOutput) : k \in {"toplevel", "closed"}, w \in Toplevel}
  BY <1>4 DEF KindFits, Fb!Event, OutputKinds, WorkspaceKinds, ActiveKinds, OpenKinds, TextKinds
<1>5. CASE e \in {Fb!Event(k, w, x) : k \in {"title", "state"}, w \in Toplevel, x \in FbTexts}
  BY <1>5 DEF KindFits, Fb!Event, OutputKinds, WorkspaceKinds, ActiveKinds, OpenKinds, TextKinds
<1> QED BY <1>1, <1>2, <1>3, <1>4, <1>5 DEF FbEvents

\* Marking areas as dirty changes nothing else.
LEMMA TouchIs == \A t \in Tables, areas \in SUBSET Fb!FbArea :
  Fb!Touch(t, areas) \in Tables /\ OthersStay(t, Fb!Touch(t, areas)) /\ Fb!Touch(t, areas).tops = t.tops /\ Fb!Touch(t, areas).dirty = t.dirty \cup areas
  BY DEF Fb!Touch, Tables, OthersStay, Others

\* The areas there are.
LEMMA AreasAre == {"monitors"} \in SUBSET Fb!FbArea /\ {"windows"} \in SUBSET Fb!FbArea /\ Fb!Tree \in SUBSET Fb!FbArea /\ Fb!Places \in SUBSET Fb!FbArea
  BY DEF Fb!FbArea, Fb!Tree, Fb!Places

\* What an event is about is areas.
LEMMA FbAboutIs == \A e \in FbEvents : Fb!About(e) \in SUBSET Fb!FbArea
<1> SUFFICES ASSUME NEW e \in FbEvents PROVE Fb!About(e) \in SUBSET Fb!FbArea
  OBVIOUS
<1>1. KindFits(e)
  BY KindsFit
<1> QED BY <1>1, AreasAre DEF Fb!About, KindFits, OutputKinds, WorkspaceKinds, ActiveKinds, OpenKinds, TextKinds

\* Events of outputs, groups and workspaces leave the windows alone.
LEMMA PlainDispatched == \A t \in Tables, e \in FbEvents : e.kind \notin {"toplevel", "title", "state", "closed"} => Dispatched(t, e, Fb!Dispatch(t, e))
<1> SUFFICES ASSUME NEW t \in Tables, NEW e \in FbEvents, e.kind \notin {"toplevel", "title", "state", "closed"}
             PROVE  Dispatched(t, e, Fb!Dispatch(t, e))
  OBVIOUS
<1>0. KindFits(e) /\ NoFbOutput \in FbMaybe /\ FbOutput \subseteq FbMaybe
  BY KindsFit DEF FbMaybe
<1>00. t.tops \in Seq(FbRows) /\ t.dirty \in SUBSET Fb!FbArea
  BY DEF Tables
<1> HIDE DEF FbRows, Fb!FbArea, FbMaybe
<1>1. CASE e.kind = "global_remove"
  <2>1. Fb!Dispatch(t, e) = t /\ Fb!About(e) = {}
    BY <1>1 DEF Fb!Dispatch, Fb!RegistryEvent, Fb!About
  <2> QED BY <1>1, <2>1 DEF Dispatched
<1>2. CASE e.kind = "global"
  <2> DEFINE u == [t EXCEPT !.unnamed = @ \cup {e.id}]
  <2>1. Fb!Dispatch(t, e) = Fb!Touch(u, {"monitors"}) /\ Fb!About(e) = {"monitors"}
    BY <1>2 DEF Fb!Dispatch, Fb!RegistryEvent, Fb!About
  <2>2. u \in Tables /\ u.unnamed = t.unnamed \cup {e.id} /\ u.named = t.named /\ u.groups = t.groups /\ u.entered = t.entered /\ u.group = t.group
        /\ u.active = t.active /\ u.tops = t.tops /\ u.dirty = t.dirty
    BY <1>0, <1>2 DEF Tables, KindFits, OutputKinds
  <2> HIDE DEF u
  <2>3. Fb!Touch(u, {"monitors"}) \in Tables /\ OthersStay(u, Fb!Touch(u, {"monitors"})) /\ Fb!Touch(u, {"monitors"}).tops = u.tops /\ Fb!Touch(u, {"monitors"}).dirty = u.dirty \cup {"monitors"}
    BY <2>2, TouchIs, AreasAre
  <2> HIDE DEF Tables
  <2> QED BY <1>2, <2>1, <2>2, <2>3 DEF Dispatched, OthersStay, Others
<1>3. CASE e.kind = "name"
  <2> DEFINE u == [t EXCEPT !.unnamed = @ \ {e.id}, !.named = @ \cup {e.id}]
             areas == {"monitors"}
  <2>1. Fb!Dispatch(t, e) = Fb!Touch(u, areas) /\ Fb!About(e) = areas
    BY <1>3 DEF Fb!Dispatch, Fb!OutputEvent, Fb!About
  <2>2. u.unnamed = t.unnamed \ {e.id} /\ u.named = t.named \cup {e.id} /\ u.groups = t.groups /\ u.entered = t.entered /\ u.group = t.group /\ u.active = t.active /\ u.tops = t.tops /\ u.dirty = t.dirty
    BY <1>0, <1>3 DEF Tables
  <2>3. u \in Tables
    BY <1>0, <1>3 DEF Tables, KindFits, OutputKinds, WorkspaceKinds, ActiveKinds
  <2>4. areas \in SUBSET Fb!FbArea
    BY AreasAre
  <2> HIDE DEF u, areas
  <2>5. Fb!Touch(u, areas) \in Tables /\ OthersStay(u, Fb!Touch(u, areas)) /\ Fb!Touch(u, areas).tops = u.tops /\ Fb!Touch(u, areas).dirty = u.dirty \cup areas
    BY <2>3, <2>4, TouchIs
  <2> HIDE DEF Tables
  <2> QED BY <1>3, <2>1, <2>2, <2>5 DEF Dispatched, OthersStay, Others
<1>4. CASE e.kind = "group"
  <2> DEFINE u == [t EXCEPT !.groups = @ \cup {e.id}]
             areas == Fb!Places
  <2>1. Fb!Dispatch(t, e) = Fb!Touch(u, areas) /\ Fb!About(e) = areas
    BY <1>4 DEF Fb!Dispatch, Fb!ManagerEvent, Fb!About
  <2>2. u.unnamed = t.unnamed /\ u.named = t.named /\ u.groups = t.groups \cup {e.id} /\ u.entered = t.entered /\ u.group = t.group /\ u.active = t.active /\ u.tops = t.tops /\ u.dirty = t.dirty
    BY <1>0, <1>4 DEF Tables
  <2>3. u \in Tables
    BY <1>0, <1>4 DEF Tables, KindFits, OutputKinds, WorkspaceKinds, ActiveKinds
  <2>4. areas \in SUBSET Fb!FbArea
    BY AreasAre
  <2> HIDE DEF u, areas
  <2>5. Fb!Touch(u, areas) \in Tables /\ OthersStay(u, Fb!Touch(u, areas)) /\ Fb!Touch(u, areas).tops = u.tops /\ Fb!Touch(u, areas).dirty = u.dirty \cup areas
    BY <2>3, <2>4, TouchIs
  <2> HIDE DEF Tables
  <2> QED BY <1>4, <2>1, <2>2, <2>5 DEF Dispatched, OthersStay, Others
<1>5. CASE e.kind = "output_enter"
  <2> DEFINE u == [t EXCEPT !.entered = @ \cup ({e.id} \cap t.groups)]
             areas == Fb!Places
  <2>1. Fb!Dispatch(t, e) = Fb!Touch(u, areas) /\ Fb!About(e) = areas
    BY <1>5 DEF Fb!Dispatch, Fb!GroupEvent, Fb!About
  <2>2. u.unnamed = t.unnamed /\ u.named = t.named /\ u.groups = t.groups /\ u.entered = t.entered \cup ({e.id} \cap t.groups) /\ u.group = t.group /\ u.active = t.active /\ u.tops = t.tops /\ u.dirty = t.dirty
    BY <1>0, <1>5 DEF Tables
  <2>3. u \in Tables
    BY <1>0, <1>5 DEF Tables, KindFits, OutputKinds, WorkspaceKinds, ActiveKinds
  <2>4. areas \in SUBSET Fb!FbArea
    BY AreasAre
  <2> HIDE DEF u, areas
  <2>5. Fb!Touch(u, areas) \in Tables /\ OthersStay(u, Fb!Touch(u, areas)) /\ Fb!Touch(u, areas).tops = u.tops /\ Fb!Touch(u, areas).dirty = u.dirty \cup areas
    BY <2>3, <2>4, TouchIs
  <2> HIDE DEF Tables
  <2> QED BY <1>5, <2>1, <2>2, <2>5 DEF Dispatched, OthersStay, Others
<1>6. CASE e.kind = "output_leave"
  <2> DEFINE u == [t EXCEPT !.entered = @ \ {e.id}]
             areas == Fb!Places
  <2>1. Fb!Dispatch(t, e) = Fb!Touch(u, areas) /\ Fb!About(e) = areas
    BY <1>6 DEF Fb!Dispatch, Fb!GroupEvent, Fb!About
  <2>2. u.unnamed = t.unnamed /\ u.named = t.named /\ u.groups = t.groups /\ u.entered = t.entered \ {e.id} /\ u.group = t.group /\ u.active = t.active /\ u.tops = t.tops /\ u.dirty = t.dirty
    BY <1>0, <1>6 DEF Tables
  <2>3. u \in Tables
    BY <1>0, <1>6 DEF Tables, KindFits, OutputKinds, WorkspaceKinds, ActiveKinds
  <2>4. areas \in SUBSET Fb!FbArea
    BY AreasAre
  <2> HIDE DEF u, areas
  <2>5. Fb!Touch(u, areas) \in Tables /\ OthersStay(u, Fb!Touch(u, areas)) /\ Fb!Touch(u, areas).tops = u.tops /\ Fb!Touch(u, areas).dirty = u.dirty \cup areas
    BY <2>3, <2>4, TouchIs
  <2> HIDE DEF Tables
  <2> QED BY <1>6, <2>1, <2>2, <2>5 DEF Dispatched, OthersStay, Others
<1>7. CASE e.kind = "ws_enter"
  <2> DEFINE u == [t EXCEPT !.group[e.arg] = e.id]
             areas == Fb!Places
  <2>1. Fb!Dispatch(t, e) = Fb!Touch(u, areas) /\ Fb!About(e) = areas
    BY <1>7 DEF Fb!Dispatch, Fb!GroupEvent, Fb!About
  <2>2. u.unnamed = t.unnamed /\ u.named = t.named /\ u.groups = t.groups /\ u.entered = t.entered /\ u.group = [t.group EXCEPT ![e.arg] = e.id] /\ u.active = t.active /\ u.tops = t.tops /\ u.dirty = t.dirty
    BY <1>0, <1>7 DEF Tables
  <2>3. u \in Tables
    BY <1>0, <1>7 DEF Tables, KindFits, OutputKinds, WorkspaceKinds, ActiveKinds
  <2>4. areas \in SUBSET Fb!FbArea
    BY AreasAre
  <2> HIDE DEF u, areas
  <2>5. Fb!Touch(u, areas) \in Tables /\ OthersStay(u, Fb!Touch(u, areas)) /\ Fb!Touch(u, areas).tops = u.tops /\ Fb!Touch(u, areas).dirty = u.dirty \cup areas
    BY <2>3, <2>4, TouchIs
  <2> HIDE DEF Tables
  <2> QED BY <1>7, <2>1, <2>2, <2>5 DEF Dispatched, OthersStay, Others
<1>8. CASE e.kind = "ws_leave"
  <2> DEFINE u == [t EXCEPT !.group[e.arg] = NoFbOutput]
             areas == Fb!Places
  <2>1. Fb!Dispatch(t, e) = Fb!Touch(u, areas) /\ Fb!About(e) = areas
    BY <1>8 DEF Fb!Dispatch, Fb!GroupEvent, Fb!About
  <2>2. u.unnamed = t.unnamed /\ u.named = t.named /\ u.groups = t.groups /\ u.entered = t.entered /\ u.group = [t.group EXCEPT ![e.arg] = NoFbOutput] /\ u.active = t.active /\ u.tops = t.tops /\ u.dirty = t.dirty
    BY <1>0, <1>8 DEF Tables
  <2>3. u \in Tables
    BY <1>0, <1>8 DEF Tables, KindFits, OutputKinds, WorkspaceKinds, ActiveKinds
  <2>4. areas \in SUBSET Fb!FbArea
    BY AreasAre
  <2> HIDE DEF u, areas
  <2>5. Fb!Touch(u, areas) \in Tables /\ OthersStay(u, Fb!Touch(u, areas)) /\ Fb!Touch(u, areas).tops = u.tops /\ Fb!Touch(u, areas).dirty = u.dirty \cup areas
    BY <2>3, <2>4, TouchIs
  <2> HIDE DEF Tables
  <2> QED BY <1>8, <2>1, <2>2, <2>5 DEF Dispatched, OthersStay, Others
<1>9. CASE e.kind = "group_removed"
  <2> DEFINE u == [t EXCEPT !.groups = @ \ {e.id}, !.entered = @ \ {e.id}]
             areas == Fb!Places
  <2>1. Fb!Dispatch(t, e) = Fb!Touch(u, areas) /\ Fb!About(e) = areas
    BY <1>9 DEF Fb!Dispatch, Fb!GroupEvent, Fb!About
  <2>2. u.unnamed = t.unnamed /\ u.named = t.named /\ u.groups = t.groups \ {e.id} /\ u.entered = t.entered \ {e.id} /\ u.group = t.group /\ u.active = t.active /\ u.tops = t.tops /\ u.dirty = t.dirty
    BY <1>0, <1>9 DEF Tables
  <2>3. u \in Tables
    BY <1>0, <1>9 DEF Tables, KindFits, OutputKinds, WorkspaceKinds, ActiveKinds
  <2>4. areas \in SUBSET Fb!FbArea
    BY AreasAre
  <2> HIDE DEF u, areas
  <2>5. Fb!Touch(u, areas) \in Tables /\ OthersStay(u, Fb!Touch(u, areas)) /\ Fb!Touch(u, areas).tops = u.tops /\ Fb!Touch(u, areas).dirty = u.dirty \cup areas
    BY <2>3, <2>4, TouchIs
  <2> HIDE DEF Tables
  <2> QED BY <1>9, <2>1, <2>2, <2>5 DEF Dispatched, OthersStay, Others
<1>10. CASE e.kind = "active"
  <2> DEFINE u == [t EXCEPT !.active = @ \cup {e.id}]
             areas == Fb!Places
  <2>1. Fb!Dispatch(t, e) = Fb!Touch(u, areas) /\ Fb!About(e) = areas
    BY <1>10 DEF Fb!Dispatch, Fb!WorkspaceEvent, Fb!About
  <2>2. u.unnamed = t.unnamed /\ u.named = t.named /\ u.groups = t.groups /\ u.entered = t.entered /\ u.group = t.group /\ u.active = t.active \cup {e.id} /\ u.tops = t.tops /\ u.dirty = t.dirty
    BY <1>0, <1>10 DEF Tables
  <2>3. u \in Tables
    BY <1>0, <1>10 DEF Tables, KindFits, OutputKinds, WorkspaceKinds, ActiveKinds
  <2>4. areas \in SUBSET Fb!FbArea
    BY AreasAre
  <2> HIDE DEF u, areas
  <2>5. Fb!Touch(u, areas) \in Tables /\ OthersStay(u, Fb!Touch(u, areas)) /\ Fb!Touch(u, areas).tops = u.tops /\ Fb!Touch(u, areas).dirty = u.dirty \cup areas
    BY <2>3, <2>4, TouchIs
  <2> HIDE DEF Tables
  <2> QED BY <1>10, <2>1, <2>2, <2>5 DEF Dispatched, OthersStay, Others
<1>11. CASE e.kind = "inactive"
  <2> DEFINE u == [t EXCEPT !.active = @ \ {e.id}]
             areas == Fb!Places
  <2>1. Fb!Dispatch(t, e) = Fb!Touch(u, areas) /\ Fb!About(e) = areas
    BY <1>11 DEF Fb!Dispatch, Fb!WorkspaceEvent, Fb!About
  <2>2. u.unnamed = t.unnamed /\ u.named = t.named /\ u.groups = t.groups /\ u.entered = t.entered /\ u.group = t.group /\ u.active = t.active \ {e.id} /\ u.tops = t.tops /\ u.dirty = t.dirty
    BY <1>0, <1>11 DEF Tables
  <2>3. u \in Tables
    BY <1>0, <1>11 DEF Tables, KindFits, OutputKinds, WorkspaceKinds, ActiveKinds
  <2>4. areas \in SUBSET Fb!FbArea
    BY AreasAre
  <2> HIDE DEF u, areas
  <2>5. Fb!Touch(u, areas) \in Tables /\ OthersStay(u, Fb!Touch(u, areas)) /\ Fb!Touch(u, areas).tops = u.tops /\ Fb!Touch(u, areas).dirty = u.dirty \cup areas
    BY <2>3, <2>4, TouchIs
  <2> HIDE DEF Tables
  <2> QED BY <1>11, <2>1, <2>2, <2>5 DEF Dispatched, OthersStay, Others
<1> QED BY <1>0, <1>1, <1>2, <1>3, <1>4, <1>5, <1>6, <1>7, <1>8, <1>9, <1>10, <1>11 DEF KindFits, OutputKinds, WorkspaceKinds, ActiveKinds, OpenKinds, TextKinds

\* A window with a field changed.
LEMMA RowsChange ==
  \A r \in FbRows, x \in FbTexts :
    /\ [r EXCEPT !["title"] = x] = [id |-> r.id, title |-> x, activated |-> r.activated]
    /\ [r EXCEPT !["activated"] = (x = 1)] = [id |-> r.id, title |-> r.title, activated |-> (x = 1)]
    /\ [id |-> r.id, title |-> x, activated |-> r.activated] \in FbRows
    /\ [id |-> r.id, title |-> r.title, activated |-> (x = 1)] \in FbRows
<1> SUFFICES ASSUME NEW r \in FbRows, NEW x \in FbTexts
             PROVE  /\ [r EXCEPT !["title"] = x] = [id |-> r.id, title |-> x, activated |-> r.activated]
                    /\ [r EXCEPT !["activated"] = (x = 1)] = [id |-> r.id, title |-> r.title, activated |-> (x = 1)]
                    /\ [id |-> r.id, title |-> x, activated |-> r.activated] \in FbRows
                    /\ [id |-> r.id, title |-> r.title, activated |-> (x = 1)] \in FbRows
  OBVIOUS
<1>1. (x = 1) \in BOOLEAN
  OBVIOUS
<1> DEFINE b == (x = 1)
<1>2. b \in BOOLEAN
  BY <1>1
<1> HIDE DEF b
<1>3. [r EXCEPT !["title"] = x] = [id |-> r.id, title |-> x, activated |-> r.activated]
  <2>1. [r EXCEPT !["title"] = x] = [r EXCEPT !.title = x]
    OBVIOUS
  <2>2. [r EXCEPT !.title = x] = [id |-> r.id, title |-> x, activated |-> r.activated]
    BY DEF FbRows
  <2> QED BY <2>1, <2>2
<1>4. [r EXCEPT !["activated"] = b] = [id |-> r.id, title |-> r.title, activated |-> b]
  <2>1. [r EXCEPT !["activated"] = b] = [r EXCEPT !.activated = b]
    OBVIOUS
  <2>2. [r EXCEPT !.activated = b] = [id |-> r.id, title |-> r.title, activated |-> b]
    BY DEF FbRows
  <2> QED BY <2>1, <2>2
<1>5. [id |-> r.id, title |-> x, activated |-> r.activated] \in FbRows
  BY DEF FbRows
<1>6. [id |-> r.id, title |-> r.title, activated |-> b] \in FbRows
  BY <1>2 DEF FbRows
<1> QED BY <1>3, <1>4, <1>5, <1>6 DEF b

\* Events of windows leave the rest alone.
LEMMA TreeDispatched == \A t \in Tables, e \in FbEvents : e.kind \in {"toplevel", "title", "state", "closed"} => Dispatched(t, e, Fb!Dispatch(t, e))
<1> SUFFICES ASSUME NEW t \in Tables, NEW e \in FbEvents, e.kind \in {"toplevel", "title", "state", "closed"}
             PROVE  Dispatched(t, e, Fb!Dispatch(t, e))
  OBVIOUS
<1>0. KindFits(e) /\ 0 \in FbTexts
  BY KindsFit DEF FbTexts
<1>00. t.tops \in Seq(FbRows) /\ \A i \in DOMAIN t.tops : t.tops[i] \in FbRows
  BY DEF Tables
<1>000. FALSE \in BOOLEAN
  OBVIOUS
<1>1. CASE e.kind = "toplevel"
  <2> DEFINE r == [id |-> e.id, title |-> 0, activated |-> FALSE]
             s == Append(t.tops, r)
             u == [t EXCEPT !.tops = s]
             areas == Fb!Tree
  <2>1. Fb!Dispatch(t, e) = Fb!Touch([t EXCEPT !.tops = Append(@, [id |-> e.id, title |-> 0, activated |-> FALSE])], Fb!Tree) /\ Fb!About(e) = areas
    BY <1>1 DEF Fb!Dispatch, Fb!ToplevelManagerEvent, Fb!About
  <2>2. Fb!Dispatch(t, e) = Fb!Touch(u, areas)
    BY <2>1
  <2>3. r \in FbRows
    BY <1>0, <1>000, <1>1 DEF KindFits, OpenKinds, FbRows
  <2> HIDE DEF r
  <2>4. s \in Seq(FbRows)
    BY <1>00, <2>3
  <2>5. s = Append(t.tops, [id |-> e.id, title |-> 0, activated |-> FALSE])
    BY DEF r
  <2> HIDE DEF s
  <2>6. u.unnamed = t.unnamed /\ u.named = t.named /\ u.groups = t.groups /\ u.entered = t.entered /\ u.group = t.group /\ u.active = t.active /\ u.tops = s /\ u.dirty = t.dirty
    BY DEF Tables
  <2>7. u \in Tables
    BY <2>4 DEF Tables
  <2>8. areas \in SUBSET Fb!FbArea
    BY AreasAre
  <2> HIDE DEF u, areas
  <2>9. Fb!Touch(u, areas) \in Tables /\ OthersStay(u, Fb!Touch(u, areas)) /\ Fb!Touch(u, areas).tops = u.tops /\ Fb!Touch(u, areas).dirty = u.dirty \cup areas
    BY <2>7, <2>8, TouchIs
  <2> HIDE DEF Tables
  <2> QED BY <1>1, <2>1, <2>2, <2>5, <2>6, <2>9 DEF Dispatched, OthersStay, Others
<1>2. CASE e.kind = "closed"
  <2> DEFINE s == Fb!Without(t.tops, e.id)
             u == [t EXCEPT !.tops = s]
             areas == Fb!Tree
  <2>1. Fb!Dispatch(t, e) = Fb!Touch(u, areas) /\ Fb!About(e) = areas
    BY <1>2 DEF Fb!Dispatch, Fb!ToplevelEvent, Fb!About
  <2>4. s \in Seq(FbRows) /\ FbRowsOf(s) = {r \in FbRowsOf(t.tops) : r.id # e.id}
    BY <1>00, WithoutRows
  <2> HIDE DEF s
  <2>6. u.unnamed = t.unnamed /\ u.named = t.named /\ u.groups = t.groups /\ u.entered = t.entered /\ u.group = t.group /\ u.active = t.active /\ u.tops = s /\ u.dirty = t.dirty
    BY DEF Tables
  <2>7. u \in Tables
    BY <2>4 DEF Tables
  <2>8. areas \in SUBSET Fb!FbArea
    BY AreasAre
  <2> HIDE DEF u, areas
  <2>9. Fb!Touch(u, areas) \in Tables /\ OthersStay(u, Fb!Touch(u, areas)) /\ Fb!Touch(u, areas).tops = u.tops /\ Fb!Touch(u, areas).dirty = u.dirty \cup areas
    BY <2>7, <2>8, TouchIs
  <2> HIDE DEF Tables
  <2> QED BY <1>2, <2>1, <2>4, <2>6, <2>9 DEF Dispatched, OthersStay, Others
<1>3. CASE e.kind = "title"
  <2> DEFINE s == [i \in DOMAIN t.tops |-> FbTitled(t.tops[i], e.id, e.arg)]
             raw == [i \in DOMAIN t.tops |-> IF t.tops[i].id = e.id THEN [t.tops[i] EXCEPT !["title"] = e.arg] ELSE t.tops[i]]
             u == [t EXCEPT !.tops = s]
             v == [t EXCEPT !.tops = raw]
             areas == {"windows"}
  <2>1. Fb!Dispatch(t, e) = Fb!Touch(v, areas) /\ Fb!About(e) = areas
    BY <1>3 DEF Fb!Dispatch, Fb!ToplevelEvent, Fb!About, Fb!Patched
  <2>2. e.arg \in FbTexts
    BY <1>0, <1>3 DEF KindFits, TextKinds
  <2>3. \A i \in DOMAIN t.tops : s[i] = raw[i] /\ s[i] \in FbRows
    <3> SUFFICES ASSUME NEW i \in DOMAIN t.tops PROVE s[i] = raw[i] /\ s[i] \in FbRows
      OBVIOUS
    <3> DEFINE r == t.tops[i]
    <3>1. r \in FbRows
      BY <1>00
    <3>2. s[i] = FbTitled(r, e.id, e.arg) /\ raw[i] = IF r.id = e.id THEN [r EXCEPT !["title"] = e.arg] ELSE r
      OBVIOUS
    <3> HIDE DEF s, raw, r
    <3>3. CASE r.id = e.id
      <4>1. FbTitled(r, e.id, e.arg) = [id |-> r.id, title |-> e.arg, activated |-> r.activated]
        BY <3>3 DEF FbTitled
      <4>2. raw[i] = [r EXCEPT !["title"] = e.arg]
        BY <3>2, <3>3
      <4> DEFINE x == e.arg
      <4>3. x \in FbTexts
        BY <2>2
      <4> HIDE DEF x
      <4>4. [r EXCEPT !["title"] = x] = [id |-> r.id, title |-> x, activated |-> r.activated] /\ [id |-> r.id, title |-> x, activated |-> r.activated] \in FbRows
        BY <3>1, <4>3, RowsChange
      <4>5. s[i] = [id |-> r.id, title |-> x, activated |-> r.activated] /\ raw[i] = [r EXCEPT !["title"] = x]
        BY <3>2, <4>1, <4>2 DEF x
      <4> QED BY <4>4, <4>5
    <3>4. CASE r.id # e.id
      BY <3>1, <3>2, <3>4 DEF FbTitled
    <3> QED BY <3>3, <3>4
  <2>4. s = raw
    BY <2>3
  <2>5. s \in Seq(FbRows)
    <3>1. Len(t.tops) \in Nat /\ DOMAIN t.tops = 1..Len(t.tops)
      BY <1>00
    <3>2. \A i \in 1..Len(t.tops) : s[i] \in FbRows
      BY <2>3, <3>1
    <3>3. s = [i \in 1..Len(t.tops) |-> s[i]]
      BY <3>1
    <3> HIDE DEF s, FbRows
    <3>4. [i \in 1..Len(t.tops) |-> s[i]] \in Seq(FbRows)
      BY <3>1, <3>2
    <3> QED BY <3>3, <3>4
  <2>6. Fb!Dispatch(t, e) = Fb!Touch(u, areas)
    BY <2>1, <2>4
  <2>7. s = [i \in DOMAIN t.tops |-> FbTitled(t.tops[i], e.id, e.arg)]
    OBVIOUS
  <2> HIDE DEF s, raw, v
  <2>8. u.unnamed = t.unnamed /\ u.named = t.named /\ u.groups = t.groups /\ u.entered = t.entered /\ u.group = t.group /\ u.active = t.active /\ u.tops = s /\ u.dirty = t.dirty
    BY DEF Tables
  <2>9. u \in Tables
    BY <2>5 DEF Tables
  <2>10. areas \in SUBSET Fb!FbArea
    BY AreasAre
  <2> HIDE DEF u, areas
  <2>11. Fb!Touch(u, areas) \in Tables /\ OthersStay(u, Fb!Touch(u, areas)) /\ Fb!Touch(u, areas).tops = u.tops /\ Fb!Touch(u, areas).dirty = u.dirty \cup areas
    BY <2>9, <2>10, TouchIs
  <2> HIDE DEF Tables
  <2> QED BY <1>3, <2>1, <2>6, <2>7, <2>8, <2>11 DEF Dispatched, OthersStay, Others
<1>4. CASE e.kind = "state"
  <2> DEFINE s == [i \in DOMAIN t.tops |-> Lit(t.tops[i], e.id, e.arg)]
             raw == [i \in DOMAIN t.tops |-> IF t.tops[i].id = e.id THEN [t.tops[i] EXCEPT !["activated"] = (e.arg = 1)] ELSE t.tops[i]]
             u == [t EXCEPT !.tops = s]
             v == [t EXCEPT !.tops = raw]
             areas == Fb!Tree
  <2>1. Fb!Dispatch(t, e) = Fb!Touch(v, areas) /\ Fb!About(e) = areas
    BY <1>4 DEF Fb!Dispatch, Fb!ToplevelEvent, Fb!About, Fb!Patched
  <2>2. e.arg \in FbTexts
    BY <1>0, <1>4 DEF KindFits, TextKinds
  <2>3. \A i \in DOMAIN t.tops : s[i] = raw[i] /\ s[i] \in FbRows
    <3> SUFFICES ASSUME NEW i \in DOMAIN t.tops PROVE s[i] = raw[i] /\ s[i] \in FbRows
      OBVIOUS
    <3> DEFINE r == t.tops[i]
    <3>1. r \in FbRows
      BY <1>00
    <3>2. s[i] = Lit(r, e.id, e.arg) /\ raw[i] = IF r.id = e.id THEN [r EXCEPT !["activated"] = (e.arg = 1)] ELSE r
      OBVIOUS
    <3> HIDE DEF s, raw, r
    <3>3. CASE r.id = e.id
      <4>1. Lit(r, e.id, e.arg) = [id |-> r.id, title |-> r.title, activated |-> (e.arg = 1)]
        BY <3>3 DEF Lit
      <4>2. raw[i] = [r EXCEPT !["activated"] = (e.arg = 1)]
        BY <3>2, <3>3
      <4> DEFINE x == e.arg
      <4>3. x \in FbTexts
        BY <2>2
      <4> HIDE DEF x
      <4>4. [r EXCEPT !["activated"] = (x = 1)] = [id |-> r.id, title |-> r.title, activated |-> (x = 1)] /\ [id |-> r.id, title |-> r.title, activated |-> (x = 1)] \in FbRows
        BY <3>1, <4>3, RowsChange
      <4>5. s[i] = [id |-> r.id, title |-> r.title, activated |-> (x = 1)] /\ raw[i] = [r EXCEPT !["activated"] = (x = 1)]
        BY <3>2, <4>1, <4>2 DEF x
      <4> QED BY <4>4, <4>5
    <3>4. CASE r.id # e.id
      BY <3>1, <3>2, <3>4 DEF Lit
    <3> QED BY <3>3, <3>4
  <2>4. s = raw
    BY <2>3
  <2>5. s \in Seq(FbRows)
    <3>1. Len(t.tops) \in Nat /\ DOMAIN t.tops = 1..Len(t.tops)
      BY <1>00
    <3>2. \A i \in 1..Len(t.tops) : s[i] \in FbRows
      BY <2>3, <3>1
    <3>3. s = [i \in 1..Len(t.tops) |-> s[i]]
      BY <3>1
    <3> HIDE DEF s, FbRows
    <3>4. [i \in 1..Len(t.tops) |-> s[i]] \in Seq(FbRows)
      BY <3>1, <3>2
    <3> QED BY <3>3, <3>4
  <2>6. Fb!Dispatch(t, e) = Fb!Touch(u, areas)
    BY <2>1, <2>4
  <2>7. s = [i \in DOMAIN t.tops |-> Lit(t.tops[i], e.id, e.arg)]
    OBVIOUS
  <2> HIDE DEF s, raw, v
  <2>8. u.unnamed = t.unnamed /\ u.named = t.named /\ u.groups = t.groups /\ u.entered = t.entered /\ u.group = t.group /\ u.active = t.active /\ u.tops = s /\ u.dirty = t.dirty
    BY DEF Tables
  <2>9. u \in Tables
    BY <2>5 DEF Tables
  <2>10. areas \in SUBSET Fb!FbArea
    BY AreasAre
  <2> HIDE DEF u, areas
  <2>11. Fb!Touch(u, areas) \in Tables /\ OthersStay(u, Fb!Touch(u, areas)) /\ Fb!Touch(u, areas).tops = u.tops /\ Fb!Touch(u, areas).dirty = u.dirty \cup areas
    BY <2>9, <2>10, TouchIs
  <2> HIDE DEF Tables
  <2> QED BY <1>4, <2>1, <2>6, <2>7, <2>8, <2>11 DEF Dispatched, OthersStay, Others
<1> QED BY <1>1, <1>2, <1>3, <1>4

\* What an event makes of the tables.
LEMMA DispatchIs == \A t \in Tables, e \in FbEvents : Dispatched(t, e, Fb!Dispatch(t, e))
  BY PlainDispatched, TreeDispatched

\* The run over the events.
FbIsRun(run, b, E) ==
  /\ run \in [0..Len(E) -> Tables] /\ run[0] = b /\ FbRan(b, E) = run[Len(E)]
  /\ \A i \in 1..Len(E) : run[i] = Fb!Dispatch(run[i - 1], E[i]) /\ Dispatched(run[i - 1], E[i], run[i])

\* There is one.
LEMMA FbRunThereIs == \A b \in Tables, E \in Seq(FbEvents) : \E run : FbIsRun(run, b, E)
<1> SUFFICES ASSUME NEW b \in Tables, NEW E \in Seq(FbEvents) PROVE \E run : FbIsRun(run, b, E)
  OBVIOUS
<1> DEFINE N == Len(E)
<1>1. N \in Nat /\ DOMAIN E = 1..N /\ \A i \in 1..N : E[i] \in FbEvents
  OBVIOUS
<1>4. \A r \in Tables, i \in 1..N : Fb!Dispatch(r, E[i]) \in Tables /\ Dispatched(r, E[i], Fb!Dispatch(r, E[i]))
  <2> SUFFICES ASSUME NEW r \in Tables, NEW i \in 1..N
               PROVE  Fb!Dispatch(r, E[i]) \in Tables /\ Dispatched(r, E[i], Fb!Dispatch(r, E[i]))
    OBVIOUS
  <2>1. E[i] \in FbEvents
    BY <1>1
  <2>2. Dispatched(r, E[i], Fb!Dispatch(r, E[i]))
    BY <2>1, DispatchIs
  <2> DEFINE q == Fb!Dispatch(r, E[i])
  <2> HIDE DEF q
  <2>3. Dispatched(r, E[i], q) => q \in Tables
    BY DEF Dispatched
  <2> QED BY <2>2, <2>3 DEF q
<1> HIDE DEF N
<1>8. \A r \in Tables, i \in 1..N : Fb!Dispatch(r, E[i]) \in Tables
  BY <1>4
<1>9. FbSteady(Tables, N, E)
  BY <1>8 DEF FbSteady
<1>10. \E run : FbRuns(run, Tables, b, N, E)
  BY <1>1, <1>9, FbRunsThereAre
<1>5. PICK run \in [0..N -> Tables] :
        run[0] = b /\ FbRan(b, E) = run[N] /\ \A i \in 1..N : run[i] = Fb!Dispatch(run[i - 1], E[i])
  BY <1>10 DEF FbRuns
<1>6. \A i \in 1..N : run[i - 1] \in Tables
  BY <1>1
<1>7. FbIsRun(run, b, E)
  BY <1>4, <1>5, <1>6 DEF FbIsRun, N
<1> QED BY <1>7

\* What is read comes to tables.
LEMMA FbRanTyped == \A b \in Tables, E \in Seq(FbEvents) : FbRan(b, E) \in Tables
<1> SUFFICES ASSUME NEW b \in Tables, NEW E \in Seq(FbEvents) PROVE FbRan(b, E) \in Tables
  OBVIOUS
<1>1. PICK run : FbIsRun(run, b, E)
  BY FbRunThereIs
<1> QED BY <1>1 DEF FbIsRun

\* Reading more goes on from where reading was.
FbFrom(run, b, E, L) ==
  /\ run \in [0..Len(L) -> Tables] /\ run[0] = FbRan(b, E) /\ run[Len(L)] = FbRan(b, E \o L)
  /\ \A i \in 1..Len(L) : Dispatched(run[i - 1], L[i], run[i])

\* There is a run from there.
LEMMA FbReadsOn == \A b \in Tables, E \in Seq(FbEvents), L \in Seq(FbEvents) : \E run : FbFrom(run, b, E, L)
<1> SUFFICES ASSUME NEW b \in Tables, NEW E \in Seq(FbEvents), NEW L \in Seq(FbEvents) PROVE \E run : FbFrom(run, b, E, L)
  OBVIOUS
<1> DEFINE N == Len(E)
           M == Len(L)
           F == E \o L
<1>1. PICK f : FbIsRun(f, b, E)
  BY FbRunThereIs
<1>2. F \in Seq(FbEvents) /\ Len(F) = N + M /\ N \in Nat /\ M \in Nat /\ (\A i \in 1..N : F[i] = E[i]) /\ (\A i \in 1..M : F[N + i] = L[i])
  OBVIOUS
<1>3. PICK g : FbIsRun(g, b, F)
  BY <1>2, FbRunThereIs
<1> HIDE DEF F, N, M
<1>4. g[0] = f[0] /\ \A i \in 1..N : (g[i - 1] = f[i - 1] => g[i] = f[i])
  <2>1. \A i \in 1..N : i \in 1..N + M
    BY <1>2
  <2> QED BY <1>1, <1>2, <1>3, <2>1 DEF FbIsRun, N
<1>41. N \in Nat /\ g[0] = f[0]
  BY <1>2, <1>4
<1>42. \A i \in 1..N : g[i - 1] = f[i - 1] => g[i] = f[i]
  BY <1>4
<1>5. \A i \in 0..N : g[i] = f[i]
  <2> DEFINE S == {i \in 0..N : g[i] = f[i]}
  <2>1. 0 \in S
    BY <1>41
  <2>2. \A i \in 1..N : i - 1 \in 0..N /\ i \in 0..N
    BY <1>41
  <2>3. \A i \in 1..N : i - 1 \in S => i \in S
    BY <1>42, <2>2
  <2> HIDE DEF S
  <2>4. \A i \in 0..N : i \in S
    BY <1>41, <2>1, <2>3, UpTo
  <2> QED BY <2>4 DEF S
<1> DEFINE run == [i \in 0..M |-> g[N + i]]
<1>6. \A i \in 0..M : N + i \in 0..N + M
  BY <1>2
<1>7. run \in [0..M -> Tables]
  BY <1>2, <1>3, <1>6 DEF FbIsRun
<1>8. run[0] = FbRan(b, E)
  <2>1. run[0] = g[N] /\ N \in 0..N
    BY <1>2
  <2> QED BY <1>1, <1>5, <2>1 DEF FbIsRun, N
<1>9. run[M] = FbRan(b, F)
  BY <1>2, <1>3 DEF FbIsRun
<1>10. ASSUME NEW i \in 1..M PROVE Dispatched(run[i - 1], L[i], run[i])
  <2>1. N + i \in 1..N + M /\ i - 1 \in 0..M /\ i \in 0..M /\ N + (i - 1) = (N + i) - 1
    BY <1>2
  <2>2. run[i - 1] = g[(N + i) - 1] /\ run[i] = g[N + i] /\ F[N + i] = L[i]
    BY <1>2, <2>1
  <2>3. Dispatched(g[(N + i) - 1], F[N + i], g[N + i])
    BY <1>2, <1>3, <2>1 DEF FbIsRun
  <2> QED BY <2>2, <2>3
<1> HIDE DEF run
<1>11. FbFrom(run, b, E, L)
  BY <1>7, <1>8, <1>9, <1>10 DEF FbFrom, M, F
<1> QED BY <1>11

\* The windows that are activated.
LitAt(s) == {i \in 1..Len(s) : s[i].activated}

\* The focus is the first of them.
LEMMA FocusIs == \A t : Fb!Focus(t) = IF LitAt(t.tops) # {} THEN (IF Min(LitAt(t.tops)) = 0 THEN NoToplevel ELSE t.tops[Min(LitAt(t.tops))].id) ELSE NoToplevel
<1> SUFFICES ASSUME NEW t PROVE Fb!Focus(t) = IF LitAt(t.tops) # {} THEN (IF Min(LitAt(t.tops)) = 0 THEN NoToplevel ELSE t.tops[Min(LitAt(t.tops))].id) ELSE NoToplevel
  OBVIOUS
<1>1. LitAt(t.tops) = {i \in 1..Len(t.tops) : t.tops[i].activated}
  BY DEF LitAt
<1>2. \A S : Fb!Min(S) = Min(S)
  BY DEF Fb!Min, Min
<1>3. Fb!Focus(t) = LET i == IF LitAt(t.tops) # {} THEN Min(LitAt(t.tops)) ELSE 0 IN IF i = 0 THEN NoToplevel ELSE t.tops[i].id
  BY <1>1, <1>2 DEF Fb!Focus, Fb!SelectInSeq
<1> QED BY <1>3

\* What the windows show of themselves.
FbShown(r) == [id |-> r.id, title |-> r.title]

\* The windows shown are those of the rows.
LEMMA WindowsAre == \A t \in Tables : Fb!Windows(t) = {FbShown(r) : r \in FbRowsOf(t.tops)}
  BY DEF Fb!Windows, FbRowsOf, FbShown

\* What is shown of an area.
LEMMA SyncIs == \A t :
  /\ Fb!SyncState(t)["monitors"] = Fb!Monitors(t) /\ Fb!SyncState(t)["workspaces"] = Fb!Workspaces(t)
  /\ Fb!SyncState(t)["windows"] = Fb!Windows(t) /\ Fb!SyncState(t)["focus"] = Fb!Focus(t)
  BY DEF Fb!SyncState

\* A new title moves no focus.
LEMMA TitleKeepsFocus == \A t, q \in Tables, id \in Toplevel, x \in FbTexts :
  q.tops = [i \in DOMAIN t.tops |-> FbTitled(t.tops[i], id, x)] => Fb!Focus(q) = Fb!Focus(t)
<1> SUFFICES ASSUME NEW t \in Tables, NEW q \in Tables, NEW id \in Toplevel, NEW x \in FbTexts,
                    q.tops = [i \in DOMAIN t.tops |-> FbTitled(t.tops[i], id, x)]
             PROVE  Fb!Focus(q) = Fb!Focus(t)
  OBVIOUS
<1> DEFINE s == t.tops
           u == q.tops
<1>1. s \in Seq(FbRows) /\ u \in Seq(FbRows)
  BY DEF Tables
<1>2. DOMAIN u = DOMAIN s /\ \A i \in DOMAIN s : u[i] = FbTitled(s[i], id, x)
  OBVIOUS
<1>3. Len(s) \in Nat /\ DOMAIN s = 1..Len(s) /\ Len(u) \in Nat /\ DOMAIN u = 1..Len(u) /\ \A i \in 1..Len(s) : s[i] \in FbRows
  BY <1>1
<1> HIDE DEF s, u
<1>4. Len(u) = Len(s)
  BY <1>2, <1>3
<1>5. \A i \in 1..Len(s) : u[i].activated = s[i].activated /\ u[i].id = s[i].id
  BY <1>2, <1>3 DEF FbTitled
<1>6. LitAt(u) = LitAt(s) /\ LitAt(s) \in SUBSET Nat /\ LitAt(s) \subseteq 1..Len(s)
  BY <1>4, <1>5 DEF LitAt
<1>7. LitAt(s) # {} => Min(LitAt(s)) \in 1..Len(s)
  <2> SUFFICES ASSUME LitAt(s) # {} PROVE Min(LitAt(s)) \in 1..Len(s)
    OBVIOUS
  <2>1. Min(LitAt(s)) \in LitAt(s)
    BY <1>6, LeastThereIs
  <2> QED BY <1>6, <2>1
<1>8. Fb!Focus(q) = (IF LitAt(u) # {} THEN (IF Min(LitAt(u)) = 0 THEN NoToplevel ELSE u[Min(LitAt(u))].id) ELSE NoToplevel)
  BY FocusIs DEF u
<1>9. Fb!Focus(t) = (IF LitAt(s) # {} THEN (IF Min(LitAt(s)) = 0 THEN NoToplevel ELSE s[Min(LitAt(s))].id) ELSE NoToplevel)
  BY FocusIs DEF s
<1> QED BY <1>5, <1>6, <1>7, <1>8, <1>9

\* An event changes what is shown of the areas it is about, and of no other.
LEMMA DispatchedShows == \A t, q \in Tables, e \in FbEvents, a \in Fb!FbArea :
  Dispatched(t, e, q) /\ a \notin Fb!About(e) => Fb!SyncState(t)[a] = Fb!SyncState(q)[a]
<1> SUFFICES ASSUME NEW t \in Tables, NEW q \in Tables, NEW e \in FbEvents, NEW a \in Fb!FbArea, Dispatched(t, e, q), a \notin Fb!About(e)
             PROVE  Fb!SyncState(t)[a] = Fb!SyncState(q)[a]
  OBVIOUS
<1>1. KindFits(e)
  BY KindsFit
<1>2. CASE a = "monitors"
  <2>1. e.kind \in {"global_remove", "title", "state", "toplevel", "closed"}
    BY <1>1, <1>2 DEF KindFits, OutputKinds, WorkspaceKinds, ActiveKinds, OpenKinds, TextKinds, Fb!About, Fb!Places
  <2>2. q.named = t.named /\ q.unnamed = t.unnamed
    BY <2>1 DEF Dispatched, OthersStay, Others
  <2> QED BY <1>2, <2>2, SyncIs DEF Fb!Monitors
<1>3. CASE a = "workspaces"
  <2>1. e.kind \in {"global_remove", "global", "name", "title", "state", "toplevel", "closed"}
    BY <1>1, <1>3 DEF KindFits, OutputKinds, WorkspaceKinds, ActiveKinds, OpenKinds, TextKinds, Fb!About, Fb!Places
  <2>2. q.group = t.group /\ q.entered = t.entered /\ q.active = t.active
    BY <2>1 DEF Dispatched, OthersStay, Others
  <2>3. Fb!Workspaces(q) = Fb!Workspaces(t)
    BY <2>2 DEF Fb!Workspaces, Fb!WorkspaceOutput
  <2> QED BY <1>3, <2>3, SyncIs
<1>4. CASE a = "windows"
  <2>1. e.kind \notin {"title", "state", "toplevel", "closed"}
    BY <1>4 DEF Fb!About, Fb!Tree
  <2>2. q.tops = t.tops
    BY <2>1 DEF Dispatched
  <2>3. Fb!Windows(q) = Fb!Windows(t)
    BY <2>2 DEF Fb!Windows
  <2> QED BY <1>4, <2>3, SyncIs
<1>5. CASE a = "focus"
  <2>1. e.kind \notin {"state", "toplevel", "closed"}
    BY <1>5 DEF Fb!About, Fb!Tree
  <2>2. CASE e.kind = "title"
    <3>1. q.tops = [i \in DOMAIN t.tops |-> FbTitled(t.tops[i], e.id, e.arg)]
      BY <2>2 DEF Dispatched
    <3>2. e.id \in Toplevel /\ e.arg \in FbTexts
      BY <1>1, <2>2 DEF KindFits, TextKinds
    <3>3. Fb!Focus(q) = Fb!Focus(t)
      BY <3>1, <3>2, TitleKeepsFocus
    <3> QED BY <1>5, <3>3, SyncIs
  <2>3. CASE e.kind # "title"
    <3>1. q.tops = t.tops
      BY <2>1, <2>3 DEF Dispatched
    <3>2. Fb!Focus(q) = Fb!Focus(t)
      BY <3>1, FocusIs
    <3> QED BY <1>5, <3>2, SyncIs
  <2> QED BY <2>2, <2>3
<1> QED BY <1>2, <1>3, <1>4, <1>5 DEF Fb!FbArea

\* What events are about.
AboutAll(E) == UNION {Fb!About(E[i]) : i \in DOMAIN E}

\* What was read marks what it was about, and what is not marked is shown as before.
FbSofar(b, E, t) == t.dirty = b.dirty \cup AboutAll(E) /\ \A a \in Fb!FbArea : a \notin t.dirty => Fb!SyncState(t)[a] = Fb!SyncState(b)[a]

\* It does so all along.
LEMMA FbRanMarks == \A b \in Tables, E \in Seq(FbEvents) : FbSofar(b, E, FbRan(b, E))
<1> SUFFICES ASSUME NEW b \in Tables, NEW E \in Seq(FbEvents) PROVE FbSofar(b, E, FbRan(b, E))
  OBVIOUS
<1> DEFINE N == Len(E)
           Upto(i) == UNION {Fb!About(E[j]) : j \in 1..i}
<1>1. PICK run : FbIsRun(run, b, E)
  BY FbRunThereIs
<1>2. N \in Nat /\ DOMAIN E = 1..N /\ (\A i \in 1..N : i - 1 \in 0..N /\ i \in 0..N) /\ \A i \in 1..N : E[i] \in FbEvents
  OBVIOUS
<1>3. \A i \in 0..N : run[i] \in Tables
  BY <1>1, <1>2 DEF FbIsRun
<1> HIDE DEF N
<1> DEFINE P(i) == run[i].dirty = b.dirty \cup Upto(i) /\ \A a \in Fb!FbArea : a \notin run[i].dirty => Fb!SyncState(run[i])[a] = Fb!SyncState(b)[a]
           S == {i \in 0..N : P(i)}
<1>4. 0 \in S
  <2>1. run[0] = b /\ 0 \in 0..N /\ 1..0 = {}
    BY <1>1, <1>2 DEF FbIsRun
  <2>2. Upto(0) = {}
    BY <2>1
  <2> QED BY <2>1, <2>2
<1>5. ASSUME NEW i \in 1..N, i - 1 \in S PROVE i \in S
  <2> DEFINE r == run[i - 1]
             q == run[i]
             e == E[i]
  <2>1. Dispatched(r, e, q) /\ r \in Tables /\ q \in Tables /\ e \in FbEvents /\ i \in 0..N
    BY <1>1, <1>2, <1>3 DEF FbIsRun, N
  <2>2. r.dirty = b.dirty \cup Upto(i - 1) /\ \A a \in Fb!FbArea : a \notin r.dirty => Fb!SyncState(r)[a] = Fb!SyncState(b)[a]
    BY <1>5
  <2>3. 1..i = (1..(i - 1)) \cup {i}
    BY <1>2
  <2>4. Upto(i) = Upto(i - 1) \cup Fb!About(e)
    BY <2>3
  <2> HIDE DEF Upto, r, q, e
  <2>5. q.dirty = b.dirty \cup Upto(i)
    <3>1. q.dirty = r.dirty \cup Fb!About(e)
      BY <2>1 DEF Dispatched
    <3> QED BY <2>2, <2>4, <3>1
  <2>6. ASSUME NEW a \in Fb!FbArea, a \notin q.dirty PROVE Fb!SyncState(q)[a] = Fb!SyncState(b)[a]
    <3>1. a \notin r.dirty /\ a \notin Fb!About(e)
      BY <2>1, <2>6 DEF Dispatched
    <3>2. Fb!SyncState(r)[a] = Fb!SyncState(q)[a]
      BY <2>1, <3>1, DispatchedShows
    <3> QED BY <2>2, <3>1, <3>2
  <2> QED BY <2>1, <2>5, <2>6 DEF q
<1> HIDE DEF S
<1>6. \A i \in 0..N : i \in S
  BY <1>2, <1>4, <1>5, UpTo
<1>7. N \in 0..N /\ FbRan(b, E) = run[N]
  BY <1>1, <1>2 DEF FbIsRun, N
<1>8. P(N)
  BY <1>6, <1>7 DEF S
<1>9. Upto(N) = AboutAll(E)
  BY <1>2 DEF AboutAll
<1> QED BY <1>7, <1>8, <1>9 DEF FbSofar

\* What the compositor can be, with the outputs it has answered the binding of.
FbWorlds == [tops : SUBSET Toplevel, title : [Toplevel -> FbTexts], focus : Toplevel \cup {NoToplevel}, outputs : SUBSET FbOutput,
             active : FbSpace, at : [FbSpace -> FbOutput]]

FbWorldFits(s, bound) ==
  s \in FbWorlds /\ s.focus \in s.tops \cup {NoToplevel} /\ bound \subseteq s.outputs /\ \A p \in FbSpace : s.at[p] \in s.outputs

\* Rows that say what the windows are, which titles they have, and which are activated.
RowsHold(rows, tops, title, lit) ==
  /\ \A r \in rows : r.id \in tops /\ r.title = title[r.id] /\ (r.activated <=> r.id \in lit)
  /\ \A w \in tops : \E r \in rows : r.id = w

\* Tables that say what outputs, groups and workspaces are.
PlacesHold(t, outputs, bound, at, active) ==
  /\ t.active = {active} /\ t.group = at /\ t.groups = outputs /\ t.entered = bound
  /\ t.unnamed = outputs \ bound /\ bound \subseteq t.named

FbAgree(t, s, bound) ==
  RowsHold(FbRowsOf(t.tops), s.tops, s.title, {s.focus} \cap Toplevel) /\ PlacesHold(t, s.outputs, bound, s.at, s.active)

\* The inductive invariant: what the waiting events would make of the tables is
\* what is so, and what is shown is derived from the tables.
FbTyped ==
  /\ FbWorldFits(fb, fb_bound) /\ fb_events \in Seq(FbEvents) /\ fb_inner \in Tables /\ fb_inner.entered \subseteq fb_inner.groups
  /\ fb_untold = {} /\ fb_broken \in BOOLEAN /\ fb_state.focus \in Toplevel \cup {NoToplevel}

FbInv ==
  /\ FbTyped
  /\ ~fb_broken => fb_inner.dirty = {} /\ fb_state = Fb!SyncState(fb_inner) /\ FbAgree(FbRan(fb_inner, fb_events), fb, fb_bound)

\* The world of the view.
FbWorldOf(s) ==
  [monitors |-> [named |-> s.outputs, unnamed |-> {}],
   workspaces |-> [p \in FbSpace |-> [output |-> s.at[p], active |-> p = s.active]],
   windows |-> {[id |-> w, title |-> s.title[w]] : w \in s.tops}, focus |-> s.focus]
FbDiffer(s, u) == {a \in Fb!FbArea : FbWorldOf(s)[a] # FbWorldOf(u)[a]}

\* Something happened, and events say so.
LEMMA FbHappened ==
  ASSUME FbInv, NEW s, NEW bound, NEW EL \in Seq(FbEvents), fb' = s, fb_bound' = bound, fb_events' = EL,
         UNCHANGED <<fb_inner, fb_state, fb_untold, fb_broken>>, FbWorldFits(s, bound),
         ~fb_broken => FbAgree(FbRan(fb_inner, EL), s, bound),
         AboutAll(fb_events) \subseteq AboutAll(EL), FbDiffer(fb, s) \subseteq AboutAll(EL),
         (s.outputs = fb.outputs /\ bound = fb_bound) \/ Fb!Places \subseteq AboutAll(EL)
  PROVE  FbInv' /\ Fb!View!WorldMoves
<1>1. FbTyped'
  BY DEF FbInv, FbTyped
<1>2. FbInv'
  BY <1>1 DEF FbInv
<1>3. AboutAll(EL) \subseteq Fb!FbArea
  <2>1. \A i \in DOMAIN EL : Fb!About(EL[i]) \subseteq Fb!FbArea
    <3> SUFFICES ASSUME NEW i \in DOMAIN EL PROVE Fb!About(EL[i]) \subseteq Fb!FbArea
      OBVIOUS
    <3>1. EL[i] \in FbEvents
      OBVIOUS
    <3> QED BY <3>1, FbAboutIs
  <2> QED BY <2>1 DEF AboutAll
<1> DEFINE old == AboutAll(fb_events) \cup (IF Fb!Gone # {} THEN {"monitors"} ELSE {}) \cup (IF fb.outputs \subseteq fb_bound THEN {} ELSE Fb!Places)
           gone == (fb_inner.named \cup fb_inner.unnamed) \ s.outputs
           new == AboutAll(EL) \cup (IF gone # {} THEN {"monitors"} ELSE {}) \cup (IF s.outputs \subseteq bound THEN {} ELSE Fb!Places)
<1>4. old \cup FbDiffer(fb, s) \subseteq new
  <2>1. CASE s.outputs = fb.outputs /\ bound = fb_bound
    BY <2>1 DEF Fb!Gone
  <2>2. CASE Fb!Places \subseteq AboutAll(EL)
    BY <2>2 DEF Fb!Places
  <2> QED BY <2>1, <2>2
<1> DEFINE was == IF fb_broken THEN Fb!FbArea ELSE old
           is == IF fb_broken THEN Fb!FbArea ELSE new
<1>5. was \cup FbDiffer(fb, s) \subseteq is
  <2> HIDE DEF old, new
  <2>1. FbDiffer(fb, s) \subseteq Fb!FbArea
    BY DEF FbDiffer
  <2> QED BY <1>4, <2>1
<1>6. Fb!Behind = was
  BY DEF Fb!Behind, AboutAll
<1>7. Fb!Behind' = is
  BY DEF Fb!Behind, Fb!Gone, AboutAll
<1> HIDE DEF was, is
<1>8. UNCHANGED <<fb_state, fb_untold>>
  OBVIOUS
<1>9. {a \in Fb!FbArea : FbWorldOf(fb)[a] # FbWorldOf(fb')[a]} \cup Fb!Behind \subseteq Fb!Behind'
  BY <1>5, <1>6, <1>7 DEF FbDiffer
<1>10. Fb!View!WorldMoves
  BY <1>8, <1>9 DEF Fb!View!WorldMoves, Fb!View!Differ, FbWorldOf
<1> QED BY <1>2, <1>10

\* What is said when more is said.
LEMMA FbAboutJoins == \A E \in Seq(FbEvents), L \in Seq(FbEvents) : E \o L \in Seq(FbEvents) /\ AboutAll(E \o L) = AboutAll(E) \cup AboutAll(L)
<1> SUFFICES ASSUME NEW E \in Seq(FbEvents), NEW L \in Seq(FbEvents) PROVE AboutAll(E \o L) = AboutAll(E) \cup AboutAll(L)
  OBVIOUS
<1> DEFINE N == Len(E)
           M == Len(L)
           F == E \o L
<1>1. N \in Nat /\ M \in Nat /\ DOMAIN E = 1..N /\ DOMAIN L = 1..M /\ DOMAIN F = 1..(N + M)
      /\ (\A i \in 1..N : F[i] = E[i]) /\ (\A i \in 1..M : F[N + i] = L[i])
  OBVIOUS
<1> HIDE DEF N, M, F
<1>2. \A i \in 1..(N + M) : i \in 1..N \/ (i - N \in 1..M /\ N + (i - N) = i)
  BY <1>1
<1>3. AboutAll(F) \subseteq AboutAll(E) \cup AboutAll(L)
  <2> SUFFICES ASSUME NEW i \in 1..(N + M) PROVE Fb!About(F[i]) \subseteq AboutAll(E) \cup AboutAll(L)
    BY <1>1 DEF AboutAll
  <2>1. CASE i \in 1..N
    BY <1>1, <2>1 DEF AboutAll
  <2>2. CASE i - N \in 1..M /\ N + (i - N) = i
    <3>1. F[i] = L[i - N]
      BY <1>1, <2>2
    <3> QED BY <1>1, <2>2, <3>1 DEF AboutAll
  <2> QED BY <1>2, <2>1, <2>2
<1>4. AboutAll(E) \subseteq AboutAll(F)
  <2> SUFFICES ASSUME NEW i \in 1..N PROVE Fb!About(E[i]) \subseteq AboutAll(F)
    BY <1>1 DEF AboutAll
  <2>1. F[i] = E[i] /\ i \in 1..(N + M)
    BY <1>1
  <2>2. Fb!About(F[i]) \subseteq AboutAll(F)
    BY <1>1, <2>1 DEF AboutAll
  <2> QED BY <2>1, <2>2
<1>5. AboutAll(L) \subseteq AboutAll(F)
  <2> SUFFICES ASSUME NEW i \in 1..M PROVE Fb!About(L[i]) \subseteq AboutAll(F)
    BY <1>1 DEF AboutAll
  <2>1. F[N + i] = L[i] /\ N + i \in 1..(N + M)
    BY <1>1
  <2>2. Fb!About(F[N + i]) \subseteq AboutAll(F)
    BY <1>1, <2>1 DEF AboutAll
  <2> QED BY <2>1, <2>2
<1> QED BY <1>3, <1>4, <1>5 DEF F

\* Which windows are activated, after an event says of one whether it is.
LitBy(lit, e) == IF e.arg = 1 THEN lit \cup {e.id} ELSE lit \ {e.id}
TreeKinds == {"toplevel", "title", "state", "closed"}

\* The rows after an event.
RowsAfter(rows, e, tops, title, lit) ==
  /\ e.kind \notin TreeKinds => RowsHold(rows, tops, title, lit)
  /\ e.kind = "toplevel" /\ e.id \notin tops => RowsHold(rows, tops \cup {e.id}, [title EXCEPT ![e.id] = 0], lit \ {e.id})
  /\ e.kind = "title" => RowsHold(rows, tops, [title EXCEPT ![e.id] = e.arg], lit)
  /\ e.kind = "state" => RowsHold(rows, tops, title, LitBy(lit, e))
  /\ e.kind = "closed" => RowsHold(rows, tops \ {e.id}, title, lit \ {e.id})

\* What events of windows make of the rows.
LEMMA RowsGo == \A t, q \in Tables, e \in FbEvents, tops \in SUBSET Toplevel, title \in [Toplevel -> FbTexts], lit \in SUBSET Toplevel :
  Dispatched(t, e, q) /\ RowsHold(FbRowsOf(t.tops), tops, title, lit) =>
    RowsAfter(FbRowsOf(q.tops), e, tops, title, lit)
<1> SUFFICES ASSUME NEW t \in Tables, NEW q \in Tables, NEW e \in FbEvents, NEW tops \in SUBSET Toplevel,
                    NEW title \in [Toplevel -> FbTexts], NEW lit \in SUBSET Toplevel,
                    Dispatched(t, e, q), RowsHold(FbRowsOf(t.tops), tops, title, lit)
             PROVE  RowsAfter(FbRowsOf(q.tops), e, tops, title, lit)
  OBVIOUS
<1> DEFINE s == t.tops
           u == q.tops
<1>0. s \in Seq(FbRows) /\ u \in Seq(FbRows) /\ KindFits(e)
  BY KindsFit DEF Tables
<1> DEFINE N == Len(s)
<1>1. N \in Nat /\ DOMAIN s = 1..N /\ \A i \in 1..N : s[i] \in FbRows
  BY <1>0
<1>2. RowsHold(FbRowsOf(s), tops, title, lit)
  OBVIOUS
<1>3. FbRowsOf(s) \subseteq FbRows
  BY <1>1 DEF FbRowsOf
<1>4. e.kind \notin TreeKinds => RowsHold(FbRowsOf(u), tops, title, lit)
  BY DEF TreeKinds, Dispatched
<1>5. ASSUME e.kind = "toplevel", e.id \notin tops
      PROVE  RowsHold(FbRowsOf(u), tops \cup {e.id}, [title EXCEPT ![e.id] = 0], lit \ {e.id})
  <2> DEFINE x == [id |-> e.id, title |-> 0, activated |-> FALSE]
  <2>1. u = Append(s, x)
    BY <1>5 DEF Dispatched
  <2>2. x.id = e.id /\ x.title = 0 /\ x.activated = FALSE /\ e.id \in Toplevel
    BY <1>0, <1>5 DEF KindFits, OpenKinds
  <2> HIDE DEF x
  <2>3. DOMAIN u = (1..N) \cup {N + 1} /\ u[N + 1] = x /\ \A i \in 1..N : u[i] = s[i]
    BY <1>0, <2>1
  <2> HIDE DEF s, u, N
  <2>4. FbRowsOf(u) = FbRowsOf(s) \cup {x}
    BY <1>1, <2>3 DEF FbRowsOf
  <2> QED BY <1>2, <1>5, <2>2, <2>4 DEF RowsHold
<1>6. ASSUME e.kind = "title"
      PROVE  RowsHold(FbRowsOf(u), tops, [title EXCEPT ![e.id] = e.arg], lit)
  <2>1. u = [i \in DOMAIN s |-> FbTitled(s[i], e.id, e.arg)]
    BY <1>6 DEF Dispatched
  <2>2. e.id \in Toplevel
    BY <1>0, <1>6 DEF KindFits, TextKinds
  <2> HIDE DEF s, u, N
  <2>3. FbRowsOf(u) = {FbTitled(r, e.id, e.arg) : r \in FbRowsOf(s)}
    BY <2>1 DEF FbRowsOf
  <2>4. \A r \in FbRowsOf(s) : FbTitled(r, e.id, e.arg).id = r.id /\ FbTitled(r, e.id, e.arg).activated = r.activated
                             /\ FbTitled(r, e.id, e.arg).title = IF r.id = e.id THEN e.arg ELSE r.title
    BY <1>3 DEF FbTitled
  <2>5. \A r \in FbRowsOf(s) : r.id \in Toplevel
    BY <1>2 DEF RowsHold
  <2>6. \A r \in FbRowsOf(s) : FbTitled(r, e.id, e.arg) \in FbRowsOf(u)
    BY <2>3
  <2>7. \A y \in FbRowsOf(u) : \E r \in FbRowsOf(s) : y = FbTitled(r, e.id, e.arg)
    BY <2>3
  <2>8. \A w \in tops : \E r \in FbRowsOf(u) : r.id = w
    <3> SUFFICES ASSUME NEW w \in tops PROVE \E r \in FbRowsOf(u) : r.id = w
      OBVIOUS
    <3>1. PICK r \in FbRowsOf(s) : r.id = w
      BY <1>2 DEF RowsHold
    <3> QED BY <2>4, <2>6, <3>1
  <2>9. ASSUME NEW y \in FbRowsOf(u) PROVE y.id \in tops /\ y.title = [title EXCEPT ![e.id] = e.arg][y.id] /\ (y.activated <=> y.id \in lit)
    <3>1. PICK r \in FbRowsOf(s) : y = FbTitled(r, e.id, e.arg)
      BY <2>7
    <3>2. y.id = r.id /\ y.activated = r.activated /\ y.title = IF r.id = e.id THEN e.arg ELSE r.title
      BY <2>4, <3>1
    <3>3. r.id \in tops /\ r.title = title[r.id] /\ (r.activated <=> r.id \in lit)
      BY <1>2 DEF RowsHold
    <3> QED BY <2>2, <2>5, <3>2, <3>3
  <2> QED BY <2>8, <2>9 DEF RowsHold
<1>7. ASSUME e.kind = "state"
      PROVE  RowsHold(FbRowsOf(u), tops, title, LitBy(lit, e))
  <2>1. u = [i \in DOMAIN s |-> Lit(s[i], e.id, e.arg)]
    BY <1>7 DEF Dispatched
  <2> HIDE DEF s, u, N
  <2>3. FbRowsOf(u) = {Lit(r, e.id, e.arg) : r \in FbRowsOf(s)}
    BY <2>1 DEF FbRowsOf
  <2>4. \A r \in FbRowsOf(s) : Lit(r, e.id, e.arg).id = r.id /\ Lit(r, e.id, e.arg).title = r.title
                             /\ (Lit(r, e.id, e.arg).activated <=> IF r.id = e.id THEN e.arg = 1 ELSE r.activated)
    BY <1>3 DEF Lit
  <2>6. \A r \in FbRowsOf(s) : Lit(r, e.id, e.arg) \in FbRowsOf(u)
    BY <2>3
  <2>7. \A y \in FbRowsOf(u) : \E r \in FbRowsOf(s) : y = Lit(r, e.id, e.arg)
    BY <2>3
  <2>8. \A w \in tops : \E r \in FbRowsOf(u) : r.id = w
    <3> SUFFICES ASSUME NEW w \in tops PROVE \E r \in FbRowsOf(u) : r.id = w
      OBVIOUS
    <3>1. PICK r \in FbRowsOf(s) : r.id = w
      BY <1>2 DEF RowsHold
    <3> QED BY <2>4, <2>6, <3>1
  <2>9. ASSUME NEW y \in FbRowsOf(u)
        PROVE  y.id \in tops /\ y.title = title[y.id] /\ (y.activated <=> y.id \in LitBy(lit, e))
    <3>1. PICK r \in FbRowsOf(s) : y = Lit(r, e.id, e.arg)
      BY <2>7
    <3>2. y.id = r.id /\ y.title = r.title /\ (y.activated <=> IF r.id = e.id THEN e.arg = 1 ELSE r.activated)
      BY <2>4, <3>1
    <3>3. r.id \in tops /\ r.title = title[r.id] /\ (r.activated <=> r.id \in lit)
      BY <1>2 DEF RowsHold
    <3> QED BY <3>2, <3>3 DEF LitBy
  <2> QED BY <2>8, <2>9 DEF RowsHold
<1>8. ASSUME e.kind = "closed"
      PROVE  RowsHold(FbRowsOf(u), tops \ {e.id}, title, lit \ {e.id})
  <2>1. FbRowsOf(u) = {r \in FbRowsOf(s) : r.id # e.id}
    BY <1>8 DEF Dispatched
  <2> HIDE DEF s, u, N
  <2> QED BY <1>2, <2>1 DEF RowsHold
<1> QED BY <1>4, <1>5, <1>6, <1>7, <1>8 DEF RowsAfter

\* Events of windows leave outputs, groups and workspaces alone.
LEMMA PlacesStay == \A t, q, e, outputs, bound, at, active :
  Dispatched(t, e, q) /\ e.kind \in TreeKinds /\ PlacesHold(t, outputs, bound, at, active) => PlacesHold(q, outputs, bound, at, active)
  BY DEF Dispatched, OthersStay, Others, PlacesHold, TreeKinds

\* An event of a kind.
LEMMA FbEventIs == \A k, i, a : Fb!Event(k, i, a).kind = k /\ Fb!Event(k, i, a).id = i /\ Fb!Event(k, i, a).arg = a
  BY DEF Fb!Event

\* The events there are.
LEMMA EventsThereAre ==
  /\ \A k \in OutputKinds, o \in FbOutput : Fb!Bare(k, o) \in FbEvents
  /\ \A k \in {"ws_enter", "ws_leave"}, o \in FbOutput, p \in FbSpace : Fb!Event(k, o, p) \in FbEvents
  /\ \A k \in {"active", "inactive"}, p \in FbSpace : Fb!Event(k, p, NoFbOutput) \in FbEvents
  /\ \A k \in {"toplevel", "closed"}, w \in Toplevel : Fb!Bare(k, w) \in FbEvents
  /\ \A k \in {"title", "state"}, w \in Toplevel, x \in FbTexts : Fb!Event(k, w, x) \in FbEvents
  BY DEF FbEvents, Fb!Bare

\* Some first events.
LEMMA ReadsOne == \A b \in Tables, E \in Seq(FbEvents), x \in FbEvents :
  /\ E \o <<x>> \in Seq(FbEvents) /\ AboutAll(E \o <<x>>) = AboutAll(E) \cup Fb!About(x)
  /\ FbRan(b, E) \in Tables /\ FbRan(b, E \o <<x>>) \in Tables /\ Dispatched(FbRan(b, E), x, FbRan(b, E \o <<x>>))
<1> SUFFICES ASSUME NEW b \in Tables, NEW E \in Seq(FbEvents), NEW x \in FbEvents
             PROVE  /\ E \o <<x>> \in Seq(FbEvents) /\ AboutAll(E \o <<x>>) = AboutAll(E) \cup Fb!About(x)
                    /\ FbRan(b, E) \in Tables /\ FbRan(b, E \o <<x>>) \in Tables /\ Dispatched(FbRan(b, E), x, FbRan(b, E \o <<x>>))
  OBVIOUS
<1> DEFINE L == <<x>>
<1>1. L \in Seq(FbEvents) /\ Len(L) = 1 /\ L[1] = x
  OBVIOUS
<1>2. AboutAll(L) = Fb!About(x)
  BY DEF AboutAll
<1> HIDE DEF L
<1>3. E \o L \in Seq(FbEvents) /\ AboutAll(E \o L) = AboutAll(E) \cup AboutAll(L)
  BY <1>1, FbAboutJoins
<1>4. PICK run : FbFrom(run, b, E, L)
  BY <1>1, FbReadsOn
<1>5. run[0] = FbRan(b, E) /\ run[1] = FbRan(b, E \o L) /\ Dispatched(run[0], x, run[1]) /\ run[0] \in Tables /\ run[1] \in Tables
  <2>1. 1 \in 1..1 /\ 1 - 1 = 0 /\ 0 \in 0..1 /\ 1 \in 0..1
    OBVIOUS
  <2> QED BY <1>1, <1>4, <2>1 DEF FbFrom
<1> QED BY <1>2, <1>3, <1>5 DEF L

\* Joining events is associative.
LEMMA FbAssoc == \A x, y, z \in Seq(FbEvents) : x \o (y \o z) = (x \o y) \o z /\ x \o y \in Seq(FbEvents)
<1> SUFFICES ASSUME NEW x \in Seq(FbEvents), NEW y \in Seq(FbEvents), NEW z \in Seq(FbEvents)
             PROVE  x \o (y \o z) = (x \o y) \o z
  OBVIOUS
<1> QED BY ConcatAssociative

\* Events joined to others, one by one.
JoinOneByOne(E, a, b, c, d) ==
  /\ E \o <<a, b>> = (E \o <<a>>) \o <<b>>
  /\ E \o (<<>> \o <<d>>) = E \o <<d>>
  /\ E \o (<<c>> \o <<>>) = E \o <<c>>
  /\ E \o (<<c>> \o <<d>>) = (E \o <<c>>) \o <<d>>
  /\ E \o ((<<a, b>> \o <<>>) \o <<d>>) = ((E \o <<a>>) \o <<b>>) \o <<d>>
  /\ E \o ((<<a, b>> \o <<c>>) \o <<d>>) = (((E \o <<a>>) \o <<b>>) \o <<c>>) \o <<d>>

\* Events join a queue one by one.
LEMMA EventsJoin == \A E \in Seq(FbEvents), a, b, c, d \in FbEvents : JoinOneByOne(E, a, b, c, d)
<1> SUFFICES ASSUME NEW E \in Seq(FbEvents), NEW a \in FbEvents, NEW b \in FbEvents, NEW c \in FbEvents, NEW d \in FbEvents
             PROVE  JoinOneByOne(E, a, b, c, d)
  OBVIOUS
<1> DEFINE A == <<a>>
           B == <<b>>
           C == <<c>>
           D == <<d>>
           AB == <<a, b>>
           none == <<>>
<1>1. A \in Seq(FbEvents) /\ B \in Seq(FbEvents) /\ C \in Seq(FbEvents) /\ D \in Seq(FbEvents) /\ AB \in Seq(FbEvents)
  OBVIOUS
<1>2. AB = A \o B
  <2>1. Len(A) = 1 /\ Len(B) = 1 /\ A[1] = a /\ B[1] = b /\ AB \in Seq({a, b}) /\ Len(AB) = 2 /\ AB[1] = a /\ AB[2] = b
    OBVIOUS
  <2> HIDE DEF A, B, AB
  <2> DEFINE s == A \o B
  <2>2. s \in Seq(FbEvents) /\ Len(s) = 2 /\ s[1] = a /\ s[2] = b
    BY <1>1, <2>1, ConcatProperties
  <2> HIDE DEF s
  <2>3. AB \in Seq(FbEvents)
    BY <1>1
  <2>4. \A i \in 1..Len(s) : s[i] = AB[i]
    BY <2>1, <2>2
  <2>5. s = AB
    BY <2>1, <2>2, <2>3, <2>4, SeqEqual
  <2> QED BY <2>5 DEF s
<1>3. AB \o none = AB /\ none \o D = D /\ C \o none = C
  OBVIOUS
<1> HIDE DEF A, B, C, D, AB, none
<1>40. E \in Seq(FbEvents)
  OBVIOUS
<1>41. E \o (A \o B) = (E \o A) \o B
  BY <1>1, <1>40, FbAssoc
<1>4. E \o (A \o B) = (E \o A) \o B /\ E \o (C \o D) = (E \o C) \o D
  <2>1. E \o (C \o D) = (E \o C) \o D
    BY <1>1, <1>40, FbAssoc
  <2> QED BY <1>41, <2>1
<1> DEFINE F == A \o B
           G == F \o C
<1>5. F \in Seq(FbEvents) /\ G \in Seq(FbEvents)
  BY <1>1, FbAssoc
<1>9. G = F \o C
  OBVIOUS
<1> HIDE DEF F, G
<1>6. E \o (F \o D) = (E \o F) \o D
  BY <1>1, <1>5, FbAssoc
<1>7. E \o (G \o D) = (E \o G) \o D
  BY <1>1, <1>5, FbAssoc
<1>8. E \o (F \o C) = (E \o F) \o C
  BY <1>1, <1>5, FbAssoc
<1> QED BY <1>2, <1>3, <1>4, <1>6, <1>7, <1>8, <1>9 DEF A, B, C, D, AB, none, F, G, JoinOneByOne

\* What was read says what the windows are, and what the places are as s has them.
Tells(b, E, tops, title, lit, s, bound) ==
  /\ RowsHold(FbRowsOf(FbRan(b, E).tops), tops, title, lit)
  /\ PlacesHold(FbRan(b, E), s.outputs, bound, s.at, s.active)

\* One event of windows more.
TellsMore(b, E, tops, title, lit, s, bound, w, x) ==
  /\ w \notin tops => Tells(b, E \o <<Fb!Bare("toplevel", w)>>, tops \cup {w}, [title EXCEPT ![w] = 0], lit \ {w}, s, bound)
  /\ Tells(b, E \o <<Fb!Event("title", w, x)>>, tops, [title EXCEPT ![w] = x], lit, s, bound)
  /\ Tells(b, E \o <<Fb!Event("state", w, 1)>>, tops, title, lit \cup {w}, s, bound)
  /\ Tells(b, E \o <<Fb!Event("state", w, 0)>>, tops, title, lit \ {w}, s, bound)
  /\ Tells(b, E \o <<Fb!Bare("closed", w)>>, tops \ {w}, title, lit \ {w}, s, bound)

\* A new title at the end of a queue tells the world that has it.
LEMMA TellsOn == \A s, bound : \A b \in Tables, E \in Seq(FbEvents), tops \in SUBSET Toplevel, title \in [Toplevel -> FbTexts], lit \in SUBSET Toplevel, w \in Toplevel, x \in FbTexts :
  Tells(b, E, tops, title, lit, s, bound) =>
    TellsMore(b, E, tops, title, lit, s, bound, w, x)
<1> SUFFICES ASSUME NEW b \in Tables, NEW E \in Seq(FbEvents), NEW tops \in SUBSET Toplevel, NEW title \in [Toplevel -> FbTexts],
                    NEW lit \in SUBSET Toplevel, NEW s, NEW bound, NEW w \in Toplevel, NEW x \in FbTexts,
                    Tells(b, E, tops, title, lit, s, bound)
             PROVE  TellsMore(b, E, tops, title, lit, s, bound, w, x)
  OBVIOUS
<1>1. ASSUME NEW e \in FbEvents, e.kind \in TreeKinds
      PROVE  /\ RowsAfter(FbRowsOf(FbRan(b, E \o <<e>>).tops), e, tops, title, lit)
             /\ PlacesHold(FbRan(b, E \o <<e>>), s.outputs, bound, s.at, s.active)
  <2>1. FbRan(b, E) \in Tables /\ FbRan(b, E \o <<e>>) \in Tables /\ Dispatched(FbRan(b, E), e, FbRan(b, E \o <<e>>))
    BY ReadsOne
  <2>2. RowsHold(FbRowsOf(FbRan(b, E).tops), tops, title, lit) /\ PlacesHold(FbRan(b, E), s.outputs, bound, s.at, s.active)
    BY DEF Tells
  <2> DEFINE t == FbRan(b, E)
             q == FbRan(b, E \o <<e>>)
  <2> HIDE DEF t, q
  <2>3. t \in Tables /\ q \in Tables /\ Dispatched(t, e, q) /\ RowsHold(FbRowsOf(t.tops), tops, title, lit) /\ PlacesHold(t, s.outputs, bound, s.at, s.active)
    BY <2>1, <2>2 DEF t, q
  <2>4. RowsAfter(FbRowsOf(q.tops), e, tops, title, lit)
    BY <2>3, RowsGo
  <2>5. PlacesHold(q, s.outputs, bound, s.at, s.active)
    BY <1>1, <2>3, PlacesStay
  <2> QED BY <2>4, <2>5 DEF q
<1>2. ASSUME w \notin tops PROVE Tells(b, E \o <<Fb!Bare("toplevel", w)>>, tops \cup {w}, [title EXCEPT ![w] = 0], lit \ {w}, s, bound)
  <2> DEFINE e == Fb!Bare("toplevel", w)
  <2>1. e \in FbEvents /\ e.kind = "toplevel" /\ e.id = w
    BY EventsThereAre, FbEventIs DEF Fb!Bare
  <2> HIDE DEF e
  <2>2. e.kind \in TreeKinds
    BY <2>1 DEF TreeKinds
  <2>3. RowsAfter(FbRowsOf(FbRan(b, E \o <<e>>).tops), e, tops, title, lit) /\ PlacesHold(FbRan(b, E \o <<e>>), s.outputs, bound, s.at, s.active)
    BY <1>1, <2>1, <2>2
  <2>4. Tells(b, E \o <<e>>, tops \cup {w}, [title EXCEPT ![w] = 0], lit \ {w}, s, bound)
    BY <1>2, <2>1, <2>3 DEF RowsAfter, Tells
  <2> QED BY <2>4 DEF e
<1>3. Tells(b, E \o <<Fb!Event("title", w, x)>>, tops, [title EXCEPT ![w] = x], lit, s, bound)
  <2> DEFINE e == Fb!Event("title", w, x)
  <2>1. e \in FbEvents /\ e.kind = "title" /\ e.id = w /\ e.arg = x
    BY EventsThereAre, FbEventIs
  <2> HIDE DEF e
  <2>2. e.kind \in TreeKinds
    BY <2>1 DEF TreeKinds
  <2>3. RowsAfter(FbRowsOf(FbRan(b, E \o <<e>>).tops), e, tops, title, lit) /\ PlacesHold(FbRan(b, E \o <<e>>), s.outputs, bound, s.at, s.active)
    BY <1>1, <2>1, <2>2
  <2>4. Tells(b, E \o <<e>>, tops, [title EXCEPT ![w] = x], lit, s, bound)
    BY <2>1, <2>3 DEF RowsAfter, Tells
  <2> QED BY <2>4 DEF e
<1>4. ASSUME NEW y \in FbTexts
      PROVE Tells(b, E \o <<Fb!Event("state", w, y)>>, tops, title, LitBy(lit, Fb!Event("state", w, y)), s, bound)
  <2> DEFINE e == Fb!Event("state", w, y)
  <2>1. e \in FbEvents /\ e.kind = "state" /\ e.id = w /\ e.arg = y
    BY EventsThereAre, FbEventIs
  <2> HIDE DEF e
  <2>2. e.kind \in TreeKinds
    BY <2>1 DEF TreeKinds
  <2>3. RowsAfter(FbRowsOf(FbRan(b, E \o <<e>>).tops), e, tops, title, lit) /\ PlacesHold(FbRan(b, E \o <<e>>), s.outputs, bound, s.at, s.active)
    BY <1>1, <2>1, <2>2
  <2>4. Tells(b, E \o <<e>>, tops, title, LitBy(lit, e), s, bound)
    BY <2>1, <2>3 DEF RowsAfter, Tells
  <2> QED BY <2>4 DEF e
<1>5. 0 \in FbTexts /\ 1 \in FbTexts
  BY DEF FbTexts
<1>6. Tells(b, E \o <<Fb!Event("state", w, 1)>>, tops, title, lit \cup {w}, s, bound)
  <2>1. Tells(b, E \o <<Fb!Event("state", w, 1)>>, tops, title, LitBy(lit, Fb!Event("state", w, 1)), s, bound)
    BY <1>4, <1>5
  <2>2. LitBy(lit, Fb!Event("state", w, 1)) = lit \cup {w}
    BY FbEventIs DEF LitBy
  <2> QED BY <2>1, <2>2
<1>7. Tells(b, E \o <<Fb!Event("state", w, 0)>>, tops, title, lit \ {w}, s, bound)
  <2>1. Tells(b, E \o <<Fb!Event("state", w, 0)>>, tops, title, LitBy(lit, Fb!Event("state", w, 0)), s, bound)
    BY <1>4, <1>5
  <2>2. LitBy(lit, Fb!Event("state", w, 0)) = lit \ {w}
    BY FbEventIs DEF LitBy
  <2> QED BY <2>1, <2>2
<1>8. Tells(b, E \o <<Fb!Bare("closed", w)>>, tops \ {w}, title, lit \ {w}, s, bound)
  <2> DEFINE e == Fb!Bare("closed", w)
  <2>1. e \in FbEvents /\ e.kind = "closed" /\ e.id = w
    BY EventsThereAre, FbEventIs DEF Fb!Bare
  <2> HIDE DEF e
  <2>2. e.kind \in TreeKinds
    BY <2>1 DEF TreeKinds
  <2>3. RowsAfter(FbRowsOf(FbRan(b, E \o <<e>>).tops), e, tops, title, lit) /\ PlacesHold(FbRan(b, E \o <<e>>), s.outputs, bound, s.at, s.active)
    BY <1>1, <2>1, <2>2
  <2>4. Tells(b, E \o <<e>>, tops \ {w}, title, lit \ {w}, s, bound)
    BY <2>1, <2>3 DEF RowsAfter, Tells
  <2> QED BY <2>4 DEF e
<1> QED BY <1>2, <1>3, <1>6, <1>7, <1>8 DEF TellsMore

\* The areas of the world of the view.
LEMMA FbWorldIs == \A s :
  /\ FbWorldOf(s)["monitors"] = [named |-> s.outputs, unnamed |-> {}]
  /\ FbWorldOf(s)["workspaces"] = [p \in FbSpace |-> [output |-> s.at[p], active |-> p = s.active]]
  /\ FbWorldOf(s)["windows"] = {[id |-> w, title |-> s.title[w]] : w \in s.tops}
  /\ FbWorldOf(s)["focus"] = s.focus
  BY DEF FbWorldOf

\* Something happened to the windows.
LEMMA TreeHappened ==
  ASSUME FbInv, NEW s \in FbWorlds, NEW EL \in Seq(FbEvents), fb' = s, fb_events' = EL,
         UNCHANGED <<fb_bound, fb_inner, fb_state, fb_untold, fb_broken>>,
         s.outputs = fb.outputs, s.at = fb.at, s.active = fb.active, s.focus \in s.tops \cup {NoToplevel},
         AboutAll(fb_events) \subseteq AboutAll(EL), Fb!Tree \subseteq AboutAll(EL) \/ (s.focus = fb.focus /\ "windows" \in AboutAll(EL)),
         Tells(fb_inner, fb_events, fb.tops, fb.title, {fb.focus} \cap Toplevel, fb, fb_bound)
           => Tells(fb_inner, EL, s.tops, s.title, {s.focus} \cap Toplevel, fb, fb_bound)
  PROVE  FbInv' /\ Fb!View!WorldMoves
<1>1. FbTyped /\ FbWorldFits(fb, fb_bound)
  BY DEF FbInv, FbTyped
<1>2. FbWorldFits(s, fb_bound)
  BY <1>1 DEF FbWorldFits
<1>3. ~fb_broken => FbAgree(FbRan(fb_inner, EL), s, fb_bound)
  BY DEF FbInv, FbAgree, Tells
<1>4. FbDiffer(fb, s) \subseteq AboutAll(EL)
  <2>1. FbWorldOf(fb)["monitors"] = FbWorldOf(s)["monitors"] /\ FbWorldOf(fb)["workspaces"] = FbWorldOf(s)["workspaces"]
    <3> DEFINE W(q) == FbWorldOf(q)
    <3>1. W(fb)["monitors"] = [named |-> fb.outputs, unnamed |-> {}] /\ W(s)["monitors"] = [named |-> s.outputs, unnamed |-> {}]
      BY FbWorldIs
    <3>2. /\ W(fb)["workspaces"] = [p \in FbSpace |-> [output |-> fb.at[p], active |-> p = fb.active]]
          /\ W(s)["workspaces"] = [p \in FbSpace |-> [output |-> s.at[p], active |-> p = s.active]]
      BY FbWorldIs
    <3> HIDE DEF W
    <3>3. W(fb)["monitors"] = W(s)["monitors"] /\ W(fb)["workspaces"] = W(s)["workspaces"]
      BY <3>1, <3>2
    <3> QED BY <3>3 DEF W
  <2>2. s.focus = fb.focus => FbWorldOf(fb)["focus"] = FbWorldOf(s)["focus"]
    BY FbWorldIs
  <2> QED BY <2>1, <2>2 DEF FbDiffer, Fb!FbArea, Fb!Tree
<1>5. fb_bound' = fb_bound /\ UNCHANGED <<fb_inner, fb_state, fb_untold, fb_broken>>
  OBVIOUS
<1> QED BY <1>2, <1>3, <1>4, <1>5, FbHappened

\* What events are about.
LEMMA AboutKinds == \A i, a :
  /\ Fb!About(Fb!Event("toplevel", i, a)) = Fb!Tree /\ Fb!About(Fb!Event("closed", i, a)) = Fb!Tree /\ Fb!About(Fb!Event("state", i, a)) = Fb!Tree
  /\ Fb!About(Fb!Event("title", i, a)) = {"windows"} /\ Fb!About(Fb!Event("active", i, a)) = Fb!Places /\ Fb!About(Fb!Event("inactive", i, a)) = Fb!Places
  /\ Fb!About(Fb!Event("ws_enter", i, a)) = Fb!Places /\ Fb!About(Fb!Event("ws_leave", i, a)) = Fb!Places
  /\ Fb!About(Fb!Event("global", i, a)) = {"monitors"} /\ Fb!About(Fb!Event("group", i, a)) = Fb!Places /\ Fb!About(Fb!Event("name", i, a)) = {"monitors"}
  /\ Fb!About(Fb!Event("output_enter", i, a)) = Fb!Places /\ Fb!About(Fb!Event("output_leave", i, a)) = Fb!Places
  /\ Fb!About(Fb!Event("group_removed", i, a)) = Fb!Places /\ Fb!About(Fb!Event("global_remove", i, a)) = {}
  BY FbEventIs DEF Fb!About

\* What happens, and what is read of it.
LEMMA FbHappens == ASSUME FbInv, NEW s, NEW L, Fb!Happens(s, L)
                   PROVE  /\ fb' = s /\ fb_events' = fb_events \o L /\ UNCHANGED <<fb_bound, fb_inner, fb_state, fb_untold, fb_broken>>
                          /\ fb \in FbWorlds /\ fb_events \in Seq(FbEvents) /\ fb_inner \in Tables
                          /\ fb.focus \in fb.tops \cup {NoToplevel} /\ fb.tops \in SUBSET Toplevel /\ fb.title \in [Toplevel -> FbTexts]
                          /\ {fb.focus} \cap Toplevel \in SUBSET Toplevel
  BY DEF Fb!Happens, FbInv, FbTyped, FbWorldFits, FbWorlds

\* The events, and that the window with the focus has it no more.
Unfocused(E, focus) == IF focus = NoToplevel THEN E ELSE E \o <<Fb!Event("state", focus, 0)>>

NoFocus(b, E, tops, title, lit, focus, s, bound) ==
  /\ Unfocused(E, focus) \in Seq(FbEvents) /\ AboutAll(E) \subseteq AboutAll(Unfocused(E, focus)) /\ AboutAll(Unfocused(E, focus)) \subseteq AboutAll(E) \cup Fb!Tree
  /\ Tells(b, E, tops, title, lit, s, bound) => Tells(b, Unfocused(E, focus), tops, title, {}, s, bound)

\* The focus goes, if a window has it.
LEMMA FocusGone ==
  ASSUME NEW b \in Tables, NEW E \in Seq(FbEvents), NEW tops \in SUBSET Toplevel, NEW title \in [Toplevel -> FbTexts],
         NEW lit \in SUBSET Toplevel, NEW focus \in Toplevel \cup {NoToplevel}, lit \subseteq {focus}, NEW s, NEW bound
  PROVE  NoFocus(b, E, tops, title, lit, focus, s, bound)
<1>1. CASE focus = NoToplevel
  <2>1. lit = {}
    BY <1>1, FallbackAssumption
  <2> QED BY <1>1, <2>1 DEF Unfocused, NoFocus
<1>2. CASE focus # NoToplevel
  <2> DEFINE c == Fb!Event("state", focus, 0)
  <2>1. focus \in Toplevel /\ 0 \in FbTexts
    BY <1>2 DEF FbTexts
  <2>2. c \in FbEvents /\ Fb!About(c) = Fb!Tree /\ Unfocused(E, focus) = E \o <<c>>
    BY <1>2, <2>1, EventsThereAre, AboutKinds DEF Unfocused
  <2>3. Unfocused(E, focus) \in Seq(FbEvents) /\ AboutAll(Unfocused(E, focus)) = AboutAll(E) \cup Fb!Tree
    <3> HIDE DEF c
    <3> QED BY <2>2, ReadsOne
  <2>4. lit \ {focus} = {}
    OBVIOUS
  <2>5. ASSUME Tells(b, E, tops, title, lit, s, bound) PROVE Tells(b, Unfocused(E, focus), tops, title, {}, s, bound)
    <3>1. TellsMore(b, E, tops, title, lit, s, bound, focus, 0)
      BY <2>1, <2>5, TellsOn
    <3>2. Tells(b, Unfocused(E, focus), tops, title, lit \ {focus}, s, bound)
      BY <2>2, <3>1 DEF TellsMore
    <3> QED BY <2>4, <3>2
  <2> QED BY <2>3, <2>5 DEF NoFocus
<1> QED BY <1>1, <1>2

\* A window gets the focus.
LEMMA FocusComes ==
  ASSUME NEW b \in Tables, NEW E \in Seq(FbEvents), NEW tops \in SUBSET Toplevel, NEW title \in [Toplevel -> FbTexts],
         NEW w \in Toplevel, NEW s, NEW bound, NEW E1, E1 = E \o <<Fb!Event("state", w, 1)>>
  PROVE  /\ E1 \in Seq(FbEvents) /\ AboutAll(E1) = AboutAll(E) \cup Fb!Tree
         /\ Tells(b, E, tops, title, {}, s, bound) => Tells(b, E1, tops, title, {w}, s, bound)
<1> DEFINE c == Fb!Event("state", w, 1)
<1>1. 1 \in FbTexts
  BY DEF FbTexts
<1>2. c \in FbEvents /\ Fb!About(c) = Fb!Tree /\ E1 = E \o <<c>>
  BY <1>1, EventsThereAre, AboutKinds
<1>3. E1 \in Seq(FbEvents) /\ AboutAll(E1) = AboutAll(E) \cup Fb!Tree
  <2> HIDE DEF c
  <2> QED BY <1>2, ReadsOne
<1>4. {} \cup {w} = {w} /\ {} \in SUBSET Toplevel
  OBVIOUS
<1>5. ASSUME Tells(b, E, tops, title, {}, s, bound) PROVE Tells(b, E1, tops, title, {w}, s, bound)
  <2>1. TellsMore(b, E, tops, title, {}, s, bound, w, 1)
    BY <1>1, <1>4, <1>5, TellsOn
  <2>2. Tells(b, E1, tops, title, {} \cup {w}, s, bound)
    BY <1>2, <2>1 DEF TellsMore
  <2> QED BY <1>4, <2>2
<1> QED BY <1>3, <1>5

\* A window opens.
LEMMA OpeningTold ==
  ASSUME NEW b \in Tables, NEW E \in Seq(FbEvents), NEW tops \in SUBSET Toplevel, NEW title \in [Toplevel -> FbTexts],
         NEW lit \in SUBSET Toplevel, NEW w \in Toplevel \ tops, NEW s, NEW bound,
         NEW E1, E1 = E \o <<Fb!Bare("toplevel", w)>>, NEW E2, E2 = E1 \o <<Fb!Event("title", w, title[w])>>
  PROVE  /\ E2 \in Seq(FbEvents) /\ AboutAll(E2) = AboutAll(E) \cup Fb!Tree
         /\ Tells(b, E, tops, title, lit, s, bound) => Tells(b, E2, tops \cup {w}, title, lit \ {w}, s, bound)
<1> DEFINE a == Fb!Bare("toplevel", w)
           x == title[w]
           c == Fb!Event("title", w, x)
           with == [title EXCEPT ![w] = 0]
           same == [with EXCEPT ![w] = x]
           more == tops \cup {w}
           on == lit \ {w}
<1>1. a \in FbEvents /\ c \in FbEvents /\ Fb!About(a) = Fb!Tree /\ Fb!About(c) = {"windows"} /\ x \in FbTexts
  BY EventsThereAre, AboutKinds DEF Fb!Bare
<1>2. with \in [Toplevel -> FbTexts] /\ same = title
  <2>1. 0 \in FbTexts
    BY DEF FbTexts
  <2> QED BY <2>1
<1>3. E1 \in Seq(FbEvents) /\ AboutAll(E1) = AboutAll(E) \cup Fb!Tree /\ E2 \in Seq(FbEvents) /\ AboutAll(E2) = AboutAll(E1) \cup {"windows"}
  <2> HIDE DEF a, c
  <2>1. E1 = E \o <<a>> /\ E2 = E1 \o <<c>>
    BY DEF a, c
  <2>2. E \o <<a>> \in Seq(FbEvents) /\ AboutAll(E \o <<a>>) = AboutAll(E) \cup Fb!About(a)
    BY <1>1, ReadsOne
  <2>3. E1 \in Seq(FbEvents) /\ AboutAll(E1) = AboutAll(E) \cup Fb!Tree
    BY <1>1, <2>1, <2>2
  <2>4. E1 \o <<c>> \in Seq(FbEvents) /\ AboutAll(E1 \o <<c>>) = AboutAll(E1) \cup Fb!About(c)
    BY <1>1, <2>3, ReadsOne
  <2> QED BY <1>1, <2>1, <2>3, <2>4
<1>4. more \in SUBSET Toplevel /\ on \in SUBSET Toplevel
  OBVIOUS
<1>5. ASSUME Tells(b, E, tops, title, lit, s, bound) PROVE Tells(b, E2, more, title, on, s, bound)
  <2>1. TellsMore(b, E, tops, title, lit, s, bound, w, x)
    BY <1>1, <1>5, TellsOn
  <2>2. Tells(b, E1, more, with, on, s, bound)
    BY <2>1 DEF TellsMore
  <2> HIDE DEF more, with, on
  <2>3. TellsMore(b, E1, more, with, on, s, bound, w, x)
    BY <1>1, <1>2, <1>3, <1>4, <2>2, TellsOn
  <2>4. Tells(b, E2, more, same, on, s, bound)
    BY <2>3 DEF TellsMore
  <2> HIDE DEF same
  <2> QED BY <1>2, <2>4
<1> QED BY <1>3, <1>5 DEF Fb!Tree

\* A window opens, and gets the focus.
LEMMA OpensStep == ASSUME FbInv, Fb!ToplevelOpens PROVE FbInv' /\ Fb!View!WorldMoves
<1>1. PICK w \in Toplevel \ fb.tops :
        Fb!Happens([fb EXCEPT !.tops = @ \cup {w}, !.focus = w],
          <<Fb!Bare("toplevel", w), Fb!Event("title", w, fb.title[w])>> \o Fb!Activation(fb.focus, 0) \o Fb!Activation(w, 1))
  BY DEF Fb!ToplevelOpens
<1> DEFINE E == fb_events
           s == [fb EXCEPT !.tops = @ \cup {w}, !.focus = w]
           f == fb.focus
           a == Fb!Bare("toplevel", w)
           b == Fb!Event("title", w, fb.title[w])
           d == Fb!Event("state", w, 1)
           lit == {f} \cap Toplevel
           L == (<<a, b>> \o Fb!Activation(f, 0)) \o Fb!Activation(w, 1)
           E1 == E \o <<a>>
           E2 == E1 \o <<b>>
           E3 == Unfocused(E2, f)
           EL == E3 \o <<d>>
           tops == fb.tops \cup {w}
           on == lit \ {w}
           I == fb_inner
<1>2. Fb!Happens(s, L)
  BY <1>1
<1>3. /\ fb' = s /\ fb_events' = E \o L /\ UNCHANGED <<fb_bound, fb_inner, fb_state, fb_untold, fb_broken>>
      /\ fb \in FbWorlds /\ E \in Seq(FbEvents) /\ I \in Tables
      /\ f \in fb.tops \cup {NoToplevel} /\ fb.tops \in SUBSET Toplevel /\ fb.title \in [Toplevel -> FbTexts] /\ lit \in SUBSET Toplevel
  BY <1>2, FbHappens
<1>4. /\ s \in FbWorlds /\ s.tops = tops /\ s.focus = w /\ s.title = fb.title /\ s.outputs = fb.outputs /\ s.at = fb.at
      /\ s.active = fb.active
  BY <1>3 DEF FbWorlds
<1>5. a \in FbEvents /\ b \in FbEvents /\ d \in FbEvents /\ w # NoToplevel /\ (f # NoToplevel => f \in Toplevel)
  <2>1. fb.title[w] \in FbTexts /\ 1 \in FbTexts
    BY <1>3 DEF FbTexts
  <2>2. a \in FbEvents /\ b \in FbEvents /\ d \in FbEvents
    BY <2>1, EventsThereAre
  <2> QED BY <1>3, <2>2, FallbackAssumption
<1>6. Fb!Activation(w, 1) = <<d>>
  BY <1>5 DEF Fb!Activation
<1>7. E \o L = EL
  <2>1. CASE f = NoToplevel
    <3>1. Fb!Activation(f, 0) = <<>> /\ E3 = E2
      BY <2>1 DEF Fb!Activation, Unfocused
    <3>2. JoinOneByOne(E, a, b, d, d)
      <4> HIDE DEF a, b, d
      <4> QED BY <1>3, <1>5, EventsJoin
    <3>3. E \o ((<<a, b>> \o <<>>) \o <<d>>) = ((E \o <<a>>) \o <<b>>) \o <<d>>
      BY <3>2 DEF JoinOneByOne
    <3> QED BY <1>6, <3>1, <3>3
  <2>2. CASE f # NoToplevel
    <3> DEFINE c == Fb!Event("state", f, 0)
    <3>1. Fb!Activation(f, 0) = <<c>> /\ E3 = E2 \o <<c>> /\ c \in FbEvents
      <4>1. 0 \in FbTexts
        BY DEF FbTexts
      <4> QED BY <1>5, <2>2, <4>1, EventsThereAre DEF Fb!Activation, Unfocused
    <3>2. JoinOneByOne(E, a, b, c, d)
      <4> HIDE DEF a, b, c, d
      <4> QED BY <1>3, <1>5, <3>1, EventsJoin
    <3>3. E \o ((<<a, b>> \o <<c>>) \o <<d>>) = (((E \o <<a>>) \o <<b>>) \o <<c>>) \o <<d>>
      BY <3>2 DEF JoinOneByOne
    <3> QED BY <1>6, <3>1, <3>3
  <2> QED BY <2>1, <2>2
<1>8. /\ E2 \in Seq(FbEvents) /\ AboutAll(E2) = AboutAll(E) \cup Fb!Tree
      /\ Tells(I, E, fb.tops, fb.title, lit, fb, fb_bound) => Tells(I, E2, tops, fb.title, on, fb, fb_bound)
  <2> HIDE DEF lit, I, E
  <2> QED BY <1>3, OpeningTold
<1> HIDE DEF E1, E2
<1>9. /\ E3 \in Seq(FbEvents) /\ AboutAll(E2) \subseteq AboutAll(E3)
      /\ Tells(I, E2, tops, fb.title, on, fb, fb_bound) => Tells(I, E3, tops, fb.title, {}, fb, fb_bound)
  <2>1. on \in SUBSET Toplevel /\ tops \in SUBSET Toplevel /\ f \in Toplevel \cup {NoToplevel} /\ on \subseteq {f}
    BY <1>3
  <2>2. E3 = Unfocused(E2, f)
    OBVIOUS
  <2> DEFINE title == fb.title
  <2>3. title \in [Toplevel -> FbTexts] /\ I \in Tables /\ E2 \in Seq(FbEvents)
    BY <1>3, <1>8
  <2> HIDE DEF on, tops, f, I, E3, title
  <2>4. /\ E3 \in Seq(FbEvents) /\ AboutAll(E2) \subseteq AboutAll(E3) /\ AboutAll(E3) \subseteq AboutAll(E2) \cup Fb!Tree
        /\ Tells(I, E2, tops, title, on, fb, fb_bound) => Tells(I, E3, tops, title, {}, fb, fb_bound)
    <3> DEFINE u == Unfocused(E2, f)
    <3>1. /\ u \in Seq(FbEvents) /\ AboutAll(E2) \subseteq AboutAll(u) /\ AboutAll(u) \subseteq AboutAll(E2) \cup Fb!Tree
          /\ Tells(I, E2, tops, title, on, fb, fb_bound) => Tells(I, u, tops, title, {}, fb, fb_bound)
      <4>1. NoFocus(I, E2, tops, title, on, f, fb, fb_bound)
        BY <2>1, <2>3, FocusGone
      <4> QED BY <4>1 DEF NoFocus
    <3> QED BY <2>2, <3>1
  <2> QED BY <2>4 DEF title
<1> HIDE DEF E3
<1>10. /\ EL \in Seq(FbEvents) /\ AboutAll(EL) = AboutAll(E3) \cup Fb!Tree
       /\ Tells(I, E3, tops, fb.title, {}, fb, fb_bound) => Tells(I, EL, tops, fb.title, {w}, fb, fb_bound)
  <2>1. tops \in SUBSET Toplevel /\ w \in Toplevel
    BY <1>3
  <2> HIDE DEF tops, I
  <2> QED BY <1>3, <1>9, <2>1, FocusComes
<1> HIDE DEF EL, L
<1>11. {s.focus} \cap Toplevel = {w}
  BY <1>4
<1>12. s.focus \in s.tops \cup {NoToplevel}
  BY <1>4
<1> HIDE DEF s
<1>13. Tells(I, E, fb.tops, fb.title, lit, fb, fb_bound) => Tells(I, EL, s.tops, s.title, {s.focus} \cap Toplevel, fb, fb_bound)
  BY <1>4, <1>8, <1>9, <1>10, <1>11
<1>14. fb_events' = EL /\ AboutAll(E) \subseteq AboutAll(EL) /\ Fb!Tree \subseteq AboutAll(EL)
  BY <1>3, <1>7, <1>8, <1>9, <1>10
<1> QED BY <1>3, <1>4, <1>10, <1>12, <1>13, <1>14, TreeHappened

\* A window closes, and the focus goes with it.
LEMMA ClosesStep == ASSUME FbInv, Fb!ToplevelCloses PROVE FbInv' /\ Fb!View!WorldMoves
<1>1. PICK w \in fb.tops :
        Fb!Happens([fb EXCEPT !.tops = @ \ {w}, !.focus = IF @ = w THEN NoToplevel ELSE @], <<Fb!Bare("closed", w)>>)
  BY DEF Fb!ToplevelCloses
<1> DEFINE E == fb_events
           s == [fb EXCEPT !.tops = @ \ {w}, !.focus = IF @ = w THEN NoToplevel ELSE @]
           f == fb.focus
           a == Fb!Bare("closed", w)
           lit == {f} \cap Toplevel
           EL == E \o <<a>>
           tops == fb.tops \ {w}
           on == lit \ {w}
           I == fb_inner
<1>2. Fb!Happens(s, <<a>>)
  BY <1>1
<1>3. /\ fb' = s /\ fb_events' = EL /\ UNCHANGED <<fb_bound, fb_inner, fb_state, fb_untold, fb_broken>>
      /\ fb \in FbWorlds /\ E \in Seq(FbEvents) /\ I \in Tables
      /\ f \in fb.tops \cup {NoToplevel} /\ fb.tops \in SUBSET Toplevel /\ fb.title \in [Toplevel -> FbTexts] /\ lit \in SUBSET Toplevel
  <2> HIDE DEF s, a
  <2> QED BY <1>2, FbHappens
<1>4. /\ s \in FbWorlds /\ s.tops = tops /\ s.focus = (IF f = w THEN NoToplevel ELSE f) /\ s.title = fb.title /\ s.outputs = fb.outputs
      /\ s.at = fb.at /\ s.active = fb.active
  BY <1>3 DEF FbWorlds
<1>5. a \in FbEvents /\ Fb!About(a) = Fb!Tree /\ w \in Toplevel /\ 0 \in FbTexts
  <2>1. w \in Toplevel /\ 0 \in FbTexts
    BY <1>3 DEF FbTexts
  <2>2. a \in FbEvents
    BY <2>1, EventsThereAre
  <2>3. Fb!About(a) = Fb!Tree
    BY AboutKinds DEF Fb!Bare
  <2> QED BY <2>1, <2>2, <2>3
<1>6. EL \in Seq(FbEvents) /\ AboutAll(EL) = AboutAll(E) \cup Fb!Tree
  <2> HIDE DEF a
  <2>1. E \o <<a>> \in Seq(FbEvents) /\ AboutAll(E \o <<a>>) = AboutAll(E) \cup Fb!About(a)
    BY <1>3, <1>5, ReadsOne
  <2> QED BY <1>5, <2>1
<1>7. Tells(I, E, fb.tops, fb.title, lit, fb, fb_bound) => Tells(I, EL, tops, fb.title, on, fb, fb_bound)
  <2> SUFFICES ASSUME Tells(I, E, fb.tops, fb.title, lit, fb, fb_bound) PROVE Tells(I, EL, tops, fb.title, on, fb, fb_bound)
    OBVIOUS
  <2>1. TellsMore(I, E, fb.tops, fb.title, lit, fb, fb_bound, w, 0)
    <3> HIDE DEF lit, I, E
    <3> QED BY <1>3, <1>5, TellsOn
  <2> QED BY <2>1 DEF TellsMore
<1>8. {s.focus} \cap Toplevel = on
  BY <1>3, <1>4, FallbackAssumption
<1>9. s.focus \in s.tops \cup {NoToplevel}
  BY <1>3, <1>4
<1> HIDE DEF s, EL
<1>10. Tells(I, E, fb.tops, fb.title, lit, fb, fb_bound) => Tells(I, EL, s.tops, s.title, {s.focus} \cap Toplevel, fb, fb_bound)
  BY <1>4, <1>7, <1>8
<1> QED BY <1>3, <1>4, <1>6, <1>9, <1>10, TreeHappened

\* A window gets another title.
LEMMA RenamedStep == ASSUME FbInv, Fb!ToplevelRenamed PROVE FbInv' /\ Fb!View!WorldMoves
<1>1. PICK w \in fb.tops : Fb!Happens([fb EXCEPT !.title[w] = 1 - @], <<Fb!Event("title", w, 1 - fb.title[w])>>)
  BY DEF Fb!ToplevelRenamed
<1> DEFINE E == fb_events
           s == [fb EXCEPT !.title[w] = 1 - @]
           f == fb.focus
           x == 1 - fb.title[w]
           a == Fb!Event("title", w, x)
           lit == {f} \cap Toplevel
           EL == E \o <<a>>
           title == [fb.title EXCEPT ![w] = x]
           I == fb_inner
<1>2. Fb!Happens(s, <<a>>)
  BY <1>1
<1>3. /\ fb' = s /\ fb_events' = EL /\ UNCHANGED <<fb_bound, fb_inner, fb_state, fb_untold, fb_broken>>
      /\ fb \in FbWorlds /\ E \in Seq(FbEvents) /\ I \in Tables
      /\ f \in fb.tops \cup {NoToplevel} /\ fb.tops \in SUBSET Toplevel /\ fb.title \in [Toplevel -> FbTexts] /\ lit \in SUBSET Toplevel
  BY <1>2, FbHappens
<1>5. w \in Toplevel /\ x \in FbTexts
  <2>1. w \in Toplevel
    BY <1>3
  <2>2. fb.title[w] \in 0..1
    BY <1>3, <2>1 DEF FbTexts
  <2> QED BY <2>1, <2>2 DEF FbTexts
<1>11. s = [fb EXCEPT !.title = title]
  BY <1>3, <1>5 DEF FbWorlds
<1>12. title \in [Toplevel -> FbTexts]
  BY <1>3, <1>5
<1>4. /\ s \in FbWorlds /\ s.tops = fb.tops /\ s.focus = f /\ s.title = title /\ s.outputs = fb.outputs
      /\ s.at = fb.at /\ s.active = fb.active
  <2> HIDE DEF s, title
  <2> QED BY <1>3, <1>11, <1>12 DEF FbWorlds
<1>6. EL \in Seq(FbEvents) /\ AboutAll(EL) = AboutAll(E) \cup {"windows"}
  <2>1. a \in FbEvents /\ Fb!About(a) = {"windows"}
    BY <1>5, EventsThereAre, AboutKinds
  <2> HIDE DEF a
  <2>2. E \o <<a>> \in Seq(FbEvents) /\ AboutAll(E \o <<a>>) = AboutAll(E) \cup Fb!About(a)
    BY <1>3, <2>1, ReadsOne
  <2> QED BY <2>1, <2>2
<1>7. Tells(I, E, fb.tops, fb.title, lit, fb, fb_bound) => Tells(I, EL, fb.tops, title, lit, fb, fb_bound)
  <2> SUFFICES ASSUME Tells(I, E, fb.tops, fb.title, lit, fb, fb_bound) PROVE Tells(I, EL, fb.tops, title, lit, fb, fb_bound)
    OBVIOUS
  <2>1. TellsMore(I, E, fb.tops, fb.title, lit, fb, fb_bound, w, x)
    <3> HIDE DEF lit, I, E, x
    <3> QED BY <1>3, <1>5, TellsOn
  <2> QED BY <2>1 DEF TellsMore
<1>9. s.focus \in s.tops \cup {NoToplevel} /\ s.focus = fb.focus
  BY <1>3, <1>4
<1> HIDE DEF s, EL, title
<1>10. Tells(I, E, fb.tops, fb.title, lit, fb, fb_bound) => Tells(I, EL, s.tops, s.title, {s.focus} \cap Toplevel, fb, fb_bound)
  BY <1>4, <1>7, <1>9
<1> QED BY <1>3, <1>4, <1>6, <1>9, <1>10, TreeHappened

\* The focus goes from one window to another, or to none.
LEMMA FocusStep == ASSUME FbInv, Fb!FocusMoves PROVE FbInv' /\ Fb!View!WorldMoves
<1>1. PICK w \in fb.tops \cup {NoToplevel} :
        w # fb.focus /\ Fb!Happens([fb EXCEPT !.focus = w], Fb!Activation(fb.focus, 0) \o Fb!Activation(w, 1))
  BY DEF Fb!FocusMoves
<1> DEFINE E == fb_events
           s == [fb EXCEPT !.focus = w]
           f == fb.focus
           c == Fb!Event("state", f, 0)
           d == Fb!Event("state", w, 1)
           lit == {f} \cap Toplevel
           on == {w} \cap Toplevel
           L == Fb!Activation(f, 0) \o Fb!Activation(w, 1)
           E1 == Unfocused(E, f)
           EL == IF w = NoToplevel THEN E1 ELSE E1 \o <<d>>
           I == fb_inner
<1>2. Fb!Happens(s, L) /\ w # f
  BY <1>1
<1>3. /\ fb' = s /\ fb_events' = E \o L /\ UNCHANGED <<fb_bound, fb_inner, fb_state, fb_untold, fb_broken>>
      /\ fb \in FbWorlds /\ E \in Seq(FbEvents) /\ I \in Tables
      /\ f \in fb.tops \cup {NoToplevel} /\ fb.tops \in SUBSET Toplevel /\ fb.title \in [Toplevel -> FbTexts] /\ lit \in SUBSET Toplevel
  BY <1>2, FbHappens
<1>4. /\ s \in FbWorlds /\ s.tops = fb.tops /\ s.focus = w /\ s.title = fb.title /\ s.outputs = fb.outputs
      /\ s.at = fb.at /\ s.active = fb.active
  BY <1>3 DEF FbWorlds
<1>5. /\ f # NoToplevel => f \in Toplevel /\ c \in FbEvents /\ Fb!Activation(f, 0) = <<c>>
      /\ w # NoToplevel => w \in Toplevel /\ d \in FbEvents /\ Fb!Activation(w, 1) = <<d>>
  <2>1. 0 \in FbTexts /\ 1 \in FbTexts
    BY DEF FbTexts
  <2> QED BY <1>3, <2>1, EventsThereAre DEF Fb!Activation
<1>6. E \o L = EL
  <2>1. CASE f = NoToplevel
    <3>1. Fb!Activation(f, 0) = <<>> /\ E1 = E /\ w # NoToplevel
      BY <1>2, <2>1 DEF Fb!Activation, Unfocused
    <3>2. JoinOneByOne(E, d, d, d, d)
      <4> HIDE DEF d
      <4> QED BY <1>3, <1>5, <3>1, EventsJoin
    <3>3. E \o (<<>> \o <<d>>) = E \o <<d>>
      BY <3>2 DEF JoinOneByOne
    <3> QED BY <1>5, <3>1, <3>3
  <2>2. CASE f # NoToplevel /\ w = NoToplevel
    <3>1. Fb!Activation(w, 1) = <<>> /\ E1 = E \o <<c>>
      BY <2>2 DEF Fb!Activation, Unfocused
    <3>2. JoinOneByOne(E, c, c, c, c)
      <4> HIDE DEF c
      <4> QED BY <1>3, <1>5, <2>2, EventsJoin
    <3>3. E \o (<<c>> \o <<>>) = E \o <<c>>
      BY <3>2 DEF JoinOneByOne
    <3> QED BY <1>5, <2>2, <3>1, <3>3
  <2>3. CASE f # NoToplevel /\ w # NoToplevel
    <3>1. E1 = E \o <<c>>
      BY <2>3 DEF Unfocused
    <3>2. JoinOneByOne(E, c, d, c, d)
      <4> HIDE DEF c, d
      <4> QED BY <1>3, <1>5, <2>3, EventsJoin
    <3>3. E \o (<<c>> \o <<d>>) = (E \o <<c>>) \o <<d>>
      BY <3>2 DEF JoinOneByOne
    <3> QED BY <1>5, <2>3, <3>1, <3>3
  <2> QED BY <2>1, <2>2, <2>3
<1>7. /\ E1 \in Seq(FbEvents) /\ AboutAll(E) \subseteq AboutAll(E1)
      /\ Tells(I, E, fb.tops, fb.title, lit, fb, fb_bound) => Tells(I, E1, fb.tops, fb.title, {}, fb, fb_bound)
  <2>1. f \in Toplevel \cup {NoToplevel} /\ lit \subseteq {f}
    BY <1>3
  <2> DEFINE title == fb.title
             tops == fb.tops
             u == Unfocused(E, f)
  <2>2. title \in [Toplevel -> FbTexts] /\ I \in Tables /\ E \in Seq(FbEvents) /\ tops \in SUBSET Toplevel /\ lit \in SUBSET Toplevel
    BY <1>3
  <2>3. /\ u \in Seq(FbEvents) /\ AboutAll(E) \subseteq AboutAll(u) /\ AboutAll(u) \subseteq AboutAll(E) \cup Fb!Tree
        /\ Tells(I, E, tops, title, lit, fb, fb_bound) => Tells(I, u, tops, title, {}, fb, fb_bound)
    <3>1. I \in Tables /\ E \in Seq(FbEvents) /\ tops \in SUBSET Toplevel /\ title \in [Toplevel -> FbTexts]
          /\ lit \in SUBSET Toplevel /\ f \in Toplevel \cup {NoToplevel} /\ lit \subseteq {f}
      BY <2>1, <2>2
    <3> HIDE DEF lit, f, I, E, title, tops
    <3>2. NoFocus(I, E, tops, title, lit, f, fb, fb_bound)
      BY <3>1, FocusGone
    <3> QED BY <3>2 DEF NoFocus
  <2> QED BY <2>3
<1>8. f # NoToplevel => Fb!Tree \subseteq AboutAll(E1)
  <2> SUFFICES ASSUME f # NoToplevel PROVE Fb!Tree \subseteq AboutAll(E1)
    OBVIOUS
  <2>1. E1 = E \o <<c>> /\ Fb!About(c) = Fb!Tree /\ c \in FbEvents
    BY <1>5, AboutKinds DEF Unfocused
  <2> HIDE DEF c, E1
  <2>2. AboutAll(E \o <<c>>) = AboutAll(E) \cup Fb!About(c)
    BY <1>3, <2>1, ReadsOne
  <2> QED BY <2>1, <2>2
<1> HIDE DEF E1
<1>9. /\ EL \in Seq(FbEvents) /\ AboutAll(E1) \subseteq AboutAll(EL) /\ Fb!Tree \subseteq AboutAll(EL)
      /\ Tells(I, E1, fb.tops, fb.title, {}, fb, fb_bound) => Tells(I, EL, fb.tops, fb.title, on, fb, fb_bound)
  <2>1. CASE w = NoToplevel
    <3>1. on = {} /\ EL = E1
      BY <2>1, FallbackAssumption
    <3> QED BY <1>2, <1>7, <1>8, <2>1, <3>1
  <2>2. CASE w # NoToplevel
    <3>1. on = {w} /\ EL = E1 \o <<d>> /\ w \in Toplevel
      BY <1>5, <2>2
    <3> DEFINE title == fb.title
               tops == fb.tops
    <3>2. title \in [Toplevel -> FbTexts] /\ I \in Tables /\ E1 \in Seq(FbEvents) /\ tops \in SUBSET Toplevel
      BY <1>3, <1>7
    <3>3. /\ EL \in Seq(FbEvents) /\ AboutAll(EL) = AboutAll(E1) \cup Fb!Tree
          /\ Tells(I, E1, tops, title, {}, fb, fb_bound) => Tells(I, EL, tops, title, {w}, fb, fb_bound)
      <4> HIDE DEF I, EL, tops, title
      <4> QED BY <3>1, <3>2, FocusComes
    <3> QED BY <3>1, <3>3
  <2> QED BY <2>1, <2>2
<1>10. s.focus \in s.tops \cup {NoToplevel}
  BY <1>4
<1> HIDE DEF s, EL, L
<1>11. Tells(I, E, fb.tops, fb.title, lit, fb, fb_bound) => Tells(I, EL, s.tops, s.title, {s.focus} \cap Toplevel, fb, fb_bound)
  BY <1>4, <1>7, <1>9
<1>12. fb_events' = EL /\ AboutAll(E) \subseteq AboutAll(EL) /\ Fb!Tree \subseteq AboutAll(EL)
  BY <1>3, <1>6, <1>7, <1>9
<1> QED BY <1>3, <1>4, <1>9, <1>10, <1>11, <1>12, TreeHappened

\* The world is another but for its windows.
LEMMA PlacesHappened ==
  ASSUME FbInv, NEW s \in FbWorlds, NEW bound, NEW EL \in Seq(FbEvents), fb' = s, fb_bound' = bound, fb_events' = EL,
         UNCHANGED <<fb_inner, fb_state, fb_untold, fb_broken>>, FbWorldFits(s, bound),
         s.tops = fb.tops, s.title = fb.title, s.focus = fb.focus,
         AboutAll(fb_events) \subseteq AboutAll(EL), Fb!Places \subseteq AboutAll(EL),
         FbRan(fb_inner, EL).tops = FbRan(fb_inner, fb_events).tops,
         PlacesHold(FbRan(fb_inner, fb_events), fb.outputs, fb_bound, fb.at, fb.active)
           => PlacesHold(FbRan(fb_inner, EL), s.outputs, bound, s.at, s.active)
  PROVE  FbInv' /\ Fb!View!WorldMoves
<1>1. ~fb_broken => FbAgree(FbRan(fb_inner, EL), s, bound)
  BY DEF FbInv, FbAgree
<1>2. FbDiffer(fb, s) \subseteq AboutAll(EL)
  <2> DEFINE W(q) == FbWorldOf(q)
  <2>1. /\ W(fb)["windows"] = {[id |-> w, title |-> fb.title[w]] : w \in fb.tops} /\ W(s)["windows"] = {[id |-> w, title |-> s.title[w]] : w \in s.tops}
        /\ W(fb)["focus"] = fb.focus /\ W(s)["focus"] = s.focus
    BY FbWorldIs
  <2> HIDE DEF W
  <2>2. W(fb)["windows"] = W(s)["windows"] /\ W(fb)["focus"] = W(s)["focus"]
    BY <2>1
  <2>3. FbDiffer(fb, s) = {a \in Fb!FbArea : W(fb)[a] # W(s)[a]}
    BY DEF FbDiffer, W
  <2> QED BY <2>2, <2>3 DEF Fb!FbArea, Fb!Places
<1> QED BY <1>1, <1>2, FbHappened

\* Events that are not of windows leave the windows alone.
LEMMA PlainOn == \A b \in Tables, E \in Seq(FbEvents), e \in FbEvents :
  e.kind \notin TreeKinds => FbRan(b, E \o <<e>>).tops = FbRan(b, E).tops
<1> SUFFICES ASSUME NEW b \in Tables, NEW E \in Seq(FbEvents), NEW e \in FbEvents, e.kind \notin TreeKinds
             PROVE  FbRan(b, E \o <<e>>).tops = FbRan(b, E).tops
  OBVIOUS
<1> DEFINE t == FbRan(b, E)
           q == FbRan(b, E \o <<e>>)
<1>1. Dispatched(t, e, q)
  BY ReadsOne
<1> HIDE DEF t, q
<1>2. q.tops = t.tops
  BY <1>1 DEF Dispatched, TreeKinds
<1> QED BY <1>2 DEF t, q

\* What two events make of the tables.
TwoRead(t, q, u, b, E, e, f) ==
  /\ t = FbRan(b, E) /\ u = FbRan(b, E \o <<e, f>>) /\ Dispatched(t, e, q) /\ Dispatched(q, f, u) /\ u.tops = t.tops
  /\ E \o <<e, f>> \in Seq(FbEvents) /\ AboutAll(E \o <<e, f>>) = AboutAll(E) \cup Fb!About(e) \cup Fb!About(f)

\* Two events that are not of windows.
LEMMA TwoPlain ==
  ASSUME NEW b \in Tables, NEW E \in Seq(FbEvents), NEW e \in FbEvents, NEW f \in FbEvents, e.kind \notin TreeKinds, f.kind \notin TreeKinds
  PROVE  \E t, q, u \in Tables : TwoRead(t, q, u, b, E, e, f)
<1> DEFINE F == E \o <<e>>
           G == F \o <<f>>
<1>1. E \o <<e, f>> = G
  <2>1. JoinOneByOne(E, e, f, e, f)
    BY EventsJoin
  <2> QED BY <2>1 DEF JoinOneByOne
<1>2. /\ F \in Seq(FbEvents) /\ AboutAll(F) = AboutAll(E) \cup Fb!About(e) /\ FbRan(b, E) \in Tables /\ FbRan(b, F) \in Tables
      /\ Dispatched(FbRan(b, E), e, FbRan(b, F)) /\ FbRan(b, F).tops = FbRan(b, E).tops
  BY ReadsOne, PlainOn
<1> HIDE DEF F
<1>3. /\ G \in Seq(FbEvents) /\ AboutAll(G) = AboutAll(F) \cup Fb!About(f) /\ FbRan(b, G) \in Tables
      /\ Dispatched(FbRan(b, F), f, FbRan(b, G)) /\ FbRan(b, G).tops = FbRan(b, F).tops
  BY <1>2, ReadsOne, PlainOn
<1> HIDE DEF G
<1> DEFINE t == FbRan(b, E)
           q == FbRan(b, F)
           u == FbRan(b, G)
<1>4. /\ t \in Tables /\ q \in Tables /\ u \in Tables /\ u = FbRan(b, E \o <<e, f>>) /\ Dispatched(t, e, q) /\ Dispatched(q, f, u) /\ u.tops = t.tops
      /\ E \o <<e, f>> \in Seq(FbEvents) /\ AboutAll(E \o <<e, f>>) = AboutAll(E) \cup Fb!About(e) \cup Fb!About(f)
  BY <1>1, <1>2, <1>3
<1>5. t = FbRan(b, E)
  OBVIOUS
<1> HIDE DEF t, q, u
<1> QED BY <1>4, <1>5 DEF TwoRead

\* Another workspace is made the active one.
LEMMA ActivatedStep == ASSUME FbInv, Fb!SpaceActivated PROVE FbInv' /\ Fb!View!WorldMoves
<1>1. PICK p \in FbSpace \ {fb.active} :
        Fb!Happens([fb EXCEPT !.active = p], <<Fb!Event("inactive", fb.active, NoFbOutput), Fb!Bare("active", p)>>)
  BY DEF Fb!SpaceActivated
<1> DEFINE E == fb_events
           I == fb_inner
           s == [fb EXCEPT !.active = p]
           a == Fb!Event("inactive", fb.active, NoFbOutput)
           b == Fb!Bare("active", p)
           L == <<a, b>>
           EL == E \o L
<1>2. Fb!Happens(s, L)
  BY <1>1
<1>3. /\ fb' = s /\ fb_events' = EL /\ UNCHANGED <<fb_bound, fb_inner, fb_state, fb_untold, fb_broken>>
      /\ fb \in FbWorlds /\ E \in Seq(FbEvents) /\ I \in Tables
  <2> HIDE DEF s, L
  <2> QED BY <1>2, FbHappens
<1>4. /\ s \in FbWorlds /\ s.tops = fb.tops /\ s.focus = fb.focus /\ s.title = fb.title /\ s.outputs = fb.outputs
      /\ s.at = fb.at /\ s.active = p /\ fb.active \in FbSpace
  BY <1>3 DEF FbWorlds
<1>5. FbWorldFits(fb, fb_bound)
  BY DEF FbInv, FbTyped
<1>6. FbWorldFits(s, fb_bound)
  <2> HIDE DEF s
  <2> QED BY <1>4, <1>5 DEF FbWorldFits
<1>7. /\ a \in FbEvents /\ b \in FbEvents /\ Fb!About(a) = Fb!Places /\ Fb!About(b) = Fb!Places
      /\ a.kind = "inactive" /\ a.id = fb.active /\ b.kind = "active" /\ b.id = p
  <2>1. a \in FbEvents /\ b \in FbEvents
    BY <1>4, EventsThereAre DEF Fb!Bare
  <2> QED BY <2>1, AboutKinds, FbEventIs DEF Fb!Bare
<1> HIDE DEF a, b
<1>8. PICK t, q, u \in Tables :
        /\ t = FbRan(I, E) /\ u = FbRan(I, EL) /\ Dispatched(t, a, q) /\ Dispatched(q, b, u) /\ u.tops = t.tops
        /\ EL \in Seq(FbEvents) /\ AboutAll(EL) = AboutAll(E) \cup Fb!About(a) \cup Fb!About(b)
  <2>1. a.kind \notin TreeKinds /\ b.kind \notin TreeKinds
    BY <1>7 DEF TreeKinds
  <2>2. \E t, q, u \in Tables : TwoRead(t, q, u, I, E, a, b)
    <3> HIDE DEF E, I
    <3> QED BY <1>3, <1>7, <2>1, TwoPlain
  <2> QED BY <2>2 DEF TwoRead
<1>9. PlacesHold(t, fb.outputs, fb_bound, fb.at, fb.active) => PlacesHold(u, s.outputs, fb_bound, s.at, s.active)
  <2> SUFFICES ASSUME PlacesHold(t, fb.outputs, fb_bound, fb.at, fb.active) PROVE PlacesHold(u, s.outputs, fb_bound, s.at, s.active)
    OBVIOUS
  <2>1. Others(q, t.unnamed, t.named, t.groups, t.entered, t.group, t.active \ {fb.active})
    BY <1>7, <1>8 DEF Dispatched
  <2>2. Others(u, q.unnamed, q.named, q.groups, q.entered, q.group, q.active \cup {p})
    BY <1>7, <1>8 DEF Dispatched
  <2> HIDE DEF s
  <2> QED BY <1>4, <2>1, <2>2 DEF Others, PlacesHold
<1> HIDE DEF s, EL
<1>10. AboutAll(E) \subseteq AboutAll(EL) /\ Fb!Places \subseteq AboutAll(EL)
  BY <1>7, <1>8
<1>11. FbRan(I, EL).tops = FbRan(I, E).tops
  BY <1>8
<1> QED BY <1>3, <1>4, <1>6, <1>8, <1>9, <1>10, <1>11, PlacesHappened

\* A workspace goes to another output.
LEMMA SpaceMovesStep == ASSUME FbInv, Fb!SpaceMoves PROVE FbInv' /\ Fb!View!WorldMoves
<1>1. PICK p \in FbSpace, o \in fb.outputs :
        Fb!Happens([fb EXCEPT !.at[p] = o], <<Fb!Event("ws_leave", fb.at[p], p), Fb!Event("ws_enter", o, p)>>)
  BY DEF Fb!SpaceMoves
<1> DEFINE E == fb_events
           I == fb_inner
           s == [fb EXCEPT !.at[p] = o]
           at == [fb.at EXCEPT ![p] = o]
           a == Fb!Event("ws_leave", fb.at[p], p)
           b == Fb!Event("ws_enter", o, p)
           L == <<a, b>>
           EL == E \o L
<1>2. Fb!Happens(s, L)
  BY <1>1
<1>3. /\ fb' = s /\ fb_events' = EL /\ UNCHANGED <<fb_bound, fb_inner, fb_state, fb_untold, fb_broken>>
      /\ fb \in FbWorlds /\ E \in Seq(FbEvents) /\ I \in Tables
  <2> HIDE DEF s, L
  <2> QED BY <1>2, FbHappens
<1>12. o \in FbOutput /\ fb.at \in [FbSpace -> FbOutput] /\ fb.at[p] \in FbOutput /\ at \in [FbSpace -> FbOutput]
  BY <1>3 DEF FbWorlds
<1>13. s = [fb EXCEPT !.at = at]
  BY <1>3, <1>12 DEF FbWorlds
<1>4. /\ s \in FbWorlds /\ s.tops = fb.tops /\ s.focus = fb.focus /\ s.title = fb.title /\ s.outputs = fb.outputs
      /\ s.at = at /\ s.active = fb.active
  <2> HIDE DEF s, at
  <2> QED BY <1>3, <1>12, <1>13 DEF FbWorlds
<1>5. FbWorldFits(fb, fb_bound)
  BY DEF FbInv, FbTyped
<1>6. FbWorldFits(s, fb_bound)
  <2>1. \A r \in FbSpace : at[r] \in fb.outputs
    BY <1>5, <1>12 DEF FbWorldFits
  <2> HIDE DEF s, at
  <2> QED BY <1>4, <1>5, <2>1 DEF FbWorldFits
<1>7. /\ a \in FbEvents /\ b \in FbEvents /\ Fb!About(a) = Fb!Places /\ Fb!About(b) = Fb!Places
      /\ a.kind = "ws_leave" /\ a.arg = p /\ b.kind = "ws_enter" /\ b.id = o /\ b.arg = p
  <2>1. a \in FbEvents /\ b \in FbEvents
    BY <1>12, EventsThereAre
  <2> QED BY <2>1, AboutKinds, FbEventIs
<1> HIDE DEF a, b
<1>8. PICK t, q, u \in Tables :
        /\ t = FbRan(I, E) /\ u = FbRan(I, EL) /\ Dispatched(t, a, q) /\ Dispatched(q, b, u) /\ u.tops = t.tops
        /\ EL \in Seq(FbEvents) /\ AboutAll(EL) = AboutAll(E) \cup Fb!About(a) \cup Fb!About(b)
  <2>1. a.kind \notin TreeKinds /\ b.kind \notin TreeKinds
    BY <1>7 DEF TreeKinds
  <2>2. \E t, q, u \in Tables : TwoRead(t, q, u, I, E, a, b)
    <3> HIDE DEF E, I
    <3> QED BY <1>3, <1>7, <2>1, TwoPlain
  <2> QED BY <2>2 DEF TwoRead
<1>9. PlacesHold(t, fb.outputs, fb_bound, fb.at, fb.active) => PlacesHold(u, s.outputs, fb_bound, s.at, s.active)
  <2> SUFFICES ASSUME PlacesHold(t, fb.outputs, fb_bound, fb.at, fb.active) PROVE PlacesHold(u, s.outputs, fb_bound, s.at, s.active)
    OBVIOUS
  <2>1. Others(q, t.unnamed, t.named, t.groups, t.entered, [t.group EXCEPT ![p] = NoFbOutput], t.active)
    BY <1>7, <1>8 DEF Dispatched
  <2>2. Others(u, q.unnamed, q.named, q.groups, q.entered, [q.group EXCEPT ![p] = o], q.active)
    BY <1>7, <1>8 DEF Dispatched
  <2>3. t.group = fb.at
    BY DEF PlacesHold
  <2> DEFINE mid == [fb.at EXCEPT ![p] = NoFbOutput]
  <2>4. [mid EXCEPT ![p] = o] = at
    BY <1>12
  <2>5. q.group = mid
    BY <2>1, <2>3 DEF Others
  <2> HIDE DEF s, at, mid
  <2> QED BY <1>4, <2>1, <2>2, <2>4, <2>5 DEF Others, PlacesHold
<1> HIDE DEF s, EL
<1>10. AboutAll(E) \subseteq AboutAll(EL) /\ Fb!Places \subseteq AboutAll(EL)
  BY <1>7, <1>8
<1>11. FbRan(I, EL).tops = FbRan(I, E).tops
  BY <1>8
<1> QED BY <1>3, <1>4, <1>6, <1>8, <1>9, <1>10, <1>11, PlacesHappened

\* An output is plugged in.
LEMMA PluggedStep == ASSUME FbInv, Fb!OutputPlugged PROVE FbInv' /\ Fb!View!WorldMoves
<1>1. PICK o \in FbOutput \ fb.outputs :
        Fb!Happens([fb EXCEPT !.outputs = @ \cup {o}], <<Fb!Bare("global", o), Fb!Bare("group", o)>>)
  BY DEF Fb!OutputPlugged
<1> DEFINE E == fb_events
           I == fb_inner
           s == [fb EXCEPT !.outputs = @ \cup {o}]
           a == Fb!Bare("global", o)
           b == Fb!Bare("group", o)
           L == <<a, b>>
           EL == E \o L
<1>2. Fb!Happens(s, L)
  BY <1>1
<1>3. /\ fb' = s /\ fb_events' = EL /\ UNCHANGED <<fb_bound, fb_inner, fb_state, fb_untold, fb_broken>>
      /\ fb \in FbWorlds /\ E \in Seq(FbEvents) /\ I \in Tables
  <2> HIDE DEF s, L
  <2> QED BY <1>2, FbHappens
<1>4. /\ s \in FbWorlds /\ s.tops = fb.tops /\ s.focus = fb.focus /\ s.title = fb.title /\ s.outputs = fb.outputs \cup {o}
      /\ s.at = fb.at /\ s.active = fb.active
  BY <1>3 DEF FbWorlds
<1>5. FbWorldFits(fb, fb_bound)
  BY DEF FbInv, FbTyped
<1>6. FbWorldFits(s, fb_bound) /\ o \notin fb_bound
  <2> HIDE DEF s
  <2> QED BY <1>4, <1>5 DEF FbWorldFits
<1>7. /\ a \in FbEvents /\ b \in FbEvents /\ Fb!About(a) = {"monitors"} /\ Fb!About(b) = Fb!Places
      /\ a.kind = "global" /\ a.id = o /\ b.kind = "group" /\ b.id = o
  <2>1. "global" \in OutputKinds /\ "group" \in OutputKinds
    BY DEF OutputKinds
  <2>2. a \in FbEvents /\ b \in FbEvents
    BY <2>1, EventsThereAre
  <2> QED BY <2>2, AboutKinds, FbEventIs DEF Fb!Bare
<1> HIDE DEF a, b
<1>8. PICK t, q, u \in Tables :
        /\ t = FbRan(I, E) /\ u = FbRan(I, EL) /\ Dispatched(t, a, q) /\ Dispatched(q, b, u) /\ u.tops = t.tops
        /\ EL \in Seq(FbEvents) /\ AboutAll(EL) = AboutAll(E) \cup Fb!About(a) \cup Fb!About(b)
  <2>1. a.kind \notin TreeKinds /\ b.kind \notin TreeKinds
    BY <1>7 DEF TreeKinds
  <2>2. \E t, q, u \in Tables : TwoRead(t, q, u, I, E, a, b)
    <3> HIDE DEF E, I
    <3> QED BY <1>3, <1>7, <2>1, TwoPlain
  <2> QED BY <2>2 DEF TwoRead
<1>9. PlacesHold(t, fb.outputs, fb_bound, fb.at, fb.active) => PlacesHold(u, s.outputs, fb_bound, s.at, s.active)
  <2> SUFFICES ASSUME PlacesHold(t, fb.outputs, fb_bound, fb.at, fb.active) PROVE PlacesHold(u, s.outputs, fb_bound, s.at, s.active)
    OBVIOUS
  <2>1. Others(q, t.unnamed \cup {o}, t.named, t.groups, t.entered, t.group, t.active)
    BY <1>7, <1>8 DEF Dispatched
  <2>2. Others(u, q.unnamed, q.named, q.groups \cup {o}, q.entered, q.group, q.active)
    BY <1>7, <1>8 DEF Dispatched
  <2> HIDE DEF s
  <2> QED BY <1>4, <1>6, <2>1, <2>2 DEF Others, PlacesHold
<1> HIDE DEF s, EL
<1>10. AboutAll(E) \subseteq AboutAll(EL) /\ Fb!Places \subseteq AboutAll(EL)
  BY <1>7, <1>8
<1>11. FbRan(I, EL).tops = FbRan(I, E).tops
  BY <1>8
<1> QED BY <1>3, <1>4, <1>6, <1>8, <1>9, <1>10, <1>11, PlacesHappened

\* The compositor answers the binding of an output.
LEMMA AnsweredStep == ASSUME FbInv, Fb!OutputAnswered PROVE FbInv' /\ Fb!View!WorldMoves
<1>1. PICK o \in (fb_inner.unnamed \cap fb.outputs) \ fb_bound :
        /\ fb_bound' = fb_bound \cup {o} /\ fb_events' = fb_events \o <<Fb!Bare("name", o), Fb!Bare("output_enter", o)>>
        /\ UNCHANGED <<fb, fb_inner, fb_state, fb_untold, fb_broken>>
  BY DEF Fb!OutputAnswered
<1> DEFINE E == fb_events
           I == fb_inner
           bound == fb_bound \cup {o}
           a == Fb!Bare("name", o)
           b == Fb!Bare("output_enter", o)
           L == <<a, b>>
           EL == E \o L
<1>5. FbWorldFits(fb, fb_bound) /\ E \in Seq(FbEvents) /\ I \in Tables
  BY DEF FbInv, FbTyped
<1>3. /\ fb' = fb /\ fb_bound' = bound /\ fb_events' = EL /\ UNCHANGED <<fb_inner, fb_state, fb_untold, fb_broken>>
  BY <1>1
<1>4. fb \in FbWorlds /\ o \in FbOutput /\ o \in fb.outputs
  <2>1. fb.outputs \subseteq FbOutput /\ fb \in FbWorlds
    BY <1>5 DEF FbWorldFits, FbWorlds
  <2> QED BY <1>1, <2>1
<1>6. FbWorldFits(fb, bound)
  BY <1>4, <1>5 DEF FbWorldFits
<1>7. /\ a \in FbEvents /\ b \in FbEvents /\ Fb!About(a) = {"monitors"} /\ Fb!About(b) = Fb!Places
      /\ a.kind = "name" /\ a.id = o /\ b.kind = "output_enter" /\ b.id = o
  <2>1. "name" \in OutputKinds /\ "output_enter" \in OutputKinds
    BY DEF OutputKinds
  <2>2. a \in FbEvents /\ b \in FbEvents
    BY <1>4, <2>1, EventsThereAre
  <2> QED BY <2>2, AboutKinds, FbEventIs DEF Fb!Bare
<1> HIDE DEF a, b
<1>8. PICK t, q, u \in Tables :
        /\ t = FbRan(I, E) /\ u = FbRan(I, EL) /\ Dispatched(t, a, q) /\ Dispatched(q, b, u) /\ u.tops = t.tops
        /\ EL \in Seq(FbEvents) /\ AboutAll(EL) = AboutAll(E) \cup Fb!About(a) \cup Fb!About(b)
  <2>1. a.kind \notin TreeKinds /\ b.kind \notin TreeKinds
    BY <1>7 DEF TreeKinds
  <2>2. \E t, q, u \in Tables : TwoRead(t, q, u, I, E, a, b)
    <3> HIDE DEF E, I
    <3> QED BY <1>5, <1>7, <2>1, TwoPlain
  <2> QED BY <2>2 DEF TwoRead
<1>9. PlacesHold(t, fb.outputs, fb_bound, fb.at, fb.active) => PlacesHold(u, fb.outputs, bound, fb.at, fb.active)
  <2> SUFFICES ASSUME PlacesHold(t, fb.outputs, fb_bound, fb.at, fb.active) PROVE PlacesHold(u, fb.outputs, bound, fb.at, fb.active)
    OBVIOUS
  <2>1. Others(q, t.unnamed \ {o}, t.named \cup {o}, t.groups, t.entered, t.group, t.active)
    BY <1>7, <1>8 DEF Dispatched
  <2>2. Others(u, q.unnamed, q.named, q.groups, q.entered \cup ({o} \cap q.groups), q.group, q.active)
    BY <1>7, <1>8 DEF Dispatched
  <2> QED BY <1>4, <2>1, <2>2 DEF Others, PlacesHold
<1> HIDE DEF EL
<1>10. AboutAll(E) \subseteq AboutAll(EL) /\ Fb!Places \subseteq AboutAll(EL)
  BY <1>7, <1>8
<1>11. FbRan(I, EL).tops = FbRan(I, E).tops
  BY <1>8
<1> QED BY <1>3, <1>4, <1>6, <1>8, <1>9, <1>10, <1>11, PlacesHappened

\* Workspaces leave a group, or enter one, in some order.
Regroups(n, order, k, o) == [i \in 1..n |-> Fb!Event(k, o, order[i])]

Regrouped(b, E, L, order, n, v) ==
  /\ E \o L \in Seq(FbEvents) /\ AboutAll(E) \subseteq AboutAll(E \o L)
  /\ FbRan(b, E) \in Tables /\ FbRan(b, E \o L) \in Tables
  /\ LET t == FbRan(b, E)
         q == FbRan(b, E \o L)
     IN  /\ Others(q, t.unnamed, t.named, t.groups, t.entered, q.group, t.active) /\ q.tops = t.tops
         /\ \A p \in FbSpace : q.group[p] = IF \E i \in 1..n : order[i] = p THEN v ELSE t.group[p]

\* What the tables are then.
LEMMA RegroupedIs ==
  ASSUME NEW b \in Tables, NEW E \in Seq(FbEvents), NEW n \in Nat, NEW order, \A i \in 1..n : order[i] \in FbSpace,
         NEW k, NEW o \in FbOutput, NEW v, NEW L, L = Regroups(n, order, k, o),
         (k = "ws_leave" /\ v = NoFbOutput) \/ (k = "ws_enter" /\ v = o)
  PROVE  Regrouped(b, E, L, order, n, v)
<1>1. \A i \in 1..n : Fb!Event(k, o, order[i]) \in FbEvents
  BY EventsThereAre
<1>2. L \in Seq(FbEvents) /\ Len(L) = n /\ \A i \in 1..n : L[i] \in FbEvents /\ L[i].kind = k /\ L[i].id = o /\ L[i].arg = order[i]
  <2> DEFINE G(i) == Fb!Event(k, o, order[i])
             s == [i \in 1..n |-> G(i)]
  <2>1. L = s
    BY DEF Regroups
  <2>2. \A i \in 1..n : G(i).kind = k /\ G(i).id = o /\ G(i).arg = order[i]
    BY FbEventIs
  <2>3. \A i \in 1..n : G(i) \in FbEvents
    BY <1>1
  <2> HIDE DEF G
  <2>4. s \in Seq(FbEvents) /\ Len(s) = n
    BY <2>3
  <2>5. \A i \in 1..n : s[i] = G(i)
    OBVIOUS
  <2> HIDE DEF s
  <2> QED BY <2>1, <2>2, <2>3, <2>4, <2>5
<1>3. PICK run : FbFrom(run, b, E, L)
  BY <1>2, FbReadsOn
<1>4. run \in [0..n -> Tables] /\ run[0] = FbRan(b, E) /\ run[n] = FbRan(b, E \o L) /\ \A i \in 1..n : Dispatched(run[i - 1], L[i], run[i])
  BY <1>2, <1>3 DEF FbFrom
<1> DEFINE t == run[0]
           P(i) == /\ Others(run[i], t.unnamed, t.named, t.groups, t.entered, run[i].group, t.active) /\ run[i].tops = t.tops
                   /\ \A p \in FbSpace : run[i].group[p] = IF \E j \in 1..i : order[j] = p THEN v ELSE t.group[p]
           S == {i \in 0..n : P(i)}
<1>5. 0 \in S
  <2>1. 0 \in 0..n /\ 1..0 = {}
    OBVIOUS
  <2> QED BY <2>1 DEF Others
<1>6. ASSUME NEW i \in 1..n, i - 1 \in S PROVE i \in S
  <2> DEFINE q == run[i - 1]
             u == run[i]
             e == L[i]
  <2>1. i \in 0..n /\ i - 1 \in 0..n /\ 1..i = (1..(i - 1)) \cup {i}
    OBVIOUS
  <2>2. /\ Others(q, t.unnamed, t.named, t.groups, t.entered, q.group, t.active) /\ q.tops = t.tops
        /\ \A p \in FbSpace : q.group[p] = IF \E j \in 1..(i - 1) : order[j] = p THEN v ELSE t.group[p]
    BY <1>6
  <2>3. Dispatched(q, e, u) /\ q \in Tables /\ u \in Tables /\ e.kind = k /\ e.id = o /\ e.arg = order[i] /\ order[i] \in FbSpace
    BY <1>2, <1>4, <2>1
  <2>7. \A p \in FbSpace : (\E j \in 1..i : order[j] = p) <=> (order[i] = p \/ \E j \in 1..(i - 1) : order[j] = p)
    BY <2>1
  <2> HIDE DEF q, u, e, t
  <2>4. Others(u, q.unnamed, q.named, q.groups, q.entered, [q.group EXCEPT ![order[i]] = v], q.active) /\ u.tops = q.tops
    BY <2>3 DEF Dispatched
  <2>5. q.group \in [FbSpace -> FbMaybe]
    BY <2>3 DEF Tables
  <2>6. u.group = [q.group EXCEPT ![order[i]] = v]
    BY <2>4 DEF Others
  <2>8. \A p \in FbSpace : u.group[p] = IF \E j \in 1..i : order[j] = p THEN v ELSE t.group[p]
    <3> SUFFICES ASSUME NEW p \in FbSpace PROVE u.group[p] = IF \E j \in 1..i : order[j] = p THEN v ELSE t.group[p]
      OBVIOUS
    <3>1. u.group[p] = IF p = order[i] THEN v ELSE q.group[p]
      BY <2>5, <2>6
    <3> QED BY <2>2, <2>7, <3>1
  <2>9. Others(u, t.unnamed, t.named, t.groups, t.entered, u.group, t.active) /\ u.tops = t.tops
    BY <2>2, <2>4 DEF Others
  <2> QED BY <2>1, <2>8, <2>9 DEF u
<1> HIDE DEF S
<1>7. \A i \in 0..n : i \in S
  BY <1>5, <1>6, UpTo
<1>8. n \in S /\ 0 \in 0..n /\ n \in 0..n
  BY <1>7
<1>9. P(n)
  BY <1>8 DEF S
<1>10. run[0] \in Tables /\ run[n] \in Tables
  BY <1>4, <1>8
<1>11. E \o L \in Seq(FbEvents) /\ AboutAll(E) \subseteq AboutAll(E \o L)
  BY <1>2, FbAboutJoins
<1> QED BY <1>4, <1>9, <1>10, <1>11 DEF Regrouped

\* What joining events gives.
FbJoined(x, y, z) == z \in Seq(FbEvents) /\ Len(z) = Len(x) + Len(y) /\ (\A i \in 1..Len(x) : z[i] = x[i])
                   /\ \A i \in 1..Len(y) : z[Len(x) + i] = y[i]

\* What a queue is with more events behind it.
LEMMA JoinOf == \A x, y \in Seq(FbEvents) : FbJoined(x, y, x \o y)
  BY DEF FbJoined

\* Three events joined to others, one by one.
LEMMA ThreeJoin == \A E \in Seq(FbEvents), a, b, c \in FbEvents : E \o <<a, b, c>> = ((E \o <<a>>) \o <<b>>) \o <<c>>
<1> SUFFICES ASSUME NEW E \in Seq(FbEvents), NEW a \in FbEvents, NEW b \in FbEvents, NEW c \in FbEvents
             PROVE  E \o <<a, b, c>> = ((E \o <<a>>) \o <<b>>) \o <<c>>
  OBVIOUS
<1> DEFINE AB == <<a, b>>
           C == <<c>>
           ABC == <<a, b, c>>
           s == AB \o C
<1>1. /\ AB \in Seq(FbEvents) /\ C \in Seq(FbEvents) /\ ABC \in Seq(FbEvents) /\ Len(AB) = 2 /\ Len(C) = 1 /\ Len(ABC) = 3
      /\ AB[1] = a /\ AB[2] = b /\ C[1] = c /\ ABC[1] = a /\ ABC[2] = b /\ ABC[3] = c
  OBVIOUS
<1>6. JoinOneByOne(E, a, b, c, c)
  BY EventsJoin
<1>7. E \o AB = (E \o <<a>>) \o <<b>>
  BY <1>6 DEF JoinOneByOne
<1> HIDE DEF AB, C, ABC
<1>2. s \in Seq(FbEvents) /\ Len(s) = 3 /\ s[1] = a /\ s[2] = b /\ s[3] = c
  <2>4. AB \in Seq(FbEvents) /\ C \in Seq(FbEvents)
    BY <1>1
  <2>5. FbJoined(AB, C, s)
    BY <2>4, JoinOf
  <2> HIDE DEF s
  <2>1. s \in Seq(FbEvents) /\ Len(s) = Len(AB) + Len(C) /\ (\A i \in 1..Len(AB) : s[i] = AB[i]) /\ \A i \in 1..Len(C) : s[Len(AB) + i] = C[i]
    BY <2>5 DEF FbJoined
  <2>3. 1 \in 1..2 /\ 2 \in 1..2 /\ 1 \in 1..1 /\ 2 + 1 = 3
    OBVIOUS
  <2>2. s[1] = AB[1] /\ s[2] = AB[2] /\ s[2 + 1] = C[1]
    BY <1>1, <2>1, <2>3
  <2> QED BY <1>1, <2>1, <2>2
<1> HIDE DEF s
<1>3. \A i \in 1..Len(s) : s[i] = ABC[i]
  BY <1>1, <1>2
<1>4. s = ABC
  BY <1>1, <1>2, <1>3, SeqEqual
<1>5. E \o (AB \o C) = (E \o AB) \o C
  BY <1>1, FbAssoc
<1> QED BY <1>4, <1>5, <1>7 DEF s, ABC, C

\* What three events make of the tables.
ThreeRead(t, q, r, u, b, E, e, f, g) ==
  /\ t = FbRan(b, E) /\ u = FbRan(b, E \o <<e, f, g>>) /\ Dispatched(t, e, q) /\ Dispatched(q, f, r) /\ Dispatched(r, g, u)
  /\ u.tops = t.tops /\ E \o <<e, f, g>> \in Seq(FbEvents)
  /\ AboutAll(E \o <<e, f, g>>) = ((AboutAll(E) \cup Fb!About(e)) \cup Fb!About(f)) \cup Fb!About(g)

\* Three events that are not of windows.
LEMMA ThreePlain ==
  ASSUME NEW b \in Tables, NEW E \in Seq(FbEvents), NEW e \in FbEvents, NEW f \in FbEvents, NEW g \in FbEvents,
         e.kind \notin TreeKinds, f.kind \notin TreeKinds, g.kind \notin TreeKinds
  PROVE  \E t, q, r, u \in Tables : ThreeRead(t, q, r, u, b, E, e, f, g)
<1> DEFINE F == E \o <<e>>
           G == F \o <<f>>
           H == G \o <<g>>
<1>1. E \o <<e, f, g>> = H
  BY ThreeJoin
<1>2. /\ F \in Seq(FbEvents) /\ AboutAll(F) = AboutAll(E) \cup Fb!About(e) /\ FbRan(b, E) \in Tables /\ FbRan(b, F) \in Tables
      /\ Dispatched(FbRan(b, E), e, FbRan(b, F)) /\ FbRan(b, F).tops = FbRan(b, E).tops
  BY ReadsOne, PlainOn
<1> HIDE DEF F
<1>3. /\ G \in Seq(FbEvents) /\ AboutAll(G) = AboutAll(F) \cup Fb!About(f) /\ FbRan(b, G) \in Tables
      /\ Dispatched(FbRan(b, F), f, FbRan(b, G)) /\ FbRan(b, G).tops = FbRan(b, F).tops
  BY <1>2, ReadsOne, PlainOn
<1> HIDE DEF G
<1>4. /\ H \in Seq(FbEvents) /\ AboutAll(H) = AboutAll(G) \cup Fb!About(g) /\ FbRan(b, H) \in Tables
      /\ Dispatched(FbRan(b, G), g, FbRan(b, H)) /\ FbRan(b, H).tops = FbRan(b, G).tops
  BY <1>3, ReadsOne, PlainOn
<1> HIDE DEF H
<1> DEFINE t == FbRan(b, E)
           q == FbRan(b, F)
           r == FbRan(b, G)
           u == FbRan(b, H)
<1>5. /\ t \in Tables /\ q \in Tables /\ r \in Tables /\ u \in Tables /\ u = FbRan(b, E \o <<e, f, g>>)
      /\ Dispatched(t, e, q) /\ Dispatched(q, f, r) /\ Dispatched(r, g, u) /\ u.tops = t.tops
      /\ E \o <<e, f, g>> \in Seq(FbEvents) /\ AboutAll(E \o <<e, f, g>>) = ((AboutAll(E) \cup Fb!About(e)) \cup Fb!About(f)) \cup Fb!About(g)
  BY <1>1, <1>2, <1>3, <1>4
<1>6. t = FbRan(b, E)
  OBVIOUS
<1> HIDE DEF t, q, r, u
<1> QED BY <1>5, <1>6 DEF ThreeRead

\* What unplugging an output makes of the places.
Unplugged(s, o, next) == [p \in FbSpace |-> IF s.at[p] = o THEN next ELSE s.at[p]]

\* An output is unplugged.
LEMMA UnpluggedStep == ASSUME FbInv, Fb!OutputUnplugged PROVE FbInv' /\ Fb!View!WorldMoves
<1> DEFINE moved(o) == {p \in FbSpace : fb.at[p] = o}
           E == fb_events
           I == fb_inner
<1>0. PICK o, next \in fb.outputs : \E order \in Fb!Bijection(1 .. Cardinality(moved(o)), moved(o)) :
    /\ o # next /\ o \in fb_bound
    /\ fb' = [fb EXCEPT !.outputs = @ \ {o}, !.at = [p \in FbSpace |-> IF @[p] = o THEN next ELSE @[p]]]
    /\ fb_bound' = fb_bound \ {o}
    /\ fb_events' = fb_events \o [i \in DOMAIN order |-> Fb!Event("ws_leave", o, order[i])]
                              \o [i \in DOMAIN order |-> Fb!Event("ws_enter", next, order[i])]
                              \o <<Fb!Bare("output_leave", o), Fb!Bare("group_removed", o), Fb!Bare("global_remove", o)>>
    /\ UNCHANGED <<fb_inner, fb_state, fb_untold, fb_broken>>
  BY DEF Fb!OutputUnplugged, Fb!Cardinality, Cardinality
<1>1. PICK order \in Fb!Bijection(1 .. Cardinality(moved(o)), moved(o)) :
    /\ o # next /\ o \in fb_bound
    /\ fb' = [fb EXCEPT !.outputs = @ \ {o}, !.at = [p \in FbSpace |-> IF @[p] = o THEN next ELSE @[p]]]
    /\ fb_bound' = fb_bound \ {o}
    /\ fb_events' = fb_events \o [i \in DOMAIN order |-> Fb!Event("ws_leave", o, order[i])]
                              \o [i \in DOMAIN order |-> Fb!Event("ws_enter", next, order[i])]
                              \o <<Fb!Bare("output_leave", o), Fb!Bare("group_removed", o), Fb!Bare("global_remove", o)>>
    /\ UNCHANGED <<fb_inner, fb_state, fb_untold, fb_broken>>
  BY <1>0
<1> DEFINE M == moved(o)
           n == Cardinality(M)
           A == Regroups(n, order, "ws_leave", o)
           B == Regroups(n, order, "ws_enter", next)
           a == Fb!Bare("output_leave", o)
           b == Fb!Bare("group_removed", o)
           c == Fb!Bare("global_remove", o)
           Y == E \o A
           Z == Y \o B
           EL == Z \o <<a, b, c>>
           at == Unplugged(fb, o, next)
           s == [fb EXCEPT !.outputs = @ \ {o}, !.at = at]
           bound == fb_bound \ {o}
<1>2. FbWorldFits(fb, fb_bound) /\ E \in Seq(FbEvents) /\ I \in Tables
  BY DEF FbInv, FbTyped
<1>3. fb \in FbWorlds /\ o \in FbOutput /\ next \in FbOutput /\ fb.at \in [FbSpace -> FbOutput]
  <2>1. fb \in FbWorlds
    BY <1>2 DEF FbWorldFits
  <2> QED BY <1>1, <2>1 DEF FbWorlds
<1>4. n \in Nat
  <2>1. M \subseteq FbSpace
    OBVIOUS
  <2>2. IsFiniteSet(M)
    BY <2>1, FallbackAssumption, FS_Subset
  <2> QED BY <2>2, FS_CardinalityType
<1>5. /\ DOMAIN order = 1..n /\ (\A i \in 1..n : order[i] \in FbSpace) /\ \A p \in FbSpace : (\E i \in 1..n : order[i] = p) <=> fb.at[p] = o
  <2>1. order \in [1..n -> M] /\ \A p \in M : \E i \in 1..n : order[i] = p
    BY <1>1 DEF Fb!Bijection, Fb!Injection, Fb!Surjection
  <2>2. \A p : p \in M <=> p \in FbSpace /\ fb.at[p] = o
    OBVIOUS
  <2> HIDE DEF M, n
  <2> QED BY <2>1, <2>2
<1>6. fb_events' = EL
  BY <1>1, <1>5 DEF Regroups
<1>7. fb' = s
  BY <1>1, <1>3 DEF FbWorlds, Unplugged
<1>8. at \in [FbSpace -> FbOutput] /\ \A p \in FbSpace : at[p] \in fb.outputs \ {o} /\ at[p] = IF fb.at[p] = o THEN next ELSE fb.at[p]
  <2>1. \A p \in FbSpace : fb.at[p] \in fb.outputs /\ fb.at[p] \in FbOutput
    BY <1>2, <1>3 DEF FbWorldFits
  <2> QED BY <1>1, <1>3, <2>1 DEF Unplugged
<1>9. /\ s \in FbWorlds /\ s.tops = fb.tops /\ s.focus = fb.focus /\ s.title = fb.title /\ s.outputs = fb.outputs \ {o}
      /\ s.at = at /\ s.active = fb.active
  <2> HIDE DEF at
  <2> QED BY <1>3, <1>8 DEF FbWorlds
<1>10. FbWorldFits(s, bound)
  <2> HIDE DEF s, at
  <2> QED BY <1>2, <1>8, <1>9 DEF FbWorldFits
<1>11. Regrouped(I, E, A, order, n, NoFbOutput)
  <2> HIDE DEF n, A, I, E
  <2>1. A = Regroups(n, order, "ws_leave", o)
    BY DEF A
  <2> QED BY <1>2, <1>3, <1>4, <1>5, <2>1, RegroupedIs
<1> HIDE DEF Y
<1>12. Y \in Seq(FbEvents) /\ AboutAll(E) \subseteq AboutAll(Y)
  BY <1>11 DEF Regrouped, Y
<1>13. Regrouped(I, Y, B, order, n, next)
  <2> HIDE DEF n, B, I, E
  <2>1. B = Regroups(n, order, "ws_enter", next)
    BY DEF B
  <2> QED BY <1>2, <1>3, <1>4, <1>5, <1>12, <2>1, RegroupedIs
<1> HIDE DEF Z
<1>14. Z \in Seq(FbEvents) /\ AboutAll(Y) \subseteq AboutAll(Z)
  BY <1>13 DEF Regrouped, Z
<1>15. /\ a \in FbEvents /\ b \in FbEvents /\ c \in FbEvents /\ Fb!About(a) = Fb!Places
       /\ a.kind = "output_leave" /\ a.id = o /\ b.kind = "group_removed" /\ b.id = o /\ c.kind = "global_remove"
  <2>1. "output_leave" \in OutputKinds /\ "group_removed" \in OutputKinds /\ "global_remove" \in OutputKinds
    BY DEF OutputKinds
  <2>2. a \in FbEvents /\ b \in FbEvents /\ c \in FbEvents
    BY <1>3, <2>1, EventsThereAre
  <2> QED BY <2>2, AboutKinds, FbEventIs DEF Fb!Bare
<1> HIDE DEF a, b, c
<1>16. \E t, q, r, u \in Tables : ThreeRead(t, q, r, u, I, Z, a, b, c)
  <2>1. a.kind \notin TreeKinds /\ b.kind \notin TreeKinds /\ c.kind \notin TreeKinds
    BY <1>15 DEF TreeKinds
  <2> HIDE DEF E, I
  <2> QED BY <1>2, <1>14, <1>15, <2>1, ThreePlain
<1>17. PICK t, q, r, u \in Tables :
        /\ t = FbRan(I, Z) /\ u = FbRan(I, EL) /\ Dispatched(t, a, q) /\ Dispatched(q, b, r) /\ Dispatched(r, c, u) /\ u.tops = t.tops
        /\ EL \in Seq(FbEvents) /\ AboutAll(EL) = ((AboutAll(Z) \cup Fb!About(a)) \cup Fb!About(b)) \cup Fb!About(c)
  BY <1>16 DEF ThreeRead
<1> DEFINE v == FbRan(I, E)
           w == FbRan(I, Y)
<1>18. /\ Others(w, v.unnamed, v.named, v.groups, v.entered, w.group, v.active) /\ w.tops = v.tops
       /\ \A p \in FbSpace : w.group[p] = IF \E i \in 1..n : order[i] = p THEN NoFbOutput ELSE v.group[p]
  BY <1>11 DEF Regrouped, Y
<1>19. /\ Others(t, w.unnamed, w.named, w.groups, w.entered, t.group, w.active) /\ t.tops = w.tops /\ t.group \in [FbSpace -> FbMaybe]
       /\ \A p \in FbSpace : t.group[p] = IF \E i \in 1..n : order[i] = p THEN next ELSE w.group[p]
  BY <1>13, <1>17 DEF Regrouped, Z, Tables
<1> HIDE DEF v, w, s, EL, at, n, A, B
<1>20. PlacesHold(v, fb.outputs, fb_bound, fb.at, fb.active) => PlacesHold(u, s.outputs, bound, s.at, s.active)
  <2> SUFFICES ASSUME PlacesHold(v, fb.outputs, fb_bound, fb.at, fb.active) PROVE PlacesHold(u, s.outputs, bound, s.at, s.active)
    OBVIOUS
  <2>1. Others(q, t.unnamed, t.named, t.groups, t.entered \ {o}, t.group, t.active)
    BY <1>15, <1>17 DEF Dispatched
  <2>2. Others(r, q.unnamed, q.named, q.groups \ {o}, q.entered \ {o}, q.group, q.active)
    BY <1>15, <1>17 DEF Dispatched
  <2>3. u = r
    BY <1>15, <1>17 DEF Dispatched
  <2>4. t.group = at
    <3>1. \A p \in FbSpace : t.group[p] = at[p]
      BY <1>5, <1>8, <1>18, <1>19 DEF PlacesHold
    <3> QED BY <1>8, <1>19, <3>1
  <2>5. u.group = s.at
    BY <1>9, <2>1, <2>2, <2>3, <2>4 DEF Others
  <2>6. u.active = v.active /\ u.groups = v.groups \ {o} /\ u.entered = v.entered \ {o} /\ u.unnamed = v.unnamed /\ u.named = v.named
    BY <1>18, <1>19, <2>1, <2>2, <2>3 DEF Others
  <2>7. v.unnamed = s.outputs \ bound
    BY <1>1, <1>9 DEF PlacesHold
  <2> QED BY <1>9, <2>5, <2>6, <2>7 DEF PlacesHold
<1>21. AboutAll(E) \subseteq AboutAll(EL) /\ Fb!Places \subseteq AboutAll(EL)
  BY <1>12, <1>14, <1>15, <1>17
<1>22. FbRan(I, EL).tops = FbRan(I, E).tops
  BY <1>17, <1>18, <1>19 DEF v
<1>23. bound = fb_bound \ {o} /\ fb_bound' = bound /\ UNCHANGED <<fb_inner, fb_state, fb_untold, fb_broken>>
  BY <1>1
<1>24. /\ fb' = s /\ fb_events' = EL /\ EL \in Seq(FbEvents)
       /\ PlacesHold(FbRan(I, E), fb.outputs, fb_bound, fb.at, fb.active) => PlacesHold(FbRan(I, EL), s.outputs, bound, s.at, s.active)
  BY <1>6, <1>7, <1>17, <1>20 DEF v
<1> HIDE DEF bound
<1> QED BY <1>9, <1>10, <1>21, <1>22, <1>23, <1>24, PlacesHappened

\* What is not behind is as it is, and was told.
FbSettled == \A a \in Fb!FbArea \ Fb!Behind : fb_state[a] = FbWorldOf(fb)[a] /\ a \notin fb_untold

\* Tables with the rows the windows have show these windows, and their focus.
LEMMA TreeShown == \A t \in Tables, s \in FbWorlds :
  RowsHold(FbRowsOf(t.tops), s.tops, s.title, {s.focus} \cap Toplevel) /\ s.focus \in s.tops \cup {NoToplevel} =>
    Fb!Windows(t) = {[id |-> w, title |-> s.title[w]] : w \in s.tops} /\ Fb!Focus(t) = s.focus
<1> SUFFICES ASSUME NEW t \in Tables, NEW s \in FbWorlds,
                    RowsHold(FbRowsOf(t.tops), s.tops, s.title, {s.focus} \cap Toplevel), s.focus \in s.tops \cup {NoToplevel}
             PROVE  Fb!Windows(t) = {[id |-> w, title |-> s.title[w]] : w \in s.tops} /\ Fb!Focus(t) = s.focus
  OBVIOUS
<1> DEFINE rows == FbRowsOf(t.tops)
           lit == LitAt(t.tops)
           N == Len(t.tops)
           f == s.focus
<1>1. t.tops \in Seq(FbRows)
  BY DEF Tables
<1>2. N \in Nat /\ DOMAIN t.tops = 1..N /\ \A i \in 1..N : t.tops[i] \in FbRows
  BY <1>1
<1>3. s.tops \subseteq Toplevel /\ f \in Toplevel \cup {NoToplevel}
  BY DEF FbWorlds
<1>4. /\ \A r \in rows : r.id \in s.tops /\ r.title = s.title[r.id] /\ (r.activated <=> r.id \in {f} \cap Toplevel)
      /\ \A w \in s.tops : \E r \in rows : r.id = w
  BY DEF RowsHold
<1>5. Fb!Windows(t) = {FbShown(r) : r \in rows}
  BY WindowsAre
<1>6. {FbShown(r) : r \in rows} = {[id |-> w, title |-> s.title[w]] : w \in s.tops}
  <2> DEFINE Of(w) == [id |-> w, title |-> s.title[w]]
  <2>1. \A r \in rows : FbShown(r) = Of(r.id)
    BY <1>4 DEF FbShown
  <2> HIDE DEF rows, Of
  <2>2. {FbShown(r) : r \in rows} = {Of(w) : w \in s.tops}
    BY <1>4, <2>1
  <2> QED BY <2>2 DEF Of
<1>7. \A i \in 1..N : t.tops[i] \in rows
  BY <1>2 DEF FbRowsOf
<1>8. \A r \in rows : \E i \in 1..N : t.tops[i] = r
  BY <1>2 DEF FbRowsOf
<1>9. lit = {i \in 1..N : t.tops[i].activated}
  BY DEF LitAt
<1>10. Fb!Focus(t) = IF lit # {} THEN (IF Min(lit) = 0 THEN NoToplevel ELSE t.tops[Min(lit)].id) ELSE NoToplevel
  BY FocusIs
<1> HIDE DEF rows, lit, N, f
<1>11. Fb!Focus(t) = f
  <2>1. CASE lit = {}
    <3>1. f \notin Toplevel
      <4> SUFFICES ASSUME f \in Toplevel PROVE FALSE
        OBVIOUS
      <4>1. f \in s.tops
        BY FallbackAssumption DEF f
      <4>2. PICK r \in rows : r.id = f
        BY <1>4, <4>1
      <4>3. PICK i \in 1..N : t.tops[i] = r
        BY <1>8
      <4>4. r.activated
        BY <1>4, <4>2
      <4> QED BY <1>9, <2>1, <4>3, <4>4
    <3> QED BY <1>3, <1>10, <2>1, <3>1
  <2>2. CASE lit # {}
    <3>1. Min(lit) \in lit
      <4>1. lit \in SUBSET Nat
        BY <1>9
      <4> QED BY <2>2, <4>1, LeastThereIs
    <3> DEFINE i == Min(lit)
    <3>2. i \in 1..N /\ t.tops[i].activated /\ i # 0
      BY <1>9, <3>1
    <3>3. t.tops[i].id = f
      BY <1>4, <1>7, <3>2
    <3> QED BY <1>10, <2>2, <3>2, <3>3
  <2> QED BY <2>1, <2>2
<1> QED BY <1>5, <1>6, <1>11 DEF f

\* Tables that have the places of workspaces show them.
LEMMA PlacesShown == \A t \in Tables, s \in FbWorlds : \A bound :
  PlacesHold(t, s.outputs, bound, s.at, s.active) /\ FbWorldFits(s, bound) /\ s.outputs \subseteq bound =>
    /\ Fb!Workspaces(t) = [p \in FbSpace |-> [output |-> s.at[p], active |-> p = s.active]]
    /\ (t.named \cup t.unnamed) \ s.outputs = {} => Fb!Monitors(t) = [named |-> s.outputs, unnamed |-> {}]
<1> SUFFICES ASSUME NEW t \in Tables, NEW s \in FbWorlds, NEW bound,
                    PlacesHold(t, s.outputs, bound, s.at, s.active), FbWorldFits(s, bound), s.outputs \subseteq bound
             PROVE  /\ Fb!Workspaces(t) = [p \in FbSpace |-> [output |-> s.at[p], active |-> p = s.active]]
                    /\ (t.named \cup t.unnamed) \ s.outputs = {} => Fb!Monitors(t) = [named |-> s.outputs, unnamed |-> {}]
  OBVIOUS
<1>1. /\ t.active = {s.active} /\ t.group = s.at /\ t.entered = bound /\ t.unnamed = s.outputs \ bound /\ bound \subseteq t.named
      /\ \A p \in FbSpace : s.at[p] \in s.outputs
  BY DEF PlacesHold, FbWorldFits
<1>2. Fb!Workspaces(t) = [p \in FbSpace |-> [output |-> s.at[p], active |-> p = s.active]]
  <2>1. \A p \in FbSpace : Fb!WorkspaceOutput(t, p) = s.at[p] /\ ((p \in t.active) = (p = s.active))
    BY <1>1 DEF Fb!WorkspaceOutput
  <2> QED BY <2>1 DEF Fb!Workspaces
<1>3. ASSUME (t.named \cup t.unnamed) \ s.outputs = {} PROVE Fb!Monitors(t) = [named |-> s.outputs, unnamed |-> {}]
  <2>1. t.unnamed = {} /\ t.named = s.outputs
    BY <1>1, <1>3
  <2> QED BY <2>1 DEF Fb!Monitors
<1> QED BY <1>2, <1>3

\* What is not behind is as it is.
LEMMA FbSettles == FbInv => FbSettled
<1> SUFFICES ASSUME FbInv, NEW a \in Fb!FbArea \ Fb!Behind
             PROVE  fb_state[a] = FbWorldOf(fb)[a] /\ a \notin fb_untold
  BY DEF FbSettled
<1> DEFINE t == FbRan(fb_inner, fb_events)
<1>1. ~fb_broken
  BY DEF Fb!Behind
<1>2. FbTyped /\ fb_inner.dirty = {} /\ fb_state = Fb!SyncState(fb_inner) /\ FbAgree(t, fb, fb_bound)
  BY <1>1 DEF FbInv
<1>3. fb_inner \in Tables /\ fb_events \in Seq(FbEvents) /\ fb_untold = {} /\ FbWorldFits(fb, fb_bound) /\ fb \in FbWorlds
  BY <1>2 DEF FbTyped, FbWorldFits
<1>4. a \notin AboutAll(fb_events) /\ (a = "monitors" => Fb!Gone = {}) /\ (a \in Fb!Places => fb.outputs \subseteq fb_bound)
  BY <1>1 DEF Fb!Behind, AboutAll
<1>5. t \in Tables /\ FbSofar(fb_inner, fb_events, t)
  BY <1>3, FbRanTyped, FbRanMarks
<1>6. Fb!SyncState(t)[a] = fb_state[a]
  BY <1>2, <1>4, <1>5 DEF FbSofar
<1>7. "monitors" \notin AboutAll(fb_events) => Fb!Monitors(t) = Fb!Monitors(fb_inner)
  <2>1. "monitors" \notin t.dirty => Fb!SyncState(t)["monitors"] = Fb!SyncState(fb_inner)["monitors"]
    BY <1>5 DEF FbSofar, Fb!FbArea
  <2>2. "monitors" \notin AboutAll(fb_events) => "monitors" \notin t.dirty
    BY <1>2, <1>5 DEF FbSofar
  <2> HIDE DEF t
  <2> QED BY <2>1, <2>2, SyncIs
<1>8. RowsHold(FbRowsOf(t.tops), fb.tops, fb.title, {fb.focus} \cap Toplevel) /\ PlacesHold(t, fb.outputs, fb_bound, fb.at, fb.active)
  BY <1>2 DEF FbAgree
<1> HIDE DEF t
<1>9. Fb!SyncState(t)[a] = FbWorldOf(fb)[a]
  <2> DEFINE W == FbWorldOf(fb)
  <2>0. /\ W["monitors"] = [named |-> fb.outputs, unnamed |-> {}] /\ W["focus"] = fb.focus
        /\ W["workspaces"] = [p \in FbSpace |-> [output |-> fb.at[p], active |-> p = fb.active]]
        /\ W["windows"] = {[id |-> w, title |-> fb.title[w]] : w \in fb.tops}
    BY FbWorldIs
  <2> HIDE DEF W
  <2>1. CASE a \in Fb!Tree
    <3>1. Fb!Windows(t) = {[id |-> w, title |-> fb.title[w]] : w \in fb.tops} /\ Fb!Focus(t) = fb.focus
      BY <1>3, <1>5, <1>8, TreeShown DEF FbWorldFits
    <3> QED BY <2>0, <2>1, <3>1, SyncIs DEF Fb!Tree, W
  <2>2. CASE a = "workspaces"
    <3>1. Fb!Workspaces(t) = [p \in FbSpace |-> [output |-> fb.at[p], active |-> p = fb.active]]
      BY <1>3, <1>4, <1>5, <1>8, <2>2, PlacesShown DEF Fb!Places
    <3> QED BY <2>0, <2>2, <3>1, SyncIs DEF W
  <2>3. CASE a = "monitors"
    <3>1. t.named = fb_inner.named /\ t.unnamed = fb_inner.unnamed
      BY <1>4, <1>7, <2>3 DEF Fb!Monitors
    <3>2. (t.named \cup t.unnamed) \ fb.outputs = {}
      BY <1>4, <2>3, <3>1 DEF Fb!Gone
    <3>3. Fb!Monitors(t) = [named |-> fb.outputs, unnamed |-> {}]
      BY <1>3, <1>4, <1>5, <1>8, <2>3, <3>2, PlacesShown DEF Fb!Places
    <3> QED BY <2>0, <2>3, <3>3, SyncIs DEF W
  <2> QED BY <2>1, <2>2, <2>3 DEF Fb!FbArea, Fb!Tree
<1> QED BY <1>3, <1>6, <1>9

\* An output is entered by a group that there is, whatever was read.
LEMMA EnteredFits == \A b \in Tables, E \in Seq(FbEvents) : b.entered \subseteq b.groups => FbRan(b, E).entered \subseteq FbRan(b, E).groups
<1> SUFFICES ASSUME NEW b \in Tables, NEW E \in Seq(FbEvents), b.entered \subseteq b.groups
             PROVE  FbRan(b, E).entered \subseteq FbRan(b, E).groups
  OBVIOUS
<1> DEFINE N == Len(E)
<1>1. PICK run : FbIsRun(run, b, E)
  BY FbRunThereIs
<1>2. N \in Nat /\ N \in 0..N /\ (\A i \in 1..N : i - 1 \in 0..N /\ i \in 0..N) /\ \A i \in 1..N : E[i] \in FbEvents
  OBVIOUS
<1>3. run[0] = b /\ FbRan(b, E) = run[N] /\ \A i \in 1..N : Dispatched(run[i - 1], E[i], run[i])
  BY <1>1 DEF FbIsRun
<1> HIDE DEF N
<1> DEFINE S == {i \in 0..N : run[i].entered \subseteq run[i].groups}
<1>4. 0 \in S
  BY <1>2, <1>3
<1>5. ASSUME NEW i \in 1..N, i - 1 \in S PROVE i \in S
  <2> DEFINE t == run[i - 1]
             q == run[i]
             e == E[i]
  <2>1. Dispatched(t, e, q) /\ t.entered \subseteq t.groups /\ i \in 0..N /\ KindFits(e)
    BY <1>2, <1>3, <1>5, KindsFit
  <2> HIDE DEF t, q, e
  <2>2. q.entered \subseteq q.groups
    BY <2>1 DEF Dispatched, OthersStay, Others, KindFits, OutputKinds, WorkspaceKinds, ActiveKinds, OpenKinds, TextKinds
  <2> QED BY <2>1, <2>2 DEF q
<1> HIDE DEF S
<1>6. \A i \in 0..N : i \in S
  BY <1>2, <1>4, <1>5, UpTo
<1> QED BY <1>2, <1>3, <1>6 DEF S

\* Nothing read is nothing done.
LEMMA NothingRead == \A b \in Tables : FbRan(b, <<>>) = b /\ <<>> \in Seq(FbEvents) /\ AboutAll(<<>>) = {}
<1> SUFFICES ASSUME NEW b \in Tables PROVE FbRan(b, <<>>) = b
  BY DEF AboutAll
<1>1. <<>> \in Seq(FbEvents) /\ Len(<<>>) = 0
  OBVIOUS
<1>2. PICK run : FbIsRun(run, b, <<>>)
  BY <1>1, FbRunThereIs
<1> QED BY <1>1, <1>2 DEF FbIsRun

\* What is marked is not shown.
Unmarked(t) == [t EXCEPT !.dirty = {}]

\* Taking the marks off a table shows what it showed.
LEMMA UnmarkedIs == \A t \in Tables :
  /\ Unmarked(t) \in Tables /\ Unmarked(t).dirty = {} /\ Fb!SyncState(Unmarked(t)) = Fb!SyncState(t) /\ Unmarked(t).tops = t.tops
  /\ OthersStay(t, Unmarked(t))
<1> SUFFICES ASSUME NEW t \in Tables
             PROVE  /\ Unmarked(t) \in Tables /\ Unmarked(t).dirty = {} /\ Fb!SyncState(Unmarked(t)) = Fb!SyncState(t) /\ Unmarked(t).tops = t.tops
                    /\ OthersStay(t, Unmarked(t))
  OBVIOUS
<1> DEFINE u == Unmarked(t)
<1>1. /\ u \in Tables /\ u.dirty = {} /\ u.tops = t.tops /\ u.unnamed = t.unnamed /\ u.named = t.named /\ u.groups = t.groups
      /\ u.entered = t.entered /\ u.group = t.group /\ u.active = t.active
  BY DEF Unmarked, Tables
<1> HIDE DEF u
<1>2. Fb!Focus(u) = Fb!Focus(t)
  BY <1>1, FocusIs
<1>3. Fb!Windows(u) = Fb!Windows(t)
  BY <1>1 DEF Fb!Windows
<1>4. Fb!Monitors(u) = Fb!Monitors(t) /\ Fb!Workspaces(u) = Fb!Workspaces(t)
  BY <1>1 DEF Fb!Monitors, Fb!Workspaces, Fb!WorkspaceOutput
<1>5. Fb!SyncState(u) = Fb!SyncState(t)
  BY <1>2, <1>3, <1>4 DEF Fb!SyncState
<1> QED BY <1>1, <1>5 DEF u, OthersStay, Others

\* The focus shown is a window, or none.
LEMMA FocusTyped == \A t \in Tables : Fb!SyncState(t).focus \in Toplevel \cup {NoToplevel}
<1> SUFFICES ASSUME NEW t \in Tables PROVE Fb!Focus(t) \in Toplevel \cup {NoToplevel}
  BY DEF Fb!SyncState
<1> DEFINE lit == LitAt(t.tops)
           N == Len(t.tops)
<1>1. t.tops \in Seq(FbRows)
  BY DEF Tables
<1>2. N \in Nat /\ \A i \in 1..N : t.tops[i] \in FbRows
  BY <1>1
<1>3. lit \in SUBSET (1..N)
  BY DEF LitAt
<1>4. Fb!Focus(t) = IF lit # {} THEN (IF Min(lit) = 0 THEN NoToplevel ELSE t.tops[Min(lit)].id) ELSE NoToplevel
  BY FocusIs
<1> HIDE DEF lit, N
<1>5. lit # {} => Min(lit) \in 1..N
  <2>1. lit \in SUBSET Nat
    BY <1>3
  <2> QED BY <1>3, <2>1, LeastThereIs
<1>6. \A i \in 1..N : t.tops[i].id \in Toplevel
  BY <1>2 DEF FbRows
<1> QED BY <1>4, <1>5, <1>6

\* The areas of what is shown are all of it.
LEMMA ShownWhole == \A t, q : (\A a \in Fb!FbArea : Fb!SyncState(t)[a] = Fb!SyncState(q)[a]) => Fb!SyncState(t) = Fb!SyncState(q)
<1> SUFFICES ASSUME NEW t, NEW q, \A a \in Fb!FbArea : Fb!SyncState(t)[a] = Fb!SyncState(q)[a] PROVE Fb!SyncState(t) = Fb!SyncState(q)
  OBVIOUS
<1>1. Fb!Monitors(t) = Fb!Monitors(q) /\ Fb!Workspaces(t) = Fb!Workspaces(q) /\ Fb!Windows(t) = Fb!Windows(q) /\ Fb!Focus(t) = Fb!Focus(q)
  BY SyncIs DEF Fb!FbArea
<1> QED BY <1>1 DEF Fb!SyncState

\* All events there are are read.
LEMMA ReadAllStep == ASSUME FbInv, Fb!ReadAll PROVE FbInv' /\ Fb!View!Update
<1> DEFINE E == fb_events
           I == fb_inner
           t == FbRan(I, E)
           u == Unmarked(t)
<1>1. /\ ~fb_broken /\ fb_events' = <<>> /\ fb_inner' = u /\ fb_state' = (IF t.dirty = {} THEN fb_state ELSE Fb!SyncState(t))
      /\ fb_untold' = (fb_untold \cup Fb!Differ(fb_state, fb_state')) \ t.dirty /\ UNCHANGED <<fb, fb_bound, fb_broken>>
  BY DEF Fb!ReadAll, FbRan, Fb!Told, Unmarked
<1>2. FbTyped /\ I.dirty = {} /\ fb_state = Fb!SyncState(I) /\ FbAgree(t, fb, fb_bound)
  BY <1>1 DEF FbInv
<1>3. I \in Tables /\ E \in Seq(FbEvents) /\ fb_untold = {} /\ FbWorldFits(fb, fb_bound) /\ I.entered \subseteq I.groups
  BY <1>2 DEF FbTyped
<1>4. t \in Tables /\ FbSofar(I, E, t) /\ t.entered \subseteq t.groups
  BY <1>3, FbRanTyped, FbRanMarks, EnteredFits
<1>5. t.dirty = AboutAll(E) /\ \A a \in Fb!FbArea : a \notin t.dirty => Fb!SyncState(t)[a] = fb_state[a]
  BY <1>2, <1>4 DEF FbSofar
<1> HIDE DEF t
<1>6. fb_state' = Fb!SyncState(t)
  <2>1. t.dirty = {} => Fb!SyncState(t) = Fb!SyncState(I)
    BY <1>2, <1>5, ShownWhole
  <2> QED BY <1>1, <1>2, <2>1
<1>7. fb_untold' = {}
  <2>1. \A a \in Fb!FbArea : a \notin t.dirty => fb_state[a] = fb_state'[a]
    BY <1>5, <1>6
  <2> QED BY <1>1, <1>3, <2>1 DEF Fb!Differ
<1>8. u \in Tables /\ u.dirty = {} /\ Fb!SyncState(u) = Fb!SyncState(t) /\ u.tops = t.tops /\ OthersStay(t, u)
  BY <1>4, UnmarkedIs
<1> HIDE DEF u
<1>9. FbRan(fb_inner', fb_events') = u /\ fb_events' \in Seq(FbEvents) /\ AboutAll(fb_events') = {}
  BY <1>1, <1>8, NothingRead
<1>10. FbTyped'
  <2>1. fb_inner' \in Tables /\ fb_inner'.entered \subseteq fb_inner'.groups
    BY <1>1, <1>4, <1>8 DEF OthersStay, Others
  <2>2. fb_state'.focus \in Toplevel \cup {NoToplevel}
    BY <1>4, <1>6, FocusTyped
  <2>3. FbWorldFits(fb', fb_bound') /\ fb_broken' \in BOOLEAN
    BY <1>1, <1>2, <1>3 DEF FbTyped
  <2> QED BY <1>7, <1>9, <2>1, <2>2, <2>3 DEF FbTyped
<1>11. FbAgree(u, fb, fb_bound)
  <2>1. PlacesHold(u, fb.outputs, fb_bound, fb.at, fb.active)
    BY <1>2, <1>8 DEF FbAgree, PlacesHold, OthersStay, Others
  <2>2. RowsHold(FbRowsOf(u.tops), fb.tops, fb.title, {fb.focus} \cap Toplevel)
    BY <1>2, <1>8 DEF FbAgree
  <2> QED BY <2>1, <2>2 DEF FbAgree
<1>12. FbInv'
  <2>1. FbAgree(FbRan(fb_inner', fb_events'), fb', fb_bound')
    BY <1>1, <1>9, <1>11
  <2>2. fb_inner'.dirty = {} /\ fb_state' = Fb!SyncState(fb_inner')
    BY <1>1, <1>6, <1>8
  <2> QED BY <1>10, <2>1, <2>2 DEF FbInv
<1>13. Fb!Behind' \subseteq Fb!Behind
  <2> DEFINE gone == (u.named \cup u.unnamed) \ fb.outputs
             half == IF fb.outputs \subseteq fb_bound THEN {} ELSE Fb!Places
  <2>1. Fb!Behind = AboutAll(E) \cup (IF Fb!Gone # {} THEN {"monitors"} ELSE {}) \cup half
    BY <1>1 DEF Fb!Behind, AboutAll
  <2>2. Fb!Behind' = AboutAll(fb_events') \cup (IF gone # {} THEN {"monitors"} ELSE {}) \cup half
    BY <1>1 DEF Fb!Behind, Fb!Gone, AboutAll
  <2>3. "monitors" \notin AboutAll(E) => gone = Fb!Gone
    <3> SUFFICES ASSUME "monitors" \notin AboutAll(E) PROVE gone = Fb!Gone
      OBVIOUS
    <3>1. Fb!Monitors(t) = Fb!Monitors(I)
      <4>1. Fb!SyncState(t)["monitors"] = Fb!SyncState(I)["monitors"]
        BY <1>2, <1>5 DEF Fb!FbArea
      <4> QED BY <4>1, SyncIs
    <3>2. t.named = I.named /\ t.unnamed = I.unnamed
      BY <3>1 DEF Fb!Monitors
    <3>3. u.named = t.named /\ u.unnamed = t.unnamed
      BY <1>8 DEF OthersStay, Others
    <3> QED BY <3>2, <3>3 DEF Fb!Gone
  <2> HIDE DEF gone, half
  <2> QED BY <1>9, <2>1, <2>2, <2>3
<1>14. FbSettled'
  BY <1>12, FbSettles, PTL
<1>15. Fb!View!Settled'
  BY <1>14 DEF Fb!View!Settled, FbSettled, FbWorldOf
<1>16. FbWorldOf(fb)' = FbWorldOf(fb)
  BY <1>1
<1>17. Fb!View!Update
  BY <1>7, <1>13, <1>15, <1>16 DEF Fb!View!Update, FbWorldOf
<1> QED BY <1>12, <1>17

\* The connection fails after some events were read.
LEMMA ReadFailsStep == ASSUME FbInv, Fb!ReadFails PROVE FbInv' /\ Fb!View!WorldMoves
<1>1. PICK n \in 0 .. Len(fb_events) : fb_inner' = FbRan(fb_inner, SubSeq(fb_events, 1, n))
  BY DEF Fb!ReadFails, FbRan
<1>2. /\ ~fb_broken /\ fb_broken' = TRUE /\ fb_events' = <<>> /\ fb_untold' = (fb_untold \cup Fb!Differ(fb_state, fb_state')) \ Fb!FbArea
      /\ UNCHANGED <<fb, fb_bound, fb_state>>
  BY DEF Fb!ReadFails, Fb!Told
<1>3. /\ fb_inner \in Tables /\ fb_events \in Seq(FbEvents) /\ fb_untold = {} /\ FbWorldFits(fb, fb_bound)
      /\ fb_inner.entered \subseteq fb_inner.groups /\ fb_state.focus \in Toplevel \cup {NoToplevel}
  BY DEF FbInv, FbTyped
<1>4. SubSeq(fb_events, 1, n) \in Seq(FbEvents)
  <2> DEFINE E == fb_events
             s == SubSeq(E, 1, n)
  <2>1. Len(E) \in Nat /\ \A i \in 1..Len(E) : E[i] \in FbEvents
    BY <1>3
  <2>2. n \in 0..Len(E) /\ E \in Seq(FbEvents)
    BY <1>1, <1>3
  <2> HIDE DEF E
  <2>3. s = [i \in 1..n |-> E[i]]
    BY <2>1, <2>2
  <2>4. \A i \in 1..n : E[i] \in FbEvents
    BY <2>1, <2>2
  <2>5. [i \in 1..n |-> E[i]] \in Seq(FbEvents)
    BY <2>2, <2>4
  <2> QED BY <2>3, <2>5 DEF E
<1>5. fb_inner' \in Tables /\ fb_inner'.entered \subseteq fb_inner'.groups
  BY <1>1, <1>3, <1>4, FbRanTyped, EnteredFits
<1>6. fb_untold' = {}
  <2>1. fb_untold' \subseteq Fb!Differ(fb_state, fb_state')
    BY <1>2, <1>3
  <2> QED BY <1>2, <2>1 DEF Fb!Differ
<1>7. <<>> \in Seq(FbEvents) /\ TRUE \in BOOLEAN
  OBVIOUS
<1>8. FbInv'
  BY <1>2, <1>3, <1>5, <1>6, <1>7 DEF FbInv, FbTyped
<1>9. Fb!Behind \subseteq Fb!FbArea /\ Fb!Behind' = Fb!FbArea
  <2>1. AboutAll(fb_events) \subseteq Fb!FbArea
    <3>1. \A i \in DOMAIN fb_events : fb_events[i] \in FbEvents
      BY <1>3
    <3> QED BY <3>1, FbAboutIs DEF AboutAll
  <2>2. Fb!Places \subseteq Fb!FbArea /\ "monitors" \in Fb!FbArea
    BY DEF Fb!Places, Fb!FbArea
  <2> QED BY <1>2, <2>1, <2>2 DEF Fb!Behind, AboutAll
<1>10. Fb!View!WorldMoves
  BY <1>2, <1>3, <1>6, <1>9 DEF Fb!View!WorldMoves, Fb!View!Differ
<1> QED BY <1>8, <1>10

\* It starts with no window, and with the outputs the compositor told of.
LEMMA FbStarts == ASSUME Fb!Init PROVE FbInv /\ Fb!View!Init
<1>1. /\ fb = [tops |-> {}, title |-> [w \in Toplevel |-> 0], focus |-> NoToplevel, outputs |-> FbOutput,
               active |-> CHOOSE p \in FbSpace : TRUE, at |-> [p \in FbSpace |-> CHOOSE o \in FbOutput : TRUE]]
      /\ fb_bound = FbOutput /\ fb_events = <<>> /\ fb_broken = FALSE /\ fb_untold = {}
      /\ fb_inner = [unnamed |-> {}, named |-> FbOutput, groups |-> FbOutput, entered |-> FbOutput,
                     group |-> fb.at, active |-> {fb.active}, tops |-> <<>>, dirty |-> {}]
      /\ fb_state = Fb!SyncState(fb_inner)
  BY DEF Fb!Init
<1> DEFINE act == CHOOSE p \in FbSpace : TRUE
           out == CHOOSE o \in FbOutput : TRUE
           title == [w \in Toplevel |-> 0]
           at == [p \in FbSpace |-> out]
<1>2. act \in FbSpace /\ out \in FbOutput
  BY FallbackAssumption
<1> HIDE DEF act, out
<1>3. title \in [Toplevel -> FbTexts] /\ at \in [FbSpace -> FbOutput] /\ \A p \in FbSpace : at[p] \in FbOutput
  BY <1>2 DEF FbTexts
<1>4. fb = [tops |-> {}, title |-> title, focus |-> NoToplevel, outputs |-> FbOutput, active |-> act, at |-> at]
  BY <1>1 DEF act, out
<1> HIDE DEF title, at
<1>5. /\ fb \in FbWorlds /\ fb.tops = {} /\ fb.focus = NoToplevel /\ fb.outputs = FbOutput /\ fb.active = act /\ fb.at = at
  BY <1>2, <1>3, <1>4 DEF FbWorlds
<1>6. FbWorldFits(fb, fb_bound)
  BY <1>1, <1>3, <1>5 DEF FbWorldFits
<1>7. /\ fb_inner \in Tables /\ fb_inner.unnamed = {} /\ fb_inner.named = FbOutput /\ fb_inner.groups = FbOutput
      /\ fb_inner.entered = FbOutput /\ fb_inner.group = at /\ fb_inner.active = {act} /\ fb_inner.tops = <<>> /\ fb_inner.dirty = {}
  <2>1. <<>> \in Seq(FbRows) /\ {act} \in SUBSET FbSpace /\ at \in [FbSpace -> FbMaybe]
    BY <1>2, <1>3 DEF FbMaybe
  <2>2. fb_inner = [unnamed |-> {}, named |-> FbOutput, groups |-> FbOutput, entered |-> FbOutput,
                    group |-> at, active |-> {act}, tops |-> <<>>, dirty |-> {}]
    BY <1>1, <1>5
  <2> QED BY <2>1, <2>2 DEF Tables
<1>8. FbRan(fb_inner, fb_events) = fb_inner /\ fb_events \in Seq(FbEvents) /\ AboutAll(fb_events) = {}
  BY <1>1, <1>7, NothingRead
<1>9. FbTyped
  <2>1. fb_state.focus \in Toplevel \cup {NoToplevel}
    BY <1>1, <1>7, FocusTyped
  <2>2. fb_broken \in BOOLEAN
    BY <1>1
  <2> QED BY <1>1, <1>6, <1>7, <1>8, <2>1, <2>2 DEF FbTyped
<1>10. FbAgree(fb_inner, fb, fb_bound)
  <2>1. FbRowsOf(fb_inner.tops) = {}
    BY <1>7 DEF FbRowsOf
  <2>2. RowsHold(FbRowsOf(fb_inner.tops), fb.tops, fb.title, {fb.focus} \cap Toplevel)
    BY <1>5, <2>1 DEF RowsHold
  <2>3. PlacesHold(fb_inner, fb.outputs, fb_bound, fb.at, fb.active)
    BY <1>1, <1>5, <1>7 DEF PlacesHold
  <2> QED BY <2>2, <2>3 DEF FbAgree
<1>11. FbInv
  BY <1>1, <1>7, <1>8, <1>9, <1>10 DEF FbInv
<1>12. Fb!Behind = {}
  <2>1. Fb!Gone = {} /\ fb.outputs \subseteq fb_bound
    BY <1>1, <1>5, <1>7 DEF Fb!Gone
  <2> QED BY <1>1, <1>8, <2>1 DEF Fb!Behind, AboutAll
<1>13. FbSettled
  BY <1>11, FbSettles
<1>14. [a \in Fb!FbArea |-> fb_state[a]] = FbWorldOf(fb)
  <2>1. \A a \in Fb!FbArea : fb_state[a] = FbWorldOf(fb)[a]
    BY <1>12, <1>13 DEF FbSettled
  <2>2. FbWorldOf(fb) = [a \in Fb!FbArea |-> FbWorldOf(fb)[a]]
    BY DEF FbWorldOf, Fb!FbArea
  <2> QED BY <2>1, <2>2
<1>15. Fb!View!Init
  BY <1>1, <1>12, <1>14 DEF Fb!View!Init, FbWorldOf
<1> QED BY <1>11, <1>15

\* Every step keeps the invariant, and is a step of the view.
LEMMA FbGoesOn == ASSUME FbInv, [Fb!Next]_(Fb!fbVars) PROVE FbInv' /\ [Fb!View!Next]_(Fb!View!viewVars)
<1>1. CASE Fb!World
  <2>1. FbInv' /\ Fb!View!WorldMoves
    BY <1>1, OpensStep, ClosesStep, RenamedStep, FocusStep, ActivatedStep, SpaceMovesStep, PluggedStep, UnpluggedStep DEF Fb!World
  <2> QED BY <2>1 DEF Fb!View!Next
<1>2. CASE Fb!OutputAnswered
  BY <1>2, AnsweredStep DEF Fb!View!Next
<1>3. CASE Fb!ReadAll
  BY <1>3, ReadAllStep DEF Fb!View!Next
<1>4. CASE Fb!ReadFails
  BY <1>4, ReadFailsStep DEF Fb!View!Next
<1>5. CASE UNCHANGED Fb!fbVars
  <2>1. UNCHANGED <<fb, fb_events, fb_bound, fb_inner, fb_state, fb_untold, fb_broken>>
    BY <1>5 DEF Fb!fbVars
  <2>2. FbInv'
    BY <2>1 DEF FbInv, FbTyped
  <2>3. UNCHANGED <<Fb!Behind, FbWorldOf(fb)>>
    BY <2>1 DEF Fb!Behind, Fb!Gone
  <2>4. UNCHANGED Fb!View!viewVars
    BY <2>1, <2>3 DEF Fb!View!viewVars, FbWorldOf
  <2> QED BY <2>2, <2>4
<1> QED BY <1>1, <1>2, <1>3, <1>4, <1>5 DEF Fb!Next, Fb!UpdateState

\* The invariant gives the types.
LEMMA FbPromises == ASSUME FbInv PROVE Fb!TypeOK
<1>1. fb_inner \in Tables /\ fb_untold = {} /\ fb_inner.entered \subseteq fb_inner.groups /\ fb_state.focus \in Toplevel \cup {NoToplevel}
  BY DEF FbInv, FbTyped
<1>2. /\ fb_inner.dirty \subseteq Fb!FbArea /\ fb_inner.named \subseteq FbOutput /\ fb_inner.unnamed \subseteq FbOutput
      /\ fb_inner.groups \subseteq FbOutput
  BY <1>1 DEF Tables
<1> QED BY <1>1, <1>2 DEF Fb!TypeOK

\* The state of the other compositors implements the view, whatever comes.
THEOREM FbFollows == Fb!Spec => []Fb!TypeOK /\ Fb!ImplementsView
<1>1. Fb!Init => FbInv /\ Fb!View!Init
  BY FbStarts
<1>2. FbInv /\ [Fb!Next]_(Fb!fbVars) => FbInv' /\ [Fb!View!Next]_(Fb!View!viewVars)
  BY FbGoesOn
<1>3. FbInv => Fb!TypeOK
  BY FbPromises
<1> QED BY <1>1, <1>2, <1>3, PTL DEF Fb!Spec, Fb!ImplementsView, Fb!View!Spec
=============================================================================
