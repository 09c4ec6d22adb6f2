---------------------------- MODULE ShellProofs -----------------------------
(***************************************************************************)
(* What the parts of the shell promise, for every value of their           *)
(* constants: audio and the tray (copies and drawings follow what is       *)
(* there), popups and menus, the components of a panel, and the spotlight. *)
(*                                                                         *)
(* Each part has an invariant of its own (AudioInv, TrayInv, PopTyped and  *)
(* PopFollows, CompInv, SpotInv), with three lemmas: the initial states    *)
(* have it (...Starts), each step of the part keeps it (...GoesOn), and it *)
(* implies what the part promises (...Promises).  What an action promises  *)
(* of its step is a lemma of its own (...Step).  The constants are bounded *)
(* only by the assumptions of ShellParts.                                  *)
(***************************************************************************)
EXTENDS ShellParts, SequencesExt, SequenceTheorems, FiniteSetTheorems, WellFoundedInduction, TLAPS

-----------------------------------------------------------------------------
(* Inductions, and folds over sequences: what filtering the cells of a     *)
(* section needs.                                                           *)

\* Induction over the natural numbers, for sets.
LEMMA ShellInduction ==
  ASSUME NEW S, 0 \in S, \A n \in Nat : n \in S => n + 1 \in S
  PROVE  \A n \in Nat : n \in S
<1> DEFINE R == {ss \in Nat \X Nat : ss[1] < ss[2]}
           T == {n \in Nat : n \notin S}
<1> SUFFICES ASSUME T # {} PROVE FALSE
  OBVIOUS
<1>1. IsWellFoundedOn(R, Nat)
  BY NatLessThanWellFounded DEF OpToRel
<1>2. T \subseteq Nat
  OBVIOUS
<1>3. \A x, y \in Nat : x < y => <<x, y>> \in R
  OBVIOUS
<1> HIDE DEF T, R
<1>4. PICK m \in T : \A y \in T : ~ (<<y, m>> \in R)
  BY <1>1, <1>2, WFMin
<1>5. m \in Nat /\ m \notin S
  BY DEF T
<1>6. m # 0 /\ m - 1 \in Nat /\ <<m - 1, m>> \in R
  BY <1>5, <1>3
<1>7. m - 1 \in S
  BY <1>4, <1>6 DEF T
<1> QED
  BY <1>5, <1>6, <1>7

\* The greatest of the first numbers.
LEMMA ShellMaxIs == \A n \in Nat \ {0} : \A x \in SUBSET (1..n) : n \in x => Max(x) = n
<1> SUFFICES ASSUME NEW n \in Nat \ {0}, NEW x \in SUBSET (1..n), n \in x PROVE Max(x) = n
  OBVIOUS
<1>1. \A y \in x : n >= y
  OBVIOUS
<1>2. \A m \in x : (\A y \in x : m >= y) => m = n
  <2> SUFFICES ASSUME NEW m \in x, \A y \in x : m >= y PROVE m = n
    OBVIOUS
  <2>1. m \in 1..n /\ m >= n
    OBVIOUS
  <2> QED BY <2>1
<1> QED
  BY <1>1, <1>2 DEF Max

\* `it` folds the first N numbers with `step`, in the form the community modules give it.
IsShellFold(it, b, N, step) ==
  \A x \in SUBSET (1..N) : it[x] = IF x = {} THEN b ELSE step[<<it[x \ {Max(x)}], Max(x)>>]

\* There is such a fold.
LEMMA ShellFoldsThereAre ==
  ASSUME NEW R, NEW b \in R, NEW N \in Nat, NEW step \in [R \X (1..N) -> R]
  PROVE  \E it \in [SUBSET (1..N) -> R] : IsShellFold(it, b, N, step)
<1> DEFINE Folds(it, n) ==
             \A x \in SUBSET (1..n) : it[x] = IF x = {} THEN b ELSE step[<<it[x \ {Max(x)}], Max(x)>>]
           P(n) == \E it \in [SUBSET (1..n) -> R] : Folds(it, n)
           S == {n \in Nat : n <= N => P(n)}
<1>1. P(0)
  <2> DEFINE none == SUBSET (1..0)
             it == [x \in none |-> b]
  <2>1. \A x \in none : x = {}
    OBVIOUS
  <2> HIDE DEF none
  <2>2. it \in [none -> R] /\ \A x \in none : it[x] = b
    OBVIOUS
  <2> HIDE DEF it
  <2>3. it \in [SUBSET (1..0) -> R] /\ Folds(it, 0)
    BY <2>1, <2>2 DEF none
  <2> HIDE DEF Folds
  <2> QED BY <2>3
<1>2. ASSUME NEW n \in Nat, n + 1 <= N, P(n) PROVE P(n + 1)
  <2>0. 1..n + 1 = (1..n) \cup {n + 1} /\ n + 1 \notin 1..n
    OBVIOUS
  <2>1. PICK it \in [SUBSET (1..n) -> R] : Folds(it, n)
    BY <1>2
  <2> DEFINE new == [x \in SUBSET (1..n + 1) |-> IF n + 1 \in x THEN step[<<it[x \ {n + 1}], n + 1>>] ELSE it[x]]
  <2>2. \A x \in SUBSET (1..n + 1) : x \ {n + 1} \in SUBSET (1..n)
    BY <2>0
  <2>3. \A x \in SUBSET (1..n + 1) : n + 1 \notin x => x \in SUBSET (1..n)
    BY <2>0
  <2>4. n + 1 \in 1..N
    BY <1>2
  <2>5. new \in [SUBSET (1..n + 1) -> R]
    <3> SUFFICES ASSUME NEW x \in SUBSET (1..n + 1) PROVE new[x] \in R
      OBVIOUS
    <3>1. CASE n + 1 \in x
      <4>1. it[x \ {n + 1}] \in R
        BY <2>2
      <4> QED BY <3>1, <4>1, <2>4
    <3>2. CASE n + 1 \notin x
      BY <3>2, <2>3
    <3> QED BY <3>1, <3>2
  <2>6. Folds(new, n + 1)
    <3> SUFFICES ASSUME NEW x \in SUBSET (1..n + 1)
                 PROVE  new[x] = IF x = {} THEN b ELSE step[<<new[x \ {Max(x)}], Max(x)>>]
      OBVIOUS
    <3>1. CASE n + 1 \in x
      <4>1. Max(x) = n + 1 /\ x # {}
        BY <3>1, ShellMaxIs
      <4>2. new[x] = step[<<it[x \ {n + 1}], n + 1>>]
        BY <3>1
      <4>3. x \ {n + 1} \in SUBSET (1..n + 1) /\ n + 1 \notin x \ {n + 1}
        OBVIOUS
      <4>4. new[x \ {n + 1}] = it[x \ {n + 1}]
        BY <4>3
      <4> QED BY <4>1, <4>2, <4>4
    <3>2. CASE n + 1 \notin x
      <4>1. x \in SUBSET (1..n) /\ new[x] = it[x]
        BY <2>3, <3>2
      <4>2. x \ {Max(x)} \in SUBSET (1..n + 1) /\ n + 1 \notin x \ {Max(x)}
        BY <3>2
      <4>3. new[x \ {Max(x)}] = it[x \ {Max(x)}]
        BY <4>2
      <4> QED BY <2>1, <4>1, <4>3
    <3> QED BY <3>1, <3>2
  <2> HIDE DEF new, Folds
  <2> QED BY <2>5, <2>6
<1> HIDE DEF P
<1>3. 0 \in S /\ \A n \in Nat : n \in S => n + 1 \in S
  <2>1. \A n \in Nat : n + 1 <= N => n <= N
    OBVIOUS
  <2> QED BY <1>1, <1>2, <2>1
<1> HIDE DEF S
<1>4. N \in S
  BY <1>3, ShellInduction
<1>5. P(N)
  BY <1>4 DEF S
<1> QED
  BY <1>5 DEF P, IsShellFold

\* The values that a fold goes through, for the first numbers, the first two, and so on.
LEMMA ShellPrefixesRun ==
  ASSUME NEW R, NEW N \in Nat, NEW it, it[{}] \in R, \A k \in 1..N : it[1..k - 1] \in R => it[1..k] \in R
  PROVE  [k \in 0..N |-> it[1..k]] \in [0..N -> R]
<1> DEFINE S == {k \in Nat : k <= N => it[1..k] \in R}
<1>1. 0 \in S
  <2>1. 1..0 = {}
    OBVIOUS
  <2> QED BY <2>1
<1>2. ASSUME NEW k \in Nat, k \in S PROVE k + 1 \in S
  <2>1. k + 1 <= N => k + 1 \in 1..N /\ (k + 1) - 1 = k /\ k <= N
    OBVIOUS
  <2> QED BY <1>2, <2>1
<1> HIDE DEF S
<1>3. \A k \in Nat : k \in S
  BY <1>1, <1>2, ShellInduction
<1> QED BY <1>3 DEF S

\* A set of the first numbers has a greatest.
LEMMA ShellGreatestOf ==
  ASSUME NEW n \in Nat, NEW S \in SUBSET (1..n), S # {}
  PROVE  Max(S) \in S /\ \A y \in S : Max(S) >= y
<1> DEFINE T == {n - y : y \in S}
           R == {ss \in Nat \X Nat : ss[1] < ss[2]}
<1>1. T \subseteq Nat /\ T # {}
  <2>1. \A y \in S : n - y \in Nat
    <3> SUFFICES ASSUME NEW y \in S PROVE n - y \in Nat
      OBVIOUS
    <3>1. y \in 1..n
      OBVIOUS
    <3> QED BY <3>1
  <2>2. PICK z \in S : TRUE
    OBVIOUS
  <2>3. n - z \in T
    OBVIOUS
  <2> QED BY <2>1, <2>3
<1>2. IsWellFoundedOn(R, Nat)
  BY NatLessThanWellFounded DEF OpToRel
<1>3. \A x, y \in Nat : x < y => <<x, y>> \in R
  OBVIOUS
<1> HIDE DEF R
<1>4. PICK t \in T : \A y \in T : ~ (<<y, t>> \in R)
  <2> HIDE DEF T
  <2> QED BY <1>1, <1>2, WFMin
<1>5. PICK g \in S : t = n - g
  OBVIOUS
<1>6. \A y \in S : g >= y
  <2> SUFFICES ASSUME NEW y \in S, ~(g >= y) PROVE FALSE
    OBVIOUS
  <2>1. n - y \in T /\ n - y < t
    BY <1>5
  <2> QED BY <1>1, <1>3, <1>4, <2>1
<1> QED BY <1>6 DEF Max

\* A set of numbers has a least one.
LEMMA ShellLeastThereIs == \A S \in SUBSET Nat : S # {} => Min(S) \in S
<1> SUFFICES ASSUME NEW S \in SUBSET Nat, S # {} PROVE Min(S) \in S
  OBVIOUS
<1> DEFINE R == {ss \in Nat \X Nat : ss[1] < ss[2]}
<1>1. IsWellFoundedOn(R, Nat)
  BY NatLessThanWellFounded DEF OpToRel
<1>2. \A x, y \in Nat : x < y => <<x, y>> \in R
  OBVIOUS
<1> HIDE DEF R
<1>3. PICK m \in S : \A y \in S : ~ (<<y, m>> \in R)
  BY <1>1, WFMin
<1>4. \A y \in S : m <= y
  <2> SUFFICES ASSUME NEW y \in S, ~(m <= y) PROVE FALSE
    OBVIOUS
  <2>1. m \in Nat /\ y \in Nat /\ y < m
    OBVIOUS
  <2> QED BY <1>2, <1>3, <2>1
<1> QED
  BY <1>4 DEF Min

-----------------------------------------------------------------------------
(* Audio (Audio.tla).                                                       *)

Ops == {"volume", "louder", "quieter", "mute", "sink", "play_pause", "select_player"}
AudioBare == {"louder", "quieter", "mute", "play_pause"}

Cmds == {Sound!AudioCmd(op, NoBus) : op \in AudioBare} \cup {Sound!AudioCmd("volume", v) : v \in Sound!Volume}
        \cup {Sound!AudioCmd("sink", s) : s \in 1..2} \cup {Sound!AudioCmd("select_player", b) : b \in Bus}
Sounds == [volume : Sound!Volume, muted : BOOLEAN, sink : 1..2]

AudioTyped ==
  /\ sound \in Sounds /\ audio_state \in Sounds
  /\ audio_loop \in Ops \cup {"down", "select"} /\ audio_cmds \in Seq(Cmds)
  /\ mpris.primary \in Bus \cup {NoBus}
  /\ audio_signal \in {"empty", "written", "drained"} /\ audio_unseen \in BOOLEAN

\* The pipe and the revision go together, and the panel shows what is published
\* when nothing is signalled.
AudioShown == Sound!PanelFresh /\ (audio_unseen <=> audio_signal # "empty")

\* Only the command that chooses a player leaves the primary one to its refresh.
AudioChosen ==
  audio_loop \notin {"down", "select_player"} => mpris.primary = Sound!Preferred(mpris.players, audio_selected)
AudioInv == AudioTyped /\ AudioShown /\ AudioChosen /\ Sound!SelectionSurvives

\* What a command carries is what its kind says: a level, a sink, or a player.
LEMMA CmdHas == \A c \in Cmds :
  /\ c.op \in Ops /\ (c.op = "volume" => c.arg \in Sound!Volume) /\ (c.op = "sink" => c.arg \in 1..2)
  /\ (c.op = "select_player" => c.arg \in Bus)
BY DEF Cmds, Sound!AudioCmd, Ops, AudioBare

\* The player preferred is one of the bus, or none.
LEMMA PreferredIs == \A ps, sel : Sound!Preferred(ps, sel) \in Bus \cup {NoBus}
<1> SUFFICES ASSUME NEW ps, NEW sel PROVE Sound!Preferred(ps, sel) \in Bus \cup {NoBus}
  OBVIOUS
<1> DEFINE here == {b \in Bus : ps[b] # "gone"}
           kinds == <<{b \in here : b = sel.bus},
                 {b \in here : sel.identity # NoBus /\ IdentityOf[b] = sel.identity},
                 {b \in here : ps[b] = "playing"}, {b \in here : ps[b] # "idle"}, here>>
           some == {i \in 1..5 : kinds[i] # {}} \cup {6}
           k == Min(some)
<1>1. \A i \in 1..5 : kinds[i] \subseteq Bus
  OBVIOUS
<1>2. Sound!Preferred(ps, sel) = IF k = 6 THEN NoBus ELSE Min(kinds[k])
  BY DEF Sound!Preferred, Sound!Min, Min
<1> HIDE DEF kinds
<1>3. k \in some
  <2>1. some \in SUBSET Nat /\ some # {}
    OBVIOUS
  <2> HIDE DEF some
  <2> QED BY <2>1, ShellLeastThereIs
<1>4. CASE k = 6
  BY <1>2, <1>4
<1>5. CASE k # 6
  <2>1. k \in 1..5 /\ kinds[k] # {} /\ kinds[k] \subseteq Bus
    BY <1>1, <1>3, <1>5
  <2>2. Min(kinds[k]) \in kinds[k]
    BY <2>1, ShellLeastThereIs, AudioAssumption
  <2> QED BY <1>2, <1>5, <2>1, <2>2
<1> QED BY <1>4, <1>5

\* What the panel offers on what it has drawn are commands.
LEMMA OffersAre == ASSUME NEW d PROVE Sound!Offers(d) \cup Sound!PanelOffers \subseteq Cmds
<1>1. Sound!Header \subseteq Cmds /\ Sound!Slider \subseteq Cmds /\ Sound!AudioCmd("play_pause", NoBus) \in Cmds
  BY DEF Sound!Header, Sound!Slider, Cmds, AudioBare
<1>2. \A b \in Bus : Sound!PlayerRow(b) \in Cmds
  BY DEF Sound!PlayerRow, Cmds
<1>3. \A s \in 1..2 : Sound!SinkRow(s) \in Cmds
  BY DEF Sound!SinkRow, Cmds
<1> QED
  BY <1>1, <1>2, <1>3 DEF Sound!Offers, Sound!PanelOffers, Sound!Card

\* Choosing the player sets the primary to the preferred one and leaves the players alone.
LEMMA ChosenIs == \A ps, sel : /\ Sound!ChoosePlayer(ps, sel).primary \in Bus \cup {NoBus}
                               /\ Sound!ChoosePlayer(ps, sel).players = ps
                               /\ Sound!ChoosePlayer(ps, sel).primary = Sound!Preferred(ps, sel)
BY PreferredIs DEF Sound!ChoosePlayer

\* Louder and quieter keep to the range.
LEMMA Clamped == \A v \in Sound!Volume : Min({2, v + 1}) \in Sound!Volume /\ Max({0, v - 1}) \in Sound!Volume
<1> SUFFICES ASSUME NEW v \in Sound!Volume PROVE Min({2, v + 1}) \in Sound!Volume /\ Max({0, v - 1}) \in Sound!Volume
  OBVIOUS
<1>0. v \in {0, 1, 2}
  BY DEF Sound!Volume
<1>1. Min({2, v + 1}) \in {2, v + 1} /\ \A y \in {2, v + 1} : Min({2, v + 1}) <= y
  <2>1. CASE v + 1 <= 2
    <3>1. \A y \in {2, v + 1} : v + 1 <= y
      BY <2>1, <1>0
    <3> QED BY <3>1 DEF Sound!Min, Min
  <2>2. CASE ~(v + 1 <= 2)
    <3>1. \A y \in {2, v + 1} : 2 <= y
      BY <2>2, <1>0
    <3> QED BY <3>1 DEF Sound!Min, Min
  <2> QED BY <2>1, <2>2
<1>2. Max({0, v - 1}) \in {0, v - 1} /\ \A y \in {0, v - 1} : Max({0, v - 1}) >= y
  <2>1. CASE v >= 1
    <3>1. \A y \in {0, v - 1} : v - 1 >= y
      BY <2>1, <1>0
    <3> QED BY <3>1 DEF Sound!Max, Max
  <2>2. CASE ~(v >= 1)
    <3>1. \A y \in {0, v - 1} : 0 >= y
      BY <2>2, <1>0
    <3> QED BY <3>1 DEF Sound!Max, Max
  <2> QED BY <2>1, <2>2
<1> QED BY <1>0, <1>1, <1>2 DEF Sound!Volume

\* The audio invariant holds at the start.
LEMMA AudioStarts == Sound!Init => AudioInv
<1> SUFFICES ASSUME Sound!Init PROVE AudioInv
  OBVIOUS
<1>1. AudioTyped
  <2>1. sound \in Sounds /\ audio_state \in Sounds
    BY DEF Sound!Init, Sounds, Sound!Volume
  <2>2. <<>> \in Seq(Cmds)
    OBVIOUS
  <2> QED BY <2>1, <2>2 DEF Sound!Init, AudioTyped
<1>2. AudioShown /\ AudioChosen
  BY DEF Sound!Init, AudioShown, Sound!PanelFresh, AudioChosen
<1>3. Sound!SelectionSurvives
  <2>1. {i \in DOMAIN audio_cmds : audio_cmds[i].op = "select_player"} = {}
    BY DEF Sound!Init
  <2> QED BY <2>1 DEF Sound!Init, Sound!SelectionSurvives
<1> QED BY <1>1, <1>2, <1>3 DEF AudioInv

\* The choices that wait, in a queue.
AudioChoices(cmds) == {i \in DOMAIN cmds : cmds[i].op = "select_player"}
Newest(cmds, chosen) == IF AudioChoices(cmds) = {} THEN chosen ELSE Sound!Selection(cmds[Max(AudioChoices(cmds))].arg)

\* The maximum of a set of naturals is the member no other exceeds.
LEMMA MaxOfIs == \A S \in SUBSET Nat : \A m \in S : (\A y \in S : m >= y) => Max(S) = m
<1> SUFFICES ASSUME NEW S \in SUBSET Nat, NEW m \in S, \A y \in S : m >= y PROVE Max(S) = m
  OBVIOUS
<1>1. \A n \in S : (\A y \in S : n >= y) => n = m
  <2> SUFFICES ASSUME NEW n \in S, \A y \in S : n >= y PROVE n = m
    OBVIOUS
  <2>1. n >= m /\ m >= n /\ n \in Nat /\ m \in Nat
    OBVIOUS
  <2> QED BY <2>1
<1> QED BY <1>1 DEF Sound!Max, Max

\* Numbers below a bound have a greatest one.
LEMMA GreatestThereIs ==
  ASSUME NEW n \in Nat, NEW S \in SUBSET (1..n), S # {}
  PROVE  Max(S) \in S /\ \A y \in S : Max(S) >= y
<1> DEFINE T == {n - y : y \in S}
<1>1. T \subseteq Nat /\ T # {}
  <2>1. \A y \in S : n - y \in Nat
    <3> SUFFICES ASSUME NEW y \in S PROVE n - y \in Nat
      OBVIOUS
    <3>1. y \in 1..n
      OBVIOUS
    <3> QED BY <3>1
  <2>2. PICK z \in S : TRUE
    OBVIOUS
  <2>3. n - z \in T
    OBVIOUS
  <2> QED BY <2>1, <2>3
<1> DEFINE R == {ss \in Nat \X Nat : ss[1] < ss[2]}
<1>2. IsWellFoundedOn(R, Nat)
  BY NatLessThanWellFounded DEF OpToRel
<1>3. \A x, y \in Nat : x < y => <<x, y>> \in R
  OBVIOUS
<1> HIDE DEF R
<1>4. PICK t \in T : \A y \in T : ~ (<<y, t>> \in R)
  <2> HIDE DEF T
  <2> QED BY <1>1, <1>2, WFMin
<1>5. PICK g \in S : t = n - g
  OBVIOUS
<1>6. \A y \in S : g >= y
  <2> SUFFICES ASSUME NEW y \in S, ~(g >= y) PROVE FALSE
    OBVIOUS
  <2>1. n - y \in T /\ n - y < t
    BY <1>5
  <2> QED BY <1>1, <1>3, <1>4, <2>1
<1>7. Max(S) = g
  BY <1>6, MaxOfIs
<1> QED BY <1>6, <1>7

\* A command that joins the queue is the newest selection if it selects a player, and changes
\* nothing if it does not.
LEMMA NewestOfAppend ==
  ASSUME NEW cmds \in Seq(Cmds), NEW c \in Cmds, NEW chosen
  PROVE  Newest(Append(cmds, c), chosen) = IF c.op = "select_player" THEN Sound!Selection(c.arg) ELSE Newest(cmds, chosen)
<1> DEFINE n == Len(cmds)
           new == Append(cmds, c)
<1>1. n \in Nat /\ DOMAIN cmds = 1..n /\ DOMAIN new = 1..n + 1 /\ new[n + 1] = c /\ \A i \in 1..n : new[i] = cmds[i]
  OBVIOUS
<1> HIDE DEF n, new
<1>2. CASE c.op = "select_player"
  <2>1. n + 1 \in AudioChoices(new) /\ AudioChoices(new) \in SUBSET Nat /\ \A y \in AudioChoices(new) : n + 1 >= y
    BY <1>1, <1>2 DEF AudioChoices
  <2>2. Max(AudioChoices(new)) = n + 1
    BY <2>1, MaxOfIs
  <2> QED BY <1>1, <1>2, <2>1, <2>2 DEF Newest, new
<1>3. CASE c.op # "select_player"
  <2>1. AudioChoices(new) = AudioChoices(cmds)
    BY <1>1, <1>3 DEF AudioChoices
  <2>2. AudioChoices(cmds) # {} => Max(AudioChoices(cmds)) \in 1..n
    <3>1. AudioChoices(cmds) \in SUBSET (1..n)
      BY <1>1 DEF AudioChoices
    <3> QED BY <1>1, <3>1, GreatestThereIs
  <2>3. Newest(new, chosen) = Newest(cmds, chosen)
    BY <1>1, <2>1, <2>2 DEF Newest
  <2> QED BY <1>3, <2>3 DEF new
<1> QED BY <1>2, <1>3

\* Taking the head of the queue moves its selection into what is chosen; the newest stays the
\* same.
LEMMA NewestOfTail ==
  ASSUME NEW cmds \in Seq(Cmds), cmds # <<>>, NEW chosen
  PROVE  Newest(cmds, chosen)
           = Newest(Tail(cmds), IF Head(cmds).op = "select_player" THEN Sound!Selection(Head(cmds).arg) ELSE chosen)
<1> DEFINE n == Len(cmds)
           new == Tail(cmds)
<1>1. /\ n \in Nat \ {0} /\ DOMAIN cmds = 1..n /\ DOMAIN new = 1..n - 1 /\ Head(cmds) = cmds[1]
      /\ \A i \in 1..n - 1 : new[i] = cmds[i + 1]
  OBVIOUS
<1> HIDE DEF n, new
<1>2. AudioChoices(cmds) \in SUBSET (1..n) /\ AudioChoices(new) \in SUBSET (1..n - 1) /\ n - 1 \in Nat /\ n \in Nat
  BY <1>1 DEF AudioChoices
<1>3. \A i \in 1..n - 1 : i \in AudioChoices(new) <=> i + 1 \in AudioChoices(cmds)
  BY <1>1 DEF AudioChoices
<1>4. 1 \in AudioChoices(cmds) <=> Head(cmds).op = "select_player"
  BY <1>1 DEF AudioChoices
<1>5. \A i \in 1..n : i # 1 => i - 1 \in 1..n - 1 /\ (i - 1) + 1 = i
  BY <1>1
<1>6. CASE AudioChoices(new) # {}
  <2> DEFINE m == Max(AudioChoices(new))
  <2>1. m \in AudioChoices(new) /\ \A y \in AudioChoices(new) : m >= y
    BY <1>2, <1>6, GreatestThereIs
  <2> HIDE DEF m
  <2>2. m \in 1..n - 1 /\ m + 1 \in AudioChoices(cmds)
    BY <1>2, <1>3, <2>1
  <2>3. \A y \in AudioChoices(cmds) : m + 1 >= y
    <3> SUFFICES ASSUME NEW y \in AudioChoices(cmds), y # 1 PROVE m + 1 >= y
      BY <1>1, <2>2
    <3>1. y \in 1..n
      BY <1>2
    <3>2. y - 1 \in 1..n - 1 /\ (y - 1) + 1 = y
      BY <1>5, <3>1
    <3>3. y - 1 \in AudioChoices(new)
      BY <1>3, <3>2
    <3>4. m >= y - 1
      BY <2>1, <3>3
    <3> QED BY <2>2, <3>1, <3>4
  <2>4. AudioChoices(cmds) \in SUBSET Nat
    BY <1>2
  <2>5. Max(AudioChoices(cmds)) = m + 1
    BY <2>2, <2>3, <2>4, MaxOfIs
  <2>6. new[m].arg = cmds[m + 1].arg
    BY <1>1, <2>2
  <2> QED BY <1>6, <2>2, <2>5, <2>6 DEF Newest, m, new
<1>7. CASE AudioChoices(new) = {}
  <2>1. \A y \in AudioChoices(cmds) : y = 1
    BY <1>2, <1>3, <1>5, <1>7
  <2>2. CASE 1 \in AudioChoices(cmds)
    <3>1. Max(AudioChoices(cmds)) = 1
      <4>1. \A y \in AudioChoices(cmds) : 1 >= y
        BY <2>1
      <4> QED BY <1>2, <2>2, <4>1, MaxOfIs
    <3> QED BY <1>1, <1>4, <1>7, <2>2, <3>1 DEF Newest, new
  <2>3. CASE 1 \notin AudioChoices(cmds)
    <3>1. AudioChoices(cmds) = {}
      BY <2>1, <2>3
    <3> QED BY <1>4, <1>7, <2>3, <3>1 DEF Newest, new
  <2> QED BY <2>2, <2>3
<1> QED BY <1>6, <1>7

\* SelectionSurvives in one line: the file holds the newest selection unless a save has
\* failed.
LEMMA SurvivesIs == Sound!SelectionSurvives <=> unsaved \/ file = Newest(audio_cmds, audio_selected)
BY DEF Sound!SelectionSurvives, Newest, AudioChoices, Sound!Max, Max

\* The same of the next state.
LEMMA SurvivesNext == Sound!SelectionSurvives' <=> unsaved' \/ file' = Newest(audio_cmds', audio_selected')
BY DEF Sound!SelectionSurvives, Newest, AudioChoices, Sound!Max, Max

\* Every step keeps the types.
LEMMA AudioTypedKept == AudioTyped /\ Sound!Next => AudioTyped'
<1> SUFFICES ASSUME AudioTyped, Sound!Next PROVE AudioTyped'
  OBVIOUS
<1> USE DEF AudioTyped
<1>1. ASSUME NEW sel, NEW b, Sound!RefreshMpris(sel, b) PROVE mpris'.primary \in Bus \cup {NoBus} /\ audio_signal' \in {"empty", "written", "drained"} /\ audio_unseen' \in BOOLEAN
  BY <1>1, ChosenIs DEF Sound!RefreshMpris, Sound!Bump, Sound!pipe
<1>2. CASE Sound!Start
  BY <1>2, <1>1 DEF Sound!Start, Sound!shell
<1>3. CASE Sound!OnPactl
  BY <1>3 DEF Sound!OnPactl, Sound!shell, Sound!pipe, Sound!Bump
<1>4. CASE Sound!OnOwners
  BY <1>4, <1>1 DEF Sound!OnOwners, Sound!shell
<1>5. CASE Sound!OnProps
  BY <1>5, <1>1 DEF Sound!OnProps, Sound!shell
<1>6. CASE Sound!Fallback
  BY <1>6, <1>1 DEF Sound!Fallback, Sound!shell, Sound!waiting
<1>7. CASE Sound!TakeCmd
  <2> DEFINE c == Head(audio_cmds)
  <2>1. c \in Cmds /\ audio_cmds' \in Seq(Cmds)
    BY <1>7 DEF Sound!TakeCmd
  <2> HIDE DEF c
  <2>2. sound' = CASE c.op = "volume" -> [sound EXCEPT !.volume = c.arg]
                [] c.op = "louder" -> [sound EXCEPT !.volume = Min({2, @ + 1})]
                [] c.op = "quieter" -> [sound EXCEPT !.volume = Max({0, @ - 1})]
                [] c.op = "mute" -> [sound EXCEPT !.muted = ~@]
                [] c.op = "sink" -> [sound EXCEPT !.sink = c.arg]
                [] OTHER -> sound
    BY <1>7 DEF Sound!TakeCmd, c
  <2>3. sound' \in Sounds
    <3>1. sound.volume \in Sound!Volume /\ sound.muted \in BOOLEAN
      BY DEF Sounds
    <3>2. Min({2, sound.volume + 1}) \in Sound!Volume /\ Max({0, sound.volume - 1}) \in Sound!Volume
      BY <3>1, Clamped
    <3>3. c.op = "volume" => sound' = [sound EXCEPT !.volume = c.arg] /\ c.arg \in Sound!Volume
      BY <2>1, <2>2, CmdHas
    <3>4. c.op = "louder" => sound' = [sound EXCEPT !.volume = Min({2, sound.volume + 1})]
      BY <2>2
    <3>5. c.op = "quieter" => sound' = [sound EXCEPT !.volume = Max({0, sound.volume - 1})]
      BY <2>2
    <3>6. c.op = "mute" => sound' = [sound EXCEPT !.muted = ~sound.muted]
      BY <2>2
    <3>7. c.op = "sink" => sound' = [sound EXCEPT !.sink = c.arg] /\ c.arg \in 1..2
      BY <2>1, <2>2, CmdHas
    <3>8. c.op \notin {"volume", "louder", "quieter", "mute", "sink"} => sound' = sound
      BY <2>2
    <3>9. \A v \in Sound!Volume : [sound EXCEPT !.volume = v] \in Sounds
      BY DEF Sounds
    <3>10. \A v \in 1..2 : [sound EXCEPT !.sink = v] \in Sounds
      BY DEF Sounds
    <3>11. [sound EXCEPT !.muted = ~sound.muted] \in Sounds
      BY DEF Sounds
    <3> QED BY <3>2, <3>3, <3>4, <3>5, <3>6, <3>7, <3>8, <3>9, <3>10, <3>11
  <2>4. audio_loop' \in Ops
    BY <1>7, <2>1, CmdHas DEF Sound!TakeCmd, c
  <2> QED BY <1>7, <2>1, <2>3, <2>4 DEF Sound!TakeCmd, Sound!pipe
<1>8. CASE Sound!FinishCmd
  BY <1>8, ChosenIs DEF Sound!FinishCmd, Sound!Bump, Sound!shell, Sound!waiting
<1>9. CASE Sound!Drain
  BY <1>9 DEF Sound!Drain
<1>10. CASE Sound!Look
  BY <1>10 DEF Sound!Look
<1>11. CASE Sound!VolumeChanges
  BY <1>11 DEF Sound!VolumeChanges, Sound!pipe, Sounds
<1>12. CASE Sound!PlayerChanges
  BY <1>12 DEF Sound!PlayerChanges, Sound!pipe
<1>13. CASE Sound!Restart
  <2>1. audio_state' \in Sounds
    BY <1>13 DEF Sound!Restart, Sounds, Sound!Volume
  <2>2. <<>> \in Seq(Cmds)
    OBVIOUS
  <2> QED BY <1>13, <2>1, <2>2 DEF Sound!Restart
<1>14. ASSUME NEW c \in Sound!Offers(audio_drawn) \cup Sound!PanelOffers, NEW saved \in BOOLEAN, Sound!Click(c, saved) PROVE AudioTyped'
  <2>1. c \in Cmds
    BY OffersAre
  <2>2. audio_cmds' \in Seq(Cmds)
    BY <1>14, <2>1 DEF Sound!Click
  <2> QED BY <1>14, <2>2 DEF Sound!Click, Sound!pipe
<1> QED
  BY <1>2, <1>3, <1>4, <1>5, <1>6, <1>7, <1>8, <1>9, <1>10, <1>11, <1>12, <1>13, <1>14 DEF Sound!Next, Sound!Loop

\* Every step keeps what the panel shows the state of the service.
LEMMA AudioShownKept == AudioTyped /\ AudioShown /\ Sound!Next => AudioShown'
<1> SUFFICES ASSUME AudioTyped, AudioShown, Sound!Next PROVE AudioShown'
  OBVIOUS
<1> USE DEF AudioShown
<1>0. (audio_state' = audio_state /\ mpris' = mpris) => Sound!Face' = Sound!Face
  BY DEF Sound!Face, Sound!Titled, Sound!Track, Sound!NowPlaying
<1>1. ASSUME Sound!Bump PROVE AudioShown'
  BY <1>1 DEF Sound!Bump, Sound!PanelFresh
<1>2. ASSUME UNCHANGED <<audio_state, mpris, audio_panel>>, UNCHANGED Sound!pipe PROVE AudioShown'
  BY <1>0, <1>2 DEF Sound!PanelFresh, Sound!pipe
<1>3. ASSUME NEW sel, NEW b, Sound!RefreshMpris(sel, b) PROVE Sound!Bump \/ (mpris' = mpris /\ UNCHANGED Sound!pipe)
  BY <1>3 DEF Sound!RefreshMpris
<1>4. CASE Sound!Start
  BY <1>4, <1>1 DEF Sound!Start, Sound!RefreshMpris
<1>5. CASE Sound!OnPactl
  BY <1>5, <1>1, <1>2 DEF Sound!OnPactl, Sound!shell
<1>6. CASE Sound!OnOwners
  BY <1>6, <1>1, <1>2, <1>3 DEF Sound!OnOwners, Sound!shell
<1>7. CASE Sound!OnProps
  BY <1>7, <1>1, <1>2, <1>3 DEF Sound!OnProps, Sound!shell
<1>8. CASE Sound!Fallback
  BY <1>8, <1>1, <1>2, <1>3 DEF Sound!Fallback, Sound!shell
<1>9. CASE Sound!TakeCmd
  BY <1>9, <1>2 DEF Sound!TakeCmd, Sound!shell
<1>10. CASE Sound!FinishCmd
  BY <1>10, <1>1 DEF Sound!FinishCmd
<1>11. CASE Sound!Drain
  BY <1>11 DEF Sound!Drain, Sound!PanelFresh
<1>12. CASE Sound!Look
  BY <1>0, <1>12 DEF Sound!Look, Sound!PanelFresh
<1>13. CASE Sound!VolumeChanges
  BY <1>13, <1>2 DEF Sound!VolumeChanges, Sound!shell
<1>14. CASE Sound!PlayerChanges
  BY <1>14, <1>2 DEF Sound!PlayerChanges, Sound!shell
<1>15. CASE Sound!Restart
  BY <1>15 DEF Sound!Restart, Sound!PanelFresh, Sound!Face, Sound!Titled, Sound!Track, Sound!NowPlaying
<1>16. ASSUME NEW c, NEW saved, Sound!Click(c, saved) PROVE AudioShown'
  BY <1>16, <1>2 DEF Sound!Click
<1> QED
  BY <1>4, <1>5, <1>6, <1>7, <1>8, <1>9, <1>10, <1>11, <1>12, <1>13, <1>14, <1>15, <1>16 DEF Sound!Next, Sound!Loop

\* Every step keeps the primary player the preferred one.
LEMMA AudioChosenKept == AudioTyped /\ AudioChosen /\ Sound!Next => AudioChosen'
<1> SUFFICES ASSUME AudioTyped, AudioChosen, Sound!Next PROVE AudioChosen'
  OBVIOUS
<1> USE DEF AudioChosen
<1>1. ASSUME NEW b, Sound!RefreshMpris(audio_selected, b), audio_selected' = audio_selected PROVE AudioChosen'
  BY <1>1, ChosenIs DEF Sound!RefreshMpris
<1>2. ASSUME UNCHANGED <<audio_loop, mpris, audio_selected>> PROVE AudioChosen'
  BY <1>2 DEF Sound!Preferred
<1>3. CASE Sound!Start
  BY <1>3, <1>1 DEF Sound!Start
<1>4. CASE Sound!OnPactl
  BY <1>4, <1>2 DEF Sound!OnPactl
<1>5. CASE Sound!OnOwners
  BY <1>5, <1>1 DEF Sound!OnOwners
<1>6. CASE Sound!OnProps
  BY <1>6, <1>1 DEF Sound!OnProps
<1>7. CASE Sound!Fallback
  BY <1>7, <1>1 DEF Sound!Fallback
<1>8. CASE Sound!TakeCmd
  <2>1. audio_loop' = Head(audio_cmds).op /\ mpris' = mpris /\ audio_loop = "select"
    BY <1>8 DEF Sound!TakeCmd
  <2>2. audio_loop' # "select_player" => audio_selected' = audio_selected
    BY <1>8 DEF Sound!TakeCmd
  <2> QED BY <2>1, <2>2
<1>9. CASE Sound!FinishCmd
  <2>1. /\ audio_loop # "down" /\ audio_selected' = audio_selected
        /\ mpris' = IF audio_loop = "select_player" THEN Sound!ChoosePlayer(players, audio_selected) ELSE mpris
    BY <1>9 DEF Sound!FinishCmd
  <2> QED BY <2>1, ChosenIs
<1>10. CASE Sound!Drain
  BY <1>10, <1>2 DEF Sound!Drain
<1>11. CASE Sound!Look
  BY <1>11, <1>2 DEF Sound!Look
<1>12. CASE Sound!VolumeChanges
  BY <1>12, <1>2 DEF Sound!VolumeChanges
<1>13. CASE Sound!PlayerChanges
  BY <1>13, <1>2 DEF Sound!PlayerChanges
<1>14. CASE Sound!Restart
  BY <1>14 DEF Sound!Restart
<1>15. ASSUME NEW c, NEW saved, Sound!Click(c, saved) PROVE AudioChosen'
  BY <1>15, <1>2 DEF Sound!Click
<1> QED
  BY <1>3, <1>4, <1>5, <1>6, <1>7, <1>8, <1>9, <1>10, <1>11, <1>12, <1>13, <1>14, <1>15 DEF Sound!Next, Sound!Loop

\* Every step keeps the file at the newest selection.
LEMMA AudioSurvivesKept == AudioTyped /\ Sound!SelectionSurvives /\ Sound!Next => Sound!SelectionSurvives'
<1> SUFFICES ASSUME AudioTyped, Sound!SelectionSurvives, Sound!Next PROVE Sound!SelectionSurvives'
  OBVIOUS
<1>1. ASSUME UNCHANGED <<audio_cmds, audio_selected, file, unsaved>> PROVE Sound!SelectionSurvives'
  BY <1>1, SurvivesIs, SurvivesNext
<1>2. CASE Sound!Start \/ Sound!OnPactl \/ Sound!OnOwners \/ Sound!OnProps \/ Sound!Fallback \/ Sound!FinishCmd \/ Sound!Drain \/ Sound!Look \/ Sound!VolumeChanges \/ Sound!PlayerChanges
  BY <1>2, <1>1 DEF Sound!Start, Sound!OnPactl, Sound!OnOwners, Sound!OnProps, Sound!Fallback, Sound!FinishCmd, Sound!Drain, Sound!Look, Sound!VolumeChanges, Sound!PlayerChanges, Sound!shell
<1>3. CASE Sound!TakeCmd
  <2>1. /\ audio_cmds # <<>> /\ audio_cmds' = Tail(audio_cmds) /\ file' = file /\ unsaved' = unsaved
        /\ audio_selected' = IF Head(audio_cmds).op = "select_player" THEN Sound!Selection(Head(audio_cmds).arg) ELSE audio_selected
    BY <1>3 DEF Sound!TakeCmd, Sound!shell
  <2>2. Newest(audio_cmds, audio_selected) = Newest(audio_cmds', audio_selected')
    BY <2>1, NewestOfTail DEF AudioTyped
  <2> QED BY <2>1, <2>2, SurvivesIs, SurvivesNext
<1>4. CASE Sound!Restart
  <2>1. audio_cmds' = <<>> /\ audio_selected' = file /\ file' = file
    BY <1>4 DEF Sound!Restart
  <2>2. Newest(audio_cmds', audio_selected') = audio_selected'
    BY <2>1 DEF Newest, AudioChoices
  <2> QED BY <2>1, <2>2, SurvivesNext
<1>5. ASSUME NEW c \in Sound!Offers(audio_drawn) \cup Sound!PanelOffers, NEW saved \in BOOLEAN, Sound!Click(c, saved) PROVE Sound!SelectionSurvives'
  <2>1. /\ audio_cmds' = Append(audio_cmds, c) /\ audio_selected' = audio_selected
        /\ file' = IF c.op = "select_player" /\ saved THEN Sound!Selection(c.arg) ELSE file
        /\ unsaved' = (unsaved \/ (c.op = "select_player" /\ ~saved))
    BY <1>5 DEF Sound!Click
  <2>2. c \in Cmds
    BY OffersAre
  <2>3. Newest(audio_cmds', audio_selected')
          = IF c.op = "select_player" THEN Sound!Selection(c.arg) ELSE Newest(audio_cmds, audio_selected)
    BY <2>1, <2>2, NewestOfAppend DEF AudioTyped
  <2> QED BY <2>1, <2>3, SurvivesIs, SurvivesNext
<1> QED
  BY <1>2, <1>3, <1>4, <1>5 DEF Sound!Next, Sound!Loop

\* The audio invariant reads the audio variables only.
LEMMA AudioStutters == AudioInv /\ UNCHANGED Sound!audioVars => AudioInv'
<1> SUFFICES ASSUME AudioInv, UNCHANGED Sound!audioVars PROVE AudioInv'
  OBVIOUS
<1>1. AudioTyped'
  BY DEF AudioInv, AudioTyped, Sound!audioVars
<1>2. AudioShown'
  BY DEF AudioInv, AudioShown, Sound!PanelFresh, Sound!audioVars, Sound!Face, Sound!Titled, Sound!Track, Sound!NowPlaying
<1>3. AudioChosen'
  BY DEF AudioInv, AudioChosen, Sound!Preferred, Sound!audioVars
<1>4. Sound!SelectionSurvives'
  BY SurvivesIs, SurvivesNext DEF AudioInv, Sound!audioVars
<1> QED BY <1>1, <1>2, <1>3, <1>4 DEF AudioInv

\* Every step keeps the audio invariant.
LEMMA AudioGoesOn == AudioInv /\ [Sound!Next]_(Sound!audioVars) => AudioInv'
<1> SUFFICES ASSUME AudioInv, Sound!Next PROVE AudioInv'
  BY AudioStutters
<1> QED BY AudioTypedKept, AudioShownKept, AudioChosenKept, AudioSurvivesKept DEF AudioInv

\* The audio invariant gives what the runs check of audio.
LEMMA AudioPromises == AudioInv => Sound!TypeOK /\ Sound!PanelFresh /\ Sound!PrimaryFollowsSelection /\ Sound!SelectionSurvives
<1> SUFFICES ASSUME AudioInv PROVE Sound!TypeOK /\ Sound!PanelFresh /\ Sound!PrimaryFollowsSelection /\ Sound!SelectionSurvives
  OBVIOUS
<1>1. Sound!TypeOK
  <2>1. audio_state.volume \in Sound!Volume
    BY DEF AudioInv, AudioTyped, Sounds
  <2> QED BY <2>1 DEF AudioInv, AudioTyped, Sound!TypeOK, Ops
<1> QED BY <1>1 DEF AudioInv, AudioShown, AudioChosen, Sound!PrimaryFollowsSelection

\* The panel's copy of the audio service is what it shares unless a signal is on its
\* way; between two commands the primary player is the one the user's choice makes
\* it, under whatever bus; and a restart brings back the player chosen last.
THEOREM AudioAlways ==
  Sound!Spec => [](Sound!TypeOK /\ Sound!PanelFresh /\ Sound!PrimaryFollowsSelection /\ Sound!SelectionSurvives)
<1>1. Sound!Init => AudioInv
  BY AudioStarts
<1>2. AudioInv /\ [Sound!Next]_(Sound!audioVars) => AudioInv'
  BY AudioGoesOn
<1>3. AudioInv => Sound!TypeOK /\ Sound!PanelFresh /\ Sound!PrimaryFollowsSelection /\ Sound!SelectionSurvives
  BY AudioPromises
<1> QED BY <1>1, <1>2, <1>3, PTL DEF Sound!Spec

-----------------------------------------------------------------------------
(* The tray (Tray.tla).                                                     *)

TrayRowsOf(i) == [icon : {i}, version : 0..2, n : 0..3]
TrayRows == [icon : Icon \cup {NoIcon}, version : 0..2, n : 0..3]
OwnCmds == {c \in [op : {"about", "activate"}, icon : Icon \cup {NoIcon}, row : TrayRows] : c.row.icon = c.icon}
Versions(f) == DOMAIN f \subseteq Icon /\ f \in [DOMAIN f -> 0..2]

TrayTyped ==
  /\ Versions(icons) /\ Versions(tray_shared)
  /\ tray_task \in {"starting", "synced", "running", "dead"} /\ selected \in Icon \cup {NoIcon}
  /\ tray_panel \subseteq Icon

\* What is on the stack and on the screen is of the icon that is selected.
TrayOwn ==
  /\ nav \in Seq(SUBSET TrayRowsOf(selected)) /\ Len(nav) <= MaxDepth
  /\ tray_drawn \in [icon : {selected, NoIcon}, drilled : BOOLEAN, rows : SUBSET TrayRowsOf(selected)]
  /\ tray_cmds \in Seq(OwnCmds)
TrayInv == TrayTyped /\ TrayOwn /\ Icons!PanelFresh /\ Icons!MirrorFollows

\* The tray invariant holds at the start.
LEMMA TrayStarts == Icons!Init => TrayInv
<1> SUFFICES ASSUME Icons!Init PROVE TrayInv
  OBVIOUS
<1>1. TrayTyped
  <2>1. Versions(Icons!Nothing)
    BY DEF Versions, Icons!Nothing
  <2>2. Versions([i \in Icon |-> 1])
    BY DEF Versions
  <2>3. Versions(icons) /\ Versions(tray_shared)
    BY <2>1, <2>2 DEF Icons!Init
  <2> QED BY <2>3 DEF Icons!Init, TrayTyped
<1>2. TrayOwn
  <2>1. <<>> \in Seq(SUBSET TrayRowsOf(selected)) /\ <<>> \in Seq(OwnCmds) /\ Len(<<>>) = 0
    OBVIOUS
  <2> QED BY <2>1, TrayAssumption DEF Icons!Init, TrayOwn, Icons!Blank
<1>3. Icons!PanelFresh /\ Icons!MirrorFollows
  BY DEF Icons!Init, Icons!PanelFresh, Icons!MirrorFollows, Icons!Nothing
<1> QED BY <1>1, <1>2, <1>3 DEF TrayInv

\* What the panel draws of the tray is an item selected and rows of that item's own menu.
LEMMA ViewIs ==
  ASSUME TrayTyped, TrayOwn
  PROVE  Icons!View \in [icon : {selected, NoIcon}, drilled : BOOLEAN, rows : SUBSET TrayRowsOf(selected)]
<1> DEFINE i == Icons!SelectedMenu
<1>1. i \in {selected, NoIcon}
  BY DEF Icons!SelectedMenu
<1>2. i # NoIcon => i = selected /\ selected \in DOMAIN tray_shared
  BY DEF Icons!SelectedMenu
<1>3. i # NoIcon => Icons!Menu(i, tray_shared[i]) \subseteq TrayRowsOf(selected)
  <2> SUFFICES ASSUME i # NoIcon PROVE Icons!Menu(i, tray_shared[i]) \subseteq TrayRowsOf(selected)
    OBVIOUS
  <2>1. tray_shared[i] \in 0..2
    BY <1>2 DEF TrayTyped, Versions
  <2> QED BY <1>2, <2>1 DEF Icons!Menu, Icons!Row, TrayRowsOf, Icons!Submenu
<1>4. nav # <<>> => Icons!Last(nav) \subseteq TrayRowsOf(selected)
  <2> SUFFICES ASSUME nav # <<>> PROVE Icons!Last(nav) \in SUBSET TrayRowsOf(selected)
    OBVIOUS
  <2>1. nav \in Seq(SUBSET TrayRowsOf(selected))
    BY DEF TrayOwn
  <2> HIDE DEF TrayRowsOf
  <2>2. Len(nav) \in 1..Len(nav)
    BY <2>1
  <2> QED BY <2>1, <2>2 DEF Icons!Last
<1> HIDE DEF i
<1>5. Icons!View = [icon |-> i, drilled |-> nav # <<>>,
              rows |-> IF nav # <<>> THEN Icons!Last(nav) ELSE IF i = NoIcon THEN {} ELSE Icons!Menu(i, tray_shared[i])]
  BY DEF Icons!View, i
<1> QED BY <1>1, <1>3, <1>4, <1>5

\* Every step keeps the tray's variables in their types.
LEMMA TrayTypedKept == TrayTyped /\ TrayOwn /\ Icons!Next => TrayTyped'
<1> SUFFICES ASSUME TrayTyped, TrayOwn, Icons!Next PROVE TrayTyped'
  OBVIOUS
<1> USE DEF TrayTyped
<1>0. ASSUME UNCHANGED icons PROVE Versions(icons')
  BY <1>0
<1>1. ASSUME NEW now, Versions(now), Icons!Happens(now) PROVE TrayTyped'
  BY <1>1 DEF Icons!Happens, Icons!shellVars
<1>2. CASE Icons!IconComes
  <2>1. PICK i \in Icon \ DOMAIN icons : Icons!Happens([j \in DOMAIN icons \cup {i} |-> IF j = i THEN 0 ELSE icons[j]])
    BY <1>2 DEF Icons!IconComes
  <2>2. Versions([j \in DOMAIN icons \cup {i} |-> IF j = i THEN 0 ELSE icons[j]])
    BY DEF Versions
  <2> QED BY <1>1, <2>1, <2>2
<1>3. CASE Icons!MenuChanges
  <2>1. PICK i \in DOMAIN icons : Icons!Happens([icons EXCEPT ![i] = IF @ = 1 THEN 2 ELSE 1])
    BY <1>3 DEF Icons!MenuChanges
  <2>2. Versions([icons EXCEPT ![i] = IF @ = 1 THEN 2 ELSE 1])
    BY DEF Versions
  <2> QED BY <1>1, <2>1, <2>2
<1>4. CASE Icons!IconGoes
  <2>1. PICK i \in DOMAIN icons : Icons!Happens([j \in DOMAIN icons \ {i} |-> icons[j]])
    BY <1>4 DEF Icons!IconGoes
  <2>2. Versions([j \in DOMAIN icons \ {i} |-> icons[j]])
    BY DEF Versions
  <2> QED BY <1>1, <2>1, <2>2
<1>5. CASE Icons!Start
  BY <1>5 DEF Icons!Start, Icons!Sync, Icons!shellVars
<1>6. CASE Icons!StartFails
  BY <1>6 DEF Icons!StartFails, Icons!shellVars
<1>7. CASE Icons!Notify
  BY <1>7 DEF Icons!Notify, Icons!shellVars
<1>8. CASE Icons!Subscribe
  BY <1>8 DEF Icons!Subscribe, Icons!shellVars
<1>9. CASE Icons!OnEvent
  BY <1>9 DEF Icons!OnEvent, Icons!Sync, Icons!shellVars
<1>10. CASE Icons!Closes
  BY <1>10 DEF Icons!Closes, Icons!shellVars
<1>11. CASE Icons!TakeCmd
  BY <1>11 DEF Icons!TakeCmd, Icons!taskVars, Icons!shellVars
<1>12. CASE Icons!PanelUpdate \/ Icons!Draw \/ Icons!OpenOrClose \/ Icons!ClickSubmenu \/ Icons!ClickBack \/ Icons!ClickRow
  BY <1>12 DEF Icons!PanelUpdate, Icons!Draw, Icons!OpenOrClose, Icons!ClickSubmenu, Icons!ClickBack, Icons!ClickRow, Icons!taskVars
<1>13. CASE Icons!DrawPanel
  BY <1>13 DEF Icons!DrawPanel, Icons!taskVars, Versions
<1>14. CASE Icons!ClickIcon
  BY <1>14 DEF Icons!ClickIcon, Icons!taskVars
<1> QED
  BY <1>2, <1>3, <1>4, <1>5, <1>6, <1>7, <1>8, <1>9, <1>10, <1>11, <1>12, <1>13, <1>14 DEF Icons!Next, Icons!Task, Icons!Shell

\* A command sent for a row drawn is a command on the item the row is of.
LEMMA SentIs ==
  ASSUME TrayTyped, TrayOwn, NEW row \in tray_drawn.rows, NEW op \in {"about", "activate"}, Icons!Send(op, row)
  PROVE  tray_cmds' \in Seq(OwnCmds)
<1>1. tray_drawn.icon \in {selected, NoIcon} /\ row \in TrayRowsOf(selected) /\ selected \in Icon \cup {NoIcon}
  BY DEF TrayOwn, TrayTyped
<1>2. tray_drawn.icon # NoIcon => Icons!Cmd(op, tray_drawn.icon, row) \in OwnCmds
  <2> SUFFICES ASSUME tray_drawn.icon # NoIcon PROVE Icons!Cmd(op, tray_drawn.icon, row) \in OwnCmds
    OBVIOUS
  <2>1. tray_drawn.icon = selected /\ row.icon = selected /\ row \in TrayRows
    BY <1>1 DEF TrayRowsOf, TrayRows
  <2> QED BY <1>1, <2>1 DEF OwnCmds, Icons!Cmd
<1>3. tray_cmds \in Seq(OwnCmds)
  BY DEF TrayOwn
<1> HIDE DEF OwnCmds
<1> QED BY <1>2, <1>3 DEF Icons!Send

\* Every step keeps the tray's commands addressed to the item their row belongs to.
LEMMA TrayOwnKept == TrayTyped /\ TrayOwn /\ Icons!Next => TrayOwn'
<1> SUFFICES ASSUME TrayTyped, TrayOwn, Icons!Next PROVE TrayOwn'
  OBVIOUS
<1>1. ASSUME UNCHANGED <<nav, tray_drawn, selected, tray_cmds>> PROVE TrayOwn'
  BY <1>1 DEF TrayOwn
<1>2. CASE Icons!IconComes \/ Icons!MenuChanges \/ Icons!IconGoes
  BY <1>1, <1>2 DEF Icons!IconComes, Icons!MenuChanges, Icons!IconGoes, Icons!Happens, Icons!shellVars
<1>3. CASE Icons!Start \/ Icons!StartFails \/ Icons!Notify \/ Icons!Subscribe \/ Icons!OnEvent \/ Icons!Closes \/ Icons!PanelUpdate \/ Icons!DrawPanel
  BY <1>1, <1>3 DEF Icons!Start, Icons!StartFails, Icons!Notify, Icons!Subscribe, Icons!OnEvent, Icons!Closes, Icons!PanelUpdate, Icons!DrawPanel, Icons!shellVars
<1>4. CASE Icons!TakeCmd
  <2>1. tray_cmds' \in Seq(OwnCmds)
    BY <1>4 DEF Icons!TakeCmd, TrayOwn
  <2> QED BY <1>4, <2>1 DEF Icons!TakeCmd, TrayOwn, Icons!shellVars
<1>5. CASE Icons!Draw
  BY <1>5, ViewIs DEF Icons!Draw, TrayOwn
<1>6. ASSUME NEW open \in BOOLEAN, Icons!Toggled(open), UNCHANGED selected
      PROVE  tray_drawn' \in [icon : {selected', NoIcon}, drilled : BOOLEAN, rows : SUBSET TrayRowsOf(selected')]
  BY <1>6 DEF Icons!Toggled, Icons!Blank, TrayOwn
<1>7. CASE Icons!OpenOrClose
  <2>1. PICK open \in BOOLEAN : Icons!Toggled(open)
    BY <1>7 DEF Icons!OpenOrClose
  <2> QED BY <1>6, <1>7, <2>1 DEF Icons!OpenOrClose, TrayOwn
<1>8. CASE Icons!ClickIcon
  <2>1. PICK i \in tray_panel : /\ selected' = i /\ nav' = <<>> /\ Icons!Toggled(~tray_open)
                                /\ tray_cmds' = Append(tray_cmds, Icons!Cmd("about", i, Icons!Whole(i)))
    BY <1>8 DEF Icons!ClickIcon
  <2>2. tray_drawn' = Icons!Blank
    BY <2>1 DEF Icons!Toggled
  <2>3. Icons!Cmd("about", i, Icons!Whole(i)) \in OwnCmds
    BY DEF TrayTyped, OwnCmds, Icons!Cmd, Icons!Whole, Icons!Row, TrayRows
  <2>4. tray_cmds' \in Seq(OwnCmds)
    <3> HIDE DEF OwnCmds
    <3>1. tray_cmds \in Seq(OwnCmds)
      BY DEF TrayOwn
    <3> QED BY <2>1, <2>3, <3>1
  <2>5. <<>> \in Seq(SUBSET TrayRowsOf(selected')) /\ Len(<<>>) = 0
    OBVIOUS
  <2> QED BY <2>1, <2>2, <2>4, <2>5, TrayAssumption DEF TrayOwn, Icons!Blank
<1>9. CASE Icons!ClickSubmenu
  <2>1. PICK row \in tray_drawn.rows :
          /\ Len(nav) < MaxDepth /\ Icons!Send("about", row) /\ nav' = Append(nav, Icons!Children(row))
          /\ UNCHANGED <<selected, tray_drawn>>
    BY <1>9 DEF Icons!ClickSubmenu
  <2>2. Icons!Children(row) \in SUBSET TrayRowsOf(selected)
    BY DEF TrayOwn, Icons!Children, Icons!Row, TrayRowsOf
  <2>3. nav' \in Seq(SUBSET TrayRowsOf(selected)) /\ Len(nav') = Len(nav) + 1 /\ Len(nav) \in Nat
    <3>1. nav \in Seq(SUBSET TrayRowsOf(selected))
      BY DEF TrayOwn
    <3> HIDE DEF TrayRowsOf
    <3> QED BY <2>1, <2>2, <3>1
  <2>4. Len(nav') <= MaxDepth
    BY <2>1, <2>3, TrayAssumption
  <2>5. tray_cmds' \in Seq(OwnCmds)
    BY <2>1, SentIs
  <2> QED BY <2>1, <2>3, <2>4, <2>5 DEF TrayOwn
<1>10. CASE Icons!ClickBack
  <2>1. nav' = (IF nav = <<>> THEN nav ELSE Icons!Front(nav)) /\ UNCHANGED <<selected, tray_drawn, tray_cmds>>
    BY <1>10 DEF Icons!ClickBack
  <2>2. nav \in Seq(SUBSET TrayRowsOf(selected)) /\ Len(nav) <= MaxDepth
    BY DEF TrayOwn
  <2>3. nav' \in Seq(SUBSET TrayRowsOf(selected)) /\ Len(nav') <= MaxDepth
    <3> HIDE DEF TrayRowsOf
    <3>1. CASE nav = <<>>
      BY <2>1, <2>2, <3>1
    <3>2. CASE nav # <<>>
      <4>1. nav' = SubSeq(nav, 1, Len(nav) - 1)
        BY <2>1, <3>2 DEF Icons!Front
      <4> QED BY <2>2, <3>2, <4>1, TrayAssumption
    <3> QED BY <3>1, <3>2
  <2> QED BY <2>1, <2>3 DEF TrayOwn
<1>11. CASE Icons!ClickRow
  <2>1. PICK row \in tray_drawn.rows : Icons!Send("activate", row) /\ Icons!Toggled(FALSE) /\ UNCHANGED <<selected, nav>>
    BY <1>11 DEF Icons!ClickRow
  <2>2. tray_cmds' \in Seq(OwnCmds)
    BY <2>1, SentIs
  <2> QED BY <1>6, <2>1, <2>2 DEF TrayOwn
<1> QED
  BY <1>2, <1>3, <1>4, <1>5, <1>7, <1>8, <1>9, <1>10, <1>11 DEF Icons!Next, Icons!Task, Icons!Shell

\* Every step keeps the tray's panel drawn from the newest state, or a draw on its way.
LEMMA TrayFreshKept == Icons!PanelFresh /\ Icons!Next => Icons!PanelFresh'
<1> SUFFICES ASSUME Icons!PanelFresh, Icons!Next PROVE Icons!PanelFresh'
  OBVIOUS
<1> USE DEF Icons!PanelFresh
<1>0. ASSUME UNCHANGED <<tray_shared, selected, nav>> PROVE Icons!View' = Icons!View
  BY <1>0 DEF Icons!View, Icons!SelectedMenu, Icons!Menu, Icons!Row
<1>1. ASSUME Icons!Sync PROVE Icons!PanelFresh'
  BY <1>1 DEF Icons!Sync
<1>2. ASSUME UNCHANGED <<tray_shared, tray_bump, tray_wake, Icons!shellVars>> PROVE Icons!PanelFresh'
  BY <1>0, <1>2 DEF Icons!shellVars
<1>3. ASSUME UNCHANGED <<tray_shared, tray_bump, tray_wake, tray_panel, tray_panel_dirty>>, tray_drawn_dirty' = TRUE
      PROVE  Icons!PanelFresh'
  BY <1>3
<1>4. CASE Icons!IconComes \/ Icons!MenuChanges \/ Icons!IconGoes
  BY <1>2, <1>4 DEF Icons!IconComes, Icons!MenuChanges, Icons!IconGoes, Icons!Happens
<1>5. CASE Icons!Start \/ Icons!OnEvent
  BY <1>1, <1>5 DEF Icons!Start, Icons!OnEvent
<1>6. CASE Icons!StartFails \/ Icons!Subscribe \/ Icons!Closes \/ Icons!TakeCmd
  BY <1>2, <1>6 DEF Icons!StartFails, Icons!Subscribe, Icons!Closes, Icons!TakeCmd, Icons!taskVars
<1>7. CASE Icons!Notify
  BY <1>7 DEF Icons!Notify
<1>8. CASE Icons!PanelUpdate
  BY <1>8 DEF Icons!PanelUpdate
<1>9. CASE Icons!DrawPanel
  BY <1>0, <1>9 DEF Icons!DrawPanel, Icons!taskVars
<1>10. CASE Icons!Draw
  BY <1>0, <1>10 DEF Icons!Draw, Icons!taskVars
<1>11. CASE Icons!ClickIcon \/ Icons!OpenOrClose \/ Icons!ClickSubmenu \/ Icons!ClickBack \/ Icons!ClickRow
  BY <1>3, <1>11 DEF Icons!ClickIcon, Icons!OpenOrClose, Icons!ClickSubmenu, Icons!ClickBack, Icons!ClickRow, Icons!Toggled, Icons!taskVars
<1> QED
  BY <1>4, <1>5, <1>6, <1>7, <1>8, <1>9, <1>10, <1>11 DEF Icons!Next, Icons!Task, Icons!Shell

\* Every step keeps the mirror behind the service by no more than the changes on their way.
LEMMA TrayFollowsKept == TrayTyped /\ Icons!MirrorFollows /\ Icons!Next => Icons!MirrorFollows'
<1> SUFFICES ASSUME TrayTyped, Icons!MirrorFollows, Icons!Next PROVE Icons!MirrorFollows'
  OBVIOUS
<1> USE DEF Icons!MirrorFollows
<1>1. tray_task \in {"starting", "synced", "running", "dead"}
  BY DEF TrayTyped
<1>2. ASSUME UNCHANGED <<icons, tray_news, Icons!taskVars>> PROVE Icons!MirrorFollows'
  BY <1>2 DEF Icons!taskVars
<1>3. CASE Icons!IconComes \/ Icons!MenuChanges \/ Icons!IconGoes
  BY <1>1, <1>3 DEF Icons!IconComes, Icons!MenuChanges, Icons!IconGoes, Icons!Happens
<1>4. CASE Icons!Start \/ Icons!OnEvent
  BY <1>4 DEF Icons!Start, Icons!OnEvent, Icons!Sync
<1>5. CASE Icons!StartFails \/ Icons!Subscribe \/ Icons!Closes \/ Icons!Notify
  BY <1>5 DEF Icons!StartFails, Icons!Subscribe, Icons!Closes, Icons!Notify
<1>6. CASE Icons!TakeCmd
  BY <1>2, <1>6 DEF Icons!TakeCmd
<1>7. CASE Icons!Shell
  BY <1>2, <1>7 DEF Icons!Shell, Icons!PanelUpdate, Icons!DrawPanel, Icons!Draw, Icons!ClickIcon, Icons!OpenOrClose, Icons!ClickSubmenu, Icons!ClickBack, Icons!ClickRow
<1> QED
  BY <1>3, <1>4, <1>5, <1>6, <1>7 DEF Icons!Next, Icons!Task

\* The tray invariant reads the tray variables only.
LEMMA TrayStutters == TrayInv /\ UNCHANGED Icons!trayVars => TrayInv'
<1> SUFFICES ASSUME TrayInv, UNCHANGED Icons!trayVars PROVE TrayInv'
  OBVIOUS
<1>1. TrayTyped' /\ TrayOwn'
  BY DEF TrayInv, TrayTyped, TrayOwn, Icons!trayVars, Versions
<1>2. Icons!View' = Icons!View
  BY DEF Icons!View, Icons!SelectedMenu, Icons!Menu, Icons!Row, Icons!trayVars
<1>3. Icons!PanelFresh' /\ Icons!MirrorFollows'
  BY <1>2 DEF TrayInv, Icons!PanelFresh, Icons!MirrorFollows, Icons!trayVars
<1> QED BY <1>1, <1>3 DEF TrayInv

\* Every step keeps the tray invariant.
LEMMA TrayGoesOn == TrayInv /\ [Icons!Next]_(Icons!trayVars) => TrayInv'
<1> SUFFICES ASSUME TrayInv, Icons!Next PROVE TrayInv'
  BY TrayStutters
<1> QED BY TrayTypedKept, TrayOwnKept, TrayFreshKept, TrayFollowsKept DEF TrayInv

\* The tray invariant gives what the runs check of the tray.
LEMMA TrayPromises == TrayInv => Icons!TypeOK /\ Icons!PanelFresh /\ Icons!MirrorFollows /\ Icons!AsksForItsOwn
<1> SUFFICES ASSUME TrayInv PROVE Icons!TypeOK /\ Icons!AsksForItsOwn
  BY DEF TrayInv
<1>1. Icons!AsksForItsOwn
  <2>1. \A c \in OwnCmds : c.row.icon = c.icon
    BY DEF OwnCmds
  <2>2. tray_cmds \in Seq(OwnCmds)
    BY DEF TrayInv, TrayOwn
  <2> HIDE DEF OwnCmds
  <2>3. \A i \in DOMAIN tray_cmds : tray_cmds[i] \in OwnCmds
    BY <2>2
  <2> QED BY <2>1, <2>3 DEF Icons!AsksForItsOwn
<1>2. Icons!TypeOK
  <2>1. tray_drawn.icon \in {selected, NoIcon}
    BY DEF TrayInv, TrayOwn
  <2> QED BY <2>1 DEF TrayInv, TrayOwn, TrayTyped, Icons!TypeOK
<1> QED BY <1>1, <1>2

\* The panel's copy of the icons and the menu that is open are what the task last
\* shared, unless word of it is under way, and a row asks for the menu of its icon.
THEOREM TrayAlways ==
  Icons!Spec => [](Icons!TypeOK /\ Icons!PanelFresh /\ Icons!MirrorFollows /\ Icons!AsksForItsOwn)
<1>1. Icons!Init => TrayInv
  BY TrayStarts
<1>2. TrayInv /\ [Icons!Next]_(Icons!trayVars) => TrayInv'
  BY TrayGoesOn
<1>3. TrayInv => Icons!TypeOK /\ Icons!PanelFresh /\ Icons!MirrorFollows /\ Icons!AsksForItsOwn
  BY TrayPromises
<1> QED BY <1>1, <1>2, <1>3, PTL DEF Icons!Spec

-----------------------------------------------------------------------------
(* Popups and menus (Popups.tla).                                           *)

(***************************************************************************)
(* The popup item never leaves a surface with nothing to show, its menus   *)
(* run their timers only while they are current, and the actions menu      *)
(* carries out what its prompt named: for all windows, actions and orders  *)
(* of commands, clicks and drawings.                                       *)
(***************************************************************************)

PopFields == {"current", "shown", "clock", "window", "plugin", "offset", "target", "confirming", "last", "pending",
           "sampling", "listing"}
DrawnFields == {"here", "content", "prompt", "today", "live"}

\* What closing keeps: the timers of the current menu, and of no other.
Tidy(p) ==
  /\ DOMAIN p = PopFields /\ p.plugin \in Nat /\ p.sampling \in BOOLEAN /\ p.listing \in BOOLEAN
  /\ p.clock = 1 <=> p.current = "clock"
  /\ p.window = 1 <=> p.current = "window"
  /\ p.plugin > 0 <=> p.current = "plugin"
  /\ p.sampling => p.current = "system" \/ p.listing
PopSound(p) == Tidy(p) /\ (p.shown => p.current # "none")

\* While a prompt is on the screen, nothing else is waiting to be confirmed.
Prompted ==
  popup_drawn.content = "actions" /\ popup_drawn.prompt # "none" => popup.pending \in {"none", popup_drawn.prompt}

\* The inductive invariant.
PopFollows == PopSound(popup) /\ DOMAIN popup_drawn = DrawnFields /\ Prompted

----------------------------------------------------------------------------

(* What the operations make of the item.                                    *)

LEMMA ClosedIsTidy ==
  ASSUME NEW p, Tidy(p)
  PROVE  /\ Tidy(Pop!CloseCurrent(p)) /\ Pop!CloseCurrent(p).current = "none"
         /\ Pop!CloseCurrent(p).shown = p.shown /\ Pop!CloseCurrent(p).pending = p.pending
<1> DEFINE s == Pop!Stopped(p)
<1>1. /\ DOMAIN s = PopFields /\ s.current = p.current /\ s.shown = p.shown /\ s.pending = p.pending
      /\ s.listing = p.listing /\ s.listing \in BOOLEAN /\ s.sampling \in BOOLEAN /\ s.plugin \in Nat
      /\ s.clock # 1 /\ s.window # 1 /\ s.plugin = 0 /\ (s.sampling => s.listing)
  <2>1. CASE p.current = "clock"
    <3>1. s = [p EXCEPT !.clock = 0]
      BY <2>1 DEF Pop!Stopped, Pop!ClockClose
    <3>2. DOMAIN s = PopFields /\ s.clock = 0 /\ \A f \in PopFields \ {"clock"} : s[f] = p[f]
      BY <3>1 DEF Tidy, PopFields
    <3> HIDE DEF s
    <3> QED BY <2>1, <3>2 DEF Tidy, PopFields
  <2>2. CASE p.current = "window"
    <3>1. s = [p EXCEPT !.window = 0, !.confirming = FALSE, !.target = NoWin]
      BY <2>2 DEF Pop!Stopped, Pop!WindowClose
    <3>2. DOMAIN s = PopFields /\ s.window = 0 /\ \A f \in PopFields \ {"window", "confirming", "target"} : s[f] = p[f]
      BY <3>1 DEF Tidy, PopFields
    <3> HIDE DEF s
    <3> QED BY <2>2, <3>2 DEF Tidy, PopFields
  <2>3. CASE p.current = "system"
    <3>1. s = [p EXCEPT !.sampling = FALSE]
      BY <2>3 DEF Pop!Stopped, Pop!SystemClose
    <3>2. DOMAIN s = PopFields /\ s.sampling = FALSE /\ \A f \in PopFields \ {"sampling"} : s[f] = p[f]
      BY <3>1 DEF Tidy, PopFields
    <3> HIDE DEF s
    <3>3. s.clock # 1 /\ s.window # 1 /\ s.plugin = 0
      BY <2>3, <3>2 DEF Tidy, PopFields
    <3>4. s.listing = p.listing /\ s.listing \in BOOLEAN /\ s.sampling \in BOOLEAN /\ s.plugin \in Nat
      BY <3>2 DEF Tidy, PopFields
    <3>5. s.current = p.current /\ s.shown = p.shown /\ s.pending = p.pending
      BY <3>2 DEF PopFields
    <3> QED BY <3>2, <3>3, <3>4, <3>5
  <2>4. CASE p.current = "plugin"
    BY <2>4 DEF Tidy, PopFields, Pop!Stopped, Pop!PluginClose
  <2>5. CASE p.current \notin {"clock", "window", "system", "plugin"}
    BY <2>5 DEF Tidy, PopFields, Pop!Stopped
  <2> QED BY <2>1, <2>2, <2>3, <2>4, <2>5
<1> HIDE DEF s
<1>2. Pop!CloseCurrent(p) = [s EXCEPT !.current = "none"]
  BY DEF Pop!CloseCurrent, s
<1> QED BY <1>1, <1>2 DEF Tidy, PopFields

\* Hiding a popup leaves it sound and not shown, and does not touch its waiting command.
LEMMA HiddenIsSound ==
  ASSUME NEW p, Tidy(p) PROVE PopSound(Pop!Hide(p)) /\ ~Pop!Hide(p).shown /\ Pop!Hide(p).pending = p.pending
<1> DEFINE q == Pop!CloseCurrent(p)
<1>1. Tidy(q) /\ q.current = "none" /\ q.pending = p.pending
  BY ClosedIsTidy
<1>2. Pop!Hide(p) = [q EXCEPT !.shown = FALSE]
  BY DEF Pop!Hide
<1> HIDE DEF q
<1> QED BY <1>1, <1>2 DEF PopSound, Tidy, PopFields

\* A menu starts from an item with no menu, or again from itself.
LEMMA InitializedIsTidy ==
  ASSUME NEW p, Tidy(p), NEW c \in Pop!Content, p.current \in {"none", c}
  PROVE  /\ PopSound([Pop!Initialized(p, c) EXCEPT !.current = c, !.shown = TRUE])
         /\ [Pop!Initialized(p, c) EXCEPT !.current = c, !.shown = TRUE].pending = p.pending
<1> DEFINE i == Pop!Initialized(p, c)
           q == [i EXCEPT !.current = c, !.shown = TRUE]
<1>1. /\ DOMAIN i = PopFields /\ i.pending = p.pending /\ i.plugin \in Nat
      /\ i.listing = p.listing /\ i.listing \in BOOLEAN /\ i.sampling \in BOOLEAN
      /\ i.clock = 1 <=> c = "clock"
      /\ i.window = 1 <=> c = "window"
      /\ i.plugin > 0 <=> c = "plugin"
      /\ i.sampling => c = "system" \/ i.listing
  <2>1. CASE c = "clock"
    BY <2>1 DEF Tidy, PopFields, Pop!Initialized, Pop!ClockInit
  <2>2. CASE c = "window"
    BY <2>2 DEF Tidy, PopFields, Pop!Initialized, Pop!WindowInit
  <2>3. CASE c = "shade"
    BY <2>3 DEF Tidy, PopFields, Pop!Initialized, Pop!ShadeInit
  <2>4. CASE c = "system"
    BY <2>4 DEF Tidy, PopFields, Pop!Initialized, Pop!SystemInit
  <2>5. CASE c = "plugin"
    BY <2>5 DEF Tidy, PopFields, Pop!Initialized, Pop!PluginInit
  <2>6. CASE c = "actions"
    BY <2>6 DEF Tidy, PopFields, Pop!Initialized
  <2> QED BY <2>1, <2>2, <2>3, <2>4, <2>5, <2>6 DEF Pop!Content
<1> HIDE DEF i
<1>2. /\ DOMAIN q = PopFields /\ q.current = c /\ q.shown = TRUE /\ q.pending = i.pending /\ q.plugin = i.plugin
      /\ q.listing = i.listing /\ q.sampling = i.sampling /\ q.clock = i.clock /\ q.window = i.window
  BY <1>1 DEF PopFields
<1>3. c # "none"
  BY DEF Pop!Content
<1> HIDE DEF q
<1>4. PopSound(q) /\ q.pending = p.pending
  BY <1>1, <1>2, <1>3 DEF PopSound, Tidy
<1> QED BY <1>4 DEF q, i

\* Opening a popup leaves it sound and does not touch its waiting command.
LEMMA OpenIsSound ==
  ASSUME NEW p, PopSound(p), NEW c PROVE PopSound(Pop!Open(p, c)) /\ Pop!Open(p, c).pending = p.pending
<1>1. CASE c \notin Pop!Content
  BY <1>1 DEF Pop!Open
<1>2. CASE c \in Pop!Content
  <2> DEFINE q == IF p.current \in {"none", c} THEN p ELSE Pop!CloseCurrent(p)
  <2>1. Tidy(q) /\ q.current \in {"none", c} /\ q.pending = p.pending
    BY ClosedIsTidy DEF PopSound
  <2>2. Pop!Open(p, c) = [Pop!Initialized(q, c) EXCEPT !.current = c, !.shown = TRUE]
    BY <1>2 DEF Pop!Open
  <2> HIDE DEF q
  <2> DEFINE r == [Pop!Initialized(q, c) EXCEPT !.current = c, !.shown = TRUE]
  <2>3. PopSound(r) /\ r.pending = q.pending
    BY <1>2, <2>1, InitializedIsTidy, Zenon
  <2>4. Pop!Open(p, c) = r
    BY <2>2
  <2> HIDE DEF r
  <2> QED BY <2>1, <2>3, <2>4
<1> QED BY <1>1, <1>2

\* Toggling a popup leaves it sound and does not touch its waiting command.
LEMMA ToggleIsSound ==
  ASSUME NEW p, PopSound(p), NEW c PROVE PopSound(Pop!Toggle(p, c)) /\ Pop!Toggle(p, c).pending = p.pending
BY OpenIsSound, HiddenIsSound DEF Pop!Toggle, PopSound

\* A message leaves what is waiting to be confirmed, or nothing.
LEMMA HandledIsSound ==
  ASSUME NEW p, PopSound(p), NEW k \in 0..2
  PROVE  PopSound(Pop!Handle(p, k)) /\ Pop!Handle(p, k).pending \in {"none", p.pending}
<1>1. CASE p.current = "clock"
  BY <1>1 DEF Pop!Handle, Pop!ClockHandle, PopSound, Tidy, PopFields
<1>2. CASE p.current = "window"
  BY <1>2 DEF Pop!Handle, Pop!WindowHandle, PopSound, Tidy, PopFields
<1>3. CASE p.current = "actions"
  <2> DEFINE q == [p EXCEPT !.pending = "none"]
  <2>1. PopSound(q) /\ q.pending = "none"
    BY DEF PopSound, Tidy, PopFields
  <2>2. Pop!Handle(p, k) \in {q, p, Pop!Hide(q)}
    BY <1>3 DEF Pop!Handle, Pop!ActionsHandle
  <2> HIDE DEF q
  <2>3. PopSound(Pop!Hide(q)) /\ Pop!Hide(q).pending = "none"
    BY <2>1, HiddenIsSound DEF PopSound
  <2> QED BY <2>1, <2>2, <2>3
<1>4. CASE p.current \notin {"clock", "window", "actions"}
  BY <1>4 DEF Pop!Handle
<1> QED BY <1>1, <1>2, <1>3, <1>4

----------------------------------------------------------------------------

(* The steps.                                                               *)

\* The surface on the screen keeps what it shows until the next drawing.
PopShows(content, prompt) == popup_drawn'.content = content /\ popup_drawn'.prompt = prompt

\* A change of the popup that leaves it sound keeps the popup's invariant, as long as no new
\* command waits behind a prompt that is drawn.
LEMMA BecameFollows ==
  ASSUME PopFollows, NEW p, PopSound(p), Pop!Became(p),
         popup_drawn.content = "actions" /\ popup_drawn.prompt # "none" => p.pending \in {"none", popup.pending}
  PROVE  PopFollows'
<1>1. popup' = p /\ popup_drawn' = [popup_drawn EXCEPT !.here = @ /\ p.shown]
  BY DEF Pop!Became
<1>2. DOMAIN popup_drawn' = DrawnFields /\ PopShows(popup_drawn.content, popup_drawn.prompt)
  BY <1>1 DEF PopFollows, DrawnFields, PopShows
<1>3. Prompted'
  BY <1>1, <1>2 DEF PopFollows, Prompted, PopShows
<1> QED BY <1>1, <1>2, <1>3 DEF PopFollows

\* The commands that toggle, open and close a menu keep the popup's invariant.
LEMMA CommandFollows == ASSUME PopFollows, Pop!ToggleMenu \/ Pop!OpenMenu \/ Pop!CloseMenu PROVE PopFollows'
<1>1. PICK p : Pop!Became(p) /\ PopSound(p) /\ p.pending = popup.pending
  <2>1. PopSound(popup)
    BY DEF PopFollows
  <2>2. CASE Pop!ToggleMenu
    BY <2>1, <2>2, ToggleIsSound DEF Pop!ToggleMenu, Pop!Command
  <2>3. CASE Pop!OpenMenu
    BY <2>1, <2>3, OpenIsSound DEF Pop!OpenMenu, Pop!Command
  <2>4. CASE Pop!CloseMenu
    BY <2>1, <2>4, HiddenIsSound DEF Pop!CloseMenu, Pop!Command, PopSound
  <2> QED BY <2>2, <2>3, <2>4
<1> QED BY <1>1, BecameFollows

\* A click keeps the popup's invariant.
LEMMA ClickFollows == ASSUME PopFollows, Pop!Click PROVE PopFollows'
<1>1. PopSound(popup) /\ DOMAIN popup_drawn = DrawnFields /\ Prompted
  BY DEF PopFollows
<1>2. ASSUME NEW k \in 0..2, Pop!ClickMessage(k) PROVE PopFollows'
  <2>1. CASE Pop!Heard
    <3>1. /\ popup' = Pop!Handle(popup, k)
          /\ popup_drawn' = [popup_drawn EXCEPT !.here = popup'.shown, !.live = @ /\ popup.current # "actions"]
      BY <1>2, <2>1 DEF Pop!ClickMessage
    <3>2. PopSound(popup') /\ popup'.pending \in {"none", popup.pending}
      BY <1>1, <3>1, HandledIsSound
    <3>3. DOMAIN popup_drawn' = DrawnFields /\ PopShows(popup_drawn.content, popup_drawn.prompt)
      BY <1>1, <3>1 DEF DrawnFields, PopShows
    <3>4. Prompted'
      BY <1>1, <3>2, <3>3 DEF Prompted, PopShows
    <3> QED BY <3>2, <3>3, <3>4 DEF PopFollows
  <2>2. CASE ~Pop!Heard
    BY <1>1, <1>2, <2>2 DEF Pop!ClickMessage, PopFollows, Prompted
  <2> QED BY <2>1, <2>2
<1>3. CASE Pop!ClickHide
  <2> DEFINE p == IF Pop!Heard THEN Pop!Hide(popup) ELSE popup
  <2>1. Pop!Became(p)
    BY <1>3 DEF Pop!ClickHide
  <2>2. PopSound(p) /\ p.pending = popup.pending
    BY <1>1, HiddenIsSound DEF PopSound
  <2> HIDE DEF p
  <2> QED BY <2>1, <2>2, BecameFollows
<1>4. ASSUME NEW a \in Action \cup {"lock"}, Pop!ClickRow(a) PROVE PopFollows'
  <2>1. Pop!Button("row", a) \in Pop!Buttons(popup_drawn)
    BY <1>4 DEF Pop!ClickRow
  <2>2. ~(popup_drawn.content = "actions" /\ popup_drawn.prompt # "none")
    BY <2>1 DEF Pop!Buttons, Pop!ActionRows, Pop!Button, Pop!Message
  <2>3. CASE a = "lock"
    <3> DEFINE p == IF Pop!Heard THEN Pop!Hide(popup) ELSE popup
    <3>1. Pop!Became(p)
      BY <1>4, <2>3 DEF Pop!ClickRow
    <3>2. PopSound(p)
      BY <1>1, HiddenIsSound DEF PopSound
    <3> HIDE DEF p
    <3> QED BY <2>2, <3>1, <3>2, BecameFollows
  <2>4. CASE a # "lock"
    <3> DEFINE p == [popup EXCEPT !.pending = IF popup_drawn.live THEN a ELSE @]
    <3>1. Pop!Became(p)
      BY <1>4, <2>4 DEF Pop!ClickRow
    <3>2. PopSound(p)
      BY <1>1 DEF PopSound, Tidy, PopFields
    <3> HIDE DEF p
    <3> QED BY <2>2, <3>1, <3>2, BecameFollows
  <2> QED BY <2>3, <2>4
<1>5. ASSUME NEW c \in Pop!Content, Pop!ClickGo(c) PROVE PopFollows'
  <2> DEFINE p == IF Pop!Heard THEN Pop!Hide(popup) ELSE popup
  <2>1. popup' = Pop!Open(p, c) /\ popup_drawn' = [popup_drawn EXCEPT !.here = FALSE]
    BY <1>5 DEF Pop!ClickGo
  <2>2. PopSound(p) /\ p.pending = popup.pending
    BY <1>1, HiddenIsSound DEF PopSound
  <2> HIDE DEF p
  <2>3. PopSound(popup') /\ popup'.pending = popup.pending
    BY <2>1, <2>2, OpenIsSound
  <2>4. DOMAIN popup_drawn' = DrawnFields /\ PopShows(popup_drawn.content, popup_drawn.prompt)
    BY <1>1, <2>1 DEF DrawnFields, PopShows
  <2>5. Prompted'
    BY <1>1, <2>3, <2>4 DEF Prompted, PopShows
  <2> QED BY <2>3, <2>4, <2>5 DEF PopFollows
<1> QED BY <1>2, <1>3, <1>4, <1>5 DEF Pop!Click

\* A drawing puts on the screen the prompt that waits.
LEMMA DrawFollows == ASSUME PopFollows, Pop!Draw PROVE PopFollows'
<1>1. PopSound(popup)
  BY DEF PopFollows
<1>2. popup_drawn' = Pop!View(popup) /\ popup' = IF popup.shown /\ popup.current = "shade" THEN Pop!ShadeInit(popup) ELSE popup
  BY DEF Pop!Draw
<1>3. PopSound(popup') /\ popup'.pending = popup.pending
  BY <1>1, <1>2 DEF Pop!ShadeInit, PopSound, Tidy, PopFields
<1>4. DOMAIN popup_drawn' = DrawnFields
  BY <1>2 DEF Pop!View, DrawnFields
<1>5. popup_drawn'.content = "actions" => popup_drawn'.prompt = popup.pending
  BY <1>2 DEF Pop!View
<1>6. Prompted'
  BY <1>3, <1>5 DEF Prompted
<1> QED BY <1>3, <1>4, <1>6 DEF PopFollows

\* Every step keeps the popup's invariant.
LEMMA PopStepFollows == ASSUME PopFollows, [Pop!Next]_(Pop!popupVars) PROVE PopFollows'
<1>1. PopSound(popup) /\ DOMAIN popup_drawn = DrawnFields /\ Prompted
  BY DEF PopFollows
<1>2. CASE Pop!ToggleMenu \/ Pop!OpenMenu \/ Pop!CloseMenu
  BY <1>2, CommandFollows
<1>3. CASE Pop!Click
  BY <1>3, ClickFollows
<1>4. CASE Pop!Draw
  BY <1>4, DrawFollows
<1>5. CASE Pop!UpdateCompositor
  <2>1. CASE Pop!Became(Pop!Hide(popup))
    BY <1>1, <2>1, HiddenIsSound, BecameFollows DEF PopSound
  <2>2. CASE UNCHANGED <<popup, popup_drawn>>
    BY <1>1, <2>2 DEF PopFollows, Prompted
  <2> QED BY <1>5, <2>1, <2>2 DEF Pop!UpdateCompositor
<1>6. CASE Pop!MonitorLost
  <2>1. popup' = [popup EXCEPT !.shown = FALSE] /\ popup_drawn' = [popup_drawn EXCEPT !.here = FALSE]
    BY <1>6 DEF Pop!MonitorLost
  <2>2. PopSound(popup') /\ popup'.pending = popup.pending
    BY <1>1, <2>1 DEF PopSound, Tidy, PopFields
  <2>3. DOMAIN popup_drawn' = DrawnFields /\ PopShows(popup_drawn.content, popup_drawn.prompt)
    BY <1>1, <2>1 DEF DrawnFields, PopShows
  <2> QED BY <1>1, <2>2, <2>3 DEF PopFollows, Prompted, PopShows
<1>7. CASE Pop!WidgetLists
  <2>1. popup' = [popup EXCEPT !.listing = ~@, !.sampling = ~popup.listing] /\ popup_drawn' = popup_drawn
    BY <1>7 DEF Pop!WidgetLists
  <2>2. PopSound(popup') /\ popup'.pending = popup.pending
    BY <1>1, <2>1 DEF PopSound, Tidy, PopFields
  <2> QED BY <1>1, <2>1, <2>2 DEF PopFollows, Prompted
<1>8. CASE Pop!DeskChanges \/ UNCHANGED Pop!popupVars
  <2>1. UNCHANGED <<popup, popup_drawn>>
    BY <1>8 DEF Pop!DeskChanges, Pop!popupVars
  <2> QED BY <1>1, <2>1 DEF PopFollows, Prompted
<1> QED BY <1>2, <1>3, <1>4, <1>5, <1>6, <1>7, <1>8 DEF Pop!Next

----------------------------------------------------------------------------

(* The theorems.                                                            *)

\* The item, its menus and what is on the screen agree, whatever the order of
\* commands, clicks, drawings and changes of the compositor.
THEOREM PopFollowsAlways == Pop!Spec => []PopFollows
<1>1. Pop!Init => PopFollows
  BY DEF Pop!Init, PopFollows, PopSound, Tidy, PopFields, DrawnFields, Pop!View, Prompted
<1>2. PopFollows /\ [Pop!Next]_(Pop!popupVars) => PopFollows'
  BY PopStepFollows
<1> QED BY <1>1, <1>2, PTL DEF Pop!Spec

\* A surface over the whole screen is never left with nothing to show.
THEOREM SurfaceHasContentAlways == Pop!Spec => []Pop!SurfaceHasContent
<1>1. PopFollows => Pop!SurfaceHasContent
  BY DEF PopFollows, PopSound, Pop!SurfaceHasContent
<1> QED BY <1>1, PopFollowsAlways, PTL

\* Timers and sampling run for the menu that is current, and for no other.
THEOREM ResourcesFollowAlways == Pop!Spec => []Pop!ResourcesFollow
<1>1. PopFollows => Pop!ResourcesFollow
  BY DEF PopFollows, PopSound, Tidy, Pop!ResourcesFollow
<1> QED BY <1>1, PopFollowsAlways, PTL

\* What the actions menu carries out on a click of its own is what the prompt on
\* the screen names, or the lock, even if several messages come between two
\* drawings.
THEOREM ExecutesWhatItNamedAlways == Pop!Spec => Pop!ExecutesWhatItNamed
<1>1. ASSUME PopFollows, [Pop!Next]_(Pop!popupVars), executed' # executed, popup_drawn.content = "actions"
      PROVE  executed' \in {popup_drawn.prompt, "lock"}
  <2>1. Pop!Click
    BY <1>1 DEF Pop!Next, Pop!popupVars, Pop!ToggleMenu, Pop!OpenMenu, Pop!CloseMenu, Pop!Command, Pop!Draw, Pop!UpdateCompositor, Pop!MonitorLost,
                Pop!WidgetLists, Pop!DeskChanges
  <2>2. ASSUME NEW k \in 0..2, Pop!ClickMessage(k) PROVE executed' \in {popup_drawn.prompt, "lock"}
    <3>1. /\ k = 0 /\ popup.pending # "none" /\ executed' = popup.pending
          /\ Pop!Message(0) \in Pop!Buttons(popup_drawn) \cup Pop!OnClose(popup_drawn)
      BY <1>1, <2>2 DEF Pop!ClickMessage, Pop!Executes
    <3>2. popup_drawn.prompt # "none"
      BY <1>1, <3>1 DEF Pop!Buttons, Pop!OnClose, Pop!ActionRows, Pop!Message, Pop!Button
    <3> QED BY <1>1, <3>1, <3>2 DEF PopFollows, Prompted
  <2>3. ASSUME NEW a \in Action \cup {"lock"}, Pop!ClickRow(a) PROVE executed' = "lock"
    BY <1>1, <2>3 DEF Pop!ClickRow
  <2> QED BY <1>1, <2>1, <2>2, <2>3 DEF Pop!Click, Pop!ClickHide, Pop!ClickGo
<1>2. PopFollows /\ [Pop!Next]_(Pop!popupVars)
        => [executed' # executed /\ popup_drawn.content = "actions" => executed' \in {popup_drawn.prompt, "lock"}]_(Pop!popupVars)
  BY <1>1
<1> QED BY <1>2, PopFollowsAlways, PTL DEF Pop!Spec, Pop!ExecutesWhatItNamed

Wins == Win \cup {NoWin}

Items(n) == [current : Pop!Content \cup {"none"}, shown : BOOLEAN, clock : 0..1, window : 0..1, plugin : 0..n,
             offset : -n..n, target : Wins, confirming : BOOLEAN, last : Wins, pending : Action \cup {"none"},
             sampling : BOOLEAN, listing : BOOLEAN]
Desks == [wins : SUBSET Win, active : Wins]

PopTyped ==
  /\ popup_count \in 0..MaxPopupEvents /\ popup \in Items(popup_count) /\ desk \in Desks /\ known \in Desks
  /\ popup_drawn.content \in Pop!Content \cup {"none"} /\ executed \in Action \cup {"lock", "none"}
  /\ DOMAIN popup_drawn = DrawnFields

\* What a popup can be with a bound on its waiting commands, it can be with a larger one.
LEMMA ItemsGrow == \A n \in Nat : Items(n) \subseteq Items(n + 1)
<1> SUFFICES ASSUME NEW n \in Nat, NEW p \in Items(n) PROVE p \in Items(n + 1)
  OBVIOUS
<1>1. 0..n \subseteq 0..n + 1 /\ -n..n \subseteq -(n + 1)..n + 1
  OBVIOUS
<1> QED BY <1>1 DEF Items

\* A popup given another target is still one.
LEMMA RetargetedIsItem ==
  ASSUME NEW n \in Nat, NEW p \in Items(n), NEW a \in 0..1, NEW w \in Wins
  PROVE  [p EXCEPT !.window = a, !.confirming = FALSE, !.target = w] \in Items(n)
<1> DEFINE q == [p EXCEPT !.window = a]
           r == [q EXCEPT !.confirming = FALSE]
<1>1. q \in Items(n)
  BY DEF Items
<1>2. [p EXCEPT !.window = a, !.confirming = FALSE, !.target = w] = [r EXCEPT !.target = w]
  OBVIOUS
<1> HIDE DEF q
<1>3. r \in Items(n)
  BY <1>1 DEF Items
<1> HIDE DEF r
<1>4. [r EXCEPT !.target = w] \in Items(n)
  BY <1>3 DEF Items
<1> QED BY <1>2, <1>4

\* A popup closed or hidden is still one.
LEMMA ClosedIsItem == ASSUME NEW n \in Nat, NEW p \in Items(n) PROVE Pop!CloseCurrent(p) \in Items(n) /\ Pop!Hide(p) \in Items(n)
<1>1. Pop!Stopped(p) \in Items(n)
  <2>1. Pop!ClockClose(p) \in Items(n)
    BY DEF Items, Pop!ClockClose
  <2>2. Pop!SystemClose(p) \in Items(n)
    BY DEF Items, Pop!SystemClose
  <2>3. Pop!PluginClose(p) \in Items(n)
    BY DEF Items, Pop!PluginClose
  <2>4. Pop!WindowClose(p) \in Items(n)
    <3>1. NoWin \in Wins
      BY DEF Wins
    <3>2. 0 \in 0..1
      OBVIOUS
    <3>3. [p EXCEPT !.window = 0, !.confirming = FALSE, !.target = NoWin] \in Items(n)
      BY <3>1, <3>2, RetargetedIsItem, Zenon
    <3> QED BY <3>3, Zenon DEF Pop!WindowClose
  <2> QED BY <2>1, <2>2, <2>3, <2>4 DEF Pop!Stopped
<1>2. Pop!CloseCurrent(p) \in Items(n)
  BY <1>1 DEF Pop!CloseCurrent, Items
<1> QED BY <1>2 DEF Pop!Hide, Items

\* A popup opened or toggled is still one, one command longer.
LEMMA OpenIsItem ==
  ASSUME NEW n \in Nat, NEW p \in Items(n), known \in Desks, NEW c
  PROVE  Pop!Open(p, c) \in Items(n + 1) /\ Pop!Toggle(p, c) \in Items(n + 1)
<1>1. \A q \in Items(n) : Pop!ActiveWindow(q) \in Wins
  BY DEF Items, Desks, Pop!ActiveWindow
<1>2. \A q \in Items(n) : Pop!Initialized(q, c) \in Items(n + 1)
  <2> SUFFICES ASSUME NEW q \in Items(n) PROVE Pop!Initialized(q, c) \in Items(n + 1)
    OBVIOUS
  <2>1. Pop!ClockInit(q) \in Items(n) /\ Pop!SystemInit(q) \in Items(n)
    <3>1. Pop!ClockInit(q) \in Items(n)
      BY DEF Items, Pop!ClockInit
    <3>2. Pop!SystemInit(q) \in Items(n)
      BY DEF Items, Pop!SystemInit
    <3> QED BY <3>1, <3>2
  <2>2. Pop!WindowInit(q) \in Items(n) /\ Pop!ShadeInit(q) \in Items(n)
    <3> DEFINE w == Pop!ActiveWindow(q)
    <3>0. w \in Wins
      BY <1>1
    <3> HIDE DEF w
    <3>1. Pop!WindowInit(q) \in Items(n)
      <4>2. 1 \in 0..1
        OBVIOUS
      <4>3. [q EXCEPT !.window = 1, !.confirming = FALSE, !.target = w] \in Items(n)
        BY <3>0, <4>2, RetargetedIsItem, Zenon
      <4> QED BY <4>3, Zenon DEF Pop!WindowInit, w
    <3>2. Pop!ShadeInit(q) \in Items(n)
      BY <3>0 DEF Items, Pop!ShadeInit, w
    <3> QED BY <3>1, <3>2
  <2>3. Pop!PluginInit(q) \in Items(n + 1)
    <3>1. q \in Items(n + 1)
      BY ItemsGrow
    <3>2. q.plugin + 1 \in 0..n + 1
      BY DEF Items
    <3> QED BY <3>1, <3>2 DEF Pop!PluginInit, Items
  <2> HIDE DEF Items
  <2>4. q \in Items(n + 1) /\ Pop!ClockInit(q) \in Items(n + 1) /\ Pop!SystemInit(q) \in Items(n + 1)
        /\ Pop!WindowInit(q) \in Items(n + 1) /\ Pop!ShadeInit(q) \in Items(n + 1)
    BY <2>1, <2>2, ItemsGrow
  <2> QED BY <2>3, <2>4 DEF Pop!Initialized
<1>3. Pop!Open(p, c) \in Items(n + 1)
  <2>1. CASE c \notin Pop!Content
    BY <2>1, ItemsGrow DEF Pop!Open
  <2>2. CASE c \in Pop!Content
    <3> DEFINE q == IF p.current \in {"none", c} THEN p ELSE Pop!CloseCurrent(p)
               i == Pop!Initialized(q, c)
    <3>1. q \in Items(n)
      BY ClosedIsItem
    <3> HIDE DEF q
    <3>2. i \in Items(n + 1)
      BY <1>2, <3>1
    <3>3. Pop!Open(p, c) = [i EXCEPT !.current = c, !.shown = TRUE]
      BY <2>2 DEF Pop!Open, q
    <3> HIDE DEF i
    <3> QED BY <2>2, <3>2, <3>3 DEF Items
  <2> QED BY <2>1, <2>2
<1>4. Pop!Hide(p) \in Items(n + 1)
  BY ClosedIsItem, ItemsGrow
<1> QED BY <1>3, <1>4 DEF Pop!Toggle

\* A popup that handled a key or a click is still one, one command longer.
LEMMA HandledIsItem == ASSUME NEW n \in Nat, NEW p \in Items(n), NEW k \in 0..2 PROVE Pop!Handle(p, k) \in Items(n + 1)
<1>1. CASE p.current = "clock"
  <2>1. p \in Items(n + 1)
    BY ItemsGrow
  <2>2. (IF k = 2 THEN 0 ELSE p.offset + 2 * k - 1) \in -(n + 1)..n + 1
    <3>1. p.offset \in -n..n
      BY DEF Items
    <3>2. k = 0 \/ k = 1 \/ k = 2
      OBVIOUS
    <3> QED BY <3>1, <3>2
  <2> QED BY <1>1, <2>1, <2>2 DEF Pop!Handle, Pop!ClockHandle, Items
<1>2. CASE p.current = "window"
  <2>1. Pop!WindowHandle(p, k) \in Items(n)
    BY DEF Pop!WindowHandle, Items
  <2> QED BY <1>2, <2>1, ItemsGrow DEF Pop!Handle
<1>3. CASE p.current = "actions"
  <2> DEFINE q == [p EXCEPT !.pending = "none"]
  <2>1. q \in Items(n)
    BY DEF Items
  <2>2. Pop!Handle(p, k) \in {q, p, Pop!Hide(q)}
    BY <1>3 DEF Pop!Handle, Pop!ActionsHandle
  <2> HIDE DEF q
  <2>3. Pop!Hide(q) \in Items(n)
    BY <2>1, ClosedIsItem
  <2> QED BY <2>1, <2>2, <2>3, ItemsGrow
<1>4. CASE p.current \notin {"clock", "window", "actions"}
  BY <1>4, ItemsGrow DEF Pop!Handle
<1> QED BY <1>1, <1>2, <1>3, <1>4

\* The popup's variables have their types at the start.
LEMMA PopTypedStarts == Pop!Init => PopTyped
<1> SUFFICES ASSUME Pop!Init PROVE PopTyped
  OBVIOUS
<1>1. popup \in Items(0) /\ desk \in Desks /\ known \in Desks
  BY DEF Pop!Init, Items, Wins, Desks, Pop!Content
<1>2. popup_drawn.content = "none" /\ DOMAIN popup_drawn = DrawnFields
  BY DEF Pop!Init, Pop!View, DrawnFields
<1> QED BY <1>1, <1>2, PopupsAssumption DEF Pop!Init, PopTyped

\* Redrawing a part of what is drawn leaves its fields and its content in place.
LEMMA DrawnKeeps ==
  ASSUME DOMAIN popup_drawn = DrawnFields, NEW h, NEW l
  PROVE  /\ DOMAIN [popup_drawn EXCEPT !.here = h] = DrawnFields
         /\ [popup_drawn EXCEPT !.here = h].content = popup_drawn.content
         /\ DOMAIN [popup_drawn EXCEPT !.here = h, !.live = l] = DrawnFields
         /\ [popup_drawn EXCEPT !.here = h, !.live = l].content = popup_drawn.content
BY DEF DrawnFields

\* Every step keeps the popup's variables in their types.
LEMMA PopTypedKept == PopTyped /\ [Pop!Next]_(Pop!popupVars) => PopTyped'
<1> SUFFICES ASSUME PopTyped, [Pop!Next]_(Pop!popupVars) PROVE PopTyped'
  OBVIOUS
<1> DEFINE n == popup_count
<1>0. /\ n \in Nat /\ popup \in Items(n) /\ known \in Desks /\ desk \in Desks /\ DOMAIN popup_drawn = DrawnFields
      /\ popup_drawn.content \in Pop!Content \cup {"none"} /\ executed \in Action \cup {"lock", "none"}
  BY DEF PopTyped
<1>1. Pop!Counted => popup_count' \in 0..MaxPopupEvents /\ popup_count' = n + 1
  BY PopupsAssumption DEF Pop!Counted, PopTyped
<1> HIDE DEF n
<1>c. ASSUME NEW p, Pop!Became(p) PROVE popup' = p /\ DOMAIN popup_drawn' = DrawnFields /\ popup_drawn'.content \in Pop!Content \cup {"none"}
  BY <1>0, <1>c, DrawnKeeps DEF Pop!Became
<1>2. ASSUME NEW p \in Items(n + 1), Pop!Command(p) PROVE PopTyped'
  BY <1>0, <1>1, <1>2, <1>c DEF Pop!Command, PopTyped
<1>3. CASE Pop!ToggleMenu \/ Pop!OpenMenu \/ Pop!CloseMenu
  <2>1. Pop!Hide(popup) \in Items(n + 1)
    BY <1>0, ClosedIsItem, ItemsGrow
  <2>2. \A c : Pop!Open(popup, c) \in Items(n + 1) /\ Pop!Toggle(popup, c) \in Items(n + 1)
    BY <1>0, OpenIsItem
  <2>3. \E p \in Items(n + 1) : Pop!Command(p)
    BY <1>3, <2>1, <2>2 DEF Pop!ToggleMenu, Pop!OpenMenu, Pop!CloseMenu
  <2> QED BY <1>2, <2>3
<1>4. CASE Pop!Click
  <2>0. Pop!Counted /\ UNCHANGED <<desk, known>>
    BY <1>4 DEF Pop!Click
  <2>1. ASSUME popup' \in Items(n + 1), DOMAIN popup_drawn' = DrawnFields, popup_drawn'.content = popup_drawn.content,
               executed' \in Action \cup {"lock", "none"}
        PROVE  PopTyped'
    BY <1>0, <1>1, <2>0, <2>1 DEF PopTyped
  <2>p. popup \in Items(n + 1) /\ Pop!Hide(popup) \in Items(n) /\ Pop!Hide(popup) \in Items(n + 1)
    BY <1>0, ClosedIsItem, ItemsGrow
  <2>b. ASSUME NEW p, Pop!Became(p) PROVE popup' = p /\ DOMAIN popup_drawn' = DrawnFields /\ popup_drawn'.content = popup_drawn.content
    BY <1>0, <2>b, DrawnKeeps DEF Pop!Became
  <2>2. ASSUME NEW k \in 0..2, Pop!ClickMessage(k) PROVE PopTyped'
    <3>1. CASE ~Pop!Heard
      BY <1>0, <2>1, <2>2, <2>p, <3>1 DEF Pop!ClickMessage
    <3>2. CASE Pop!Heard
      <4>1. /\ popup' = Pop!Handle(popup, k) /\ executed' = IF Pop!Executes(k) THEN popup.pending ELSE executed
            /\ popup_drawn' = [popup_drawn EXCEPT !.here = popup'.shown, !.live = @ /\ popup.current # "actions"]
        BY <2>2, <3>2 DEF Pop!ClickMessage
      <4>2. popup' \in Items(n + 1)
        BY <1>0, <4>1, HandledIsItem
      <4>3. popup.pending \in Action \cup {"none"}
        BY <1>0 DEF Items
      <4>4. DOMAIN popup_drawn' = DrawnFields /\ popup_drawn'.content = popup_drawn.content
        BY <1>0, <4>1 DEF DrawnFields
      <4> QED BY <1>0, <2>1, <4>1, <4>2, <4>3, <4>4
    <3> QED BY <3>1, <3>2
  <2>3. CASE Pop!ClickHide
    <3>1. Pop!Became(IF Pop!Heard THEN Pop!Hide(popup) ELSE popup) /\ UNCHANGED executed
      BY <2>3 DEF Pop!ClickHide
    <3>2. popup' = (IF Pop!Heard THEN Pop!Hide(popup) ELSE popup) /\ DOMAIN popup_drawn' = DrawnFields /\ popup_drawn'.content = popup_drawn.content
      BY <3>1, <2>b
    <3> QED BY <1>0, <2>1, <2>p, <3>1, <3>2
  <2>4. ASSUME NEW a \in Action \cup {"lock"}, Pop!ClickRow(a) PROVE PopTyped'
    <3> DEFINE p == IF a = "lock" THEN (IF Pop!Heard THEN Pop!Hide(popup) ELSE popup)
                    ELSE [popup EXCEPT !.pending = IF popup_drawn.live THEN a ELSE @]
    <3>1. Pop!Became(p) /\ executed' = IF a = "lock" THEN a ELSE executed
      BY <2>4 DEF Pop!ClickRow
    <3>2. p \in Items(n + 1)
      <4>1. a # "lock" => [popup EXCEPT !.pending = IF popup_drawn.live THEN a ELSE @] \in Items(n + 1)
        BY <2>p DEF Items
      <4> QED BY <2>p, <4>1
    <3> HIDE DEF p
    <3> QED BY <1>0, <2>1, <2>b, <3>1, <3>2
  <2>5. ASSUME NEW c \in Pop!Content, Pop!ClickGo(c) PROVE PopTyped'
    <3>1. /\ popup' = Pop!Open(IF Pop!Heard THEN Pop!Hide(popup) ELSE popup, c) /\ UNCHANGED executed
          /\ popup_drawn' = [popup_drawn EXCEPT !.here = FALSE]
      BY <2>5 DEF Pop!ClickGo
    <3>2. (IF Pop!Heard THEN Pop!Hide(popup) ELSE popup) \in Items(n)
      BY <1>0, <2>p
    <3>3. popup' \in Items(n + 1)
      BY <1>0, <3>1, <3>2, OpenIsItem
    <3> QED BY <1>0, <2>1, <3>1, <3>3, DrawnKeeps
  <2> QED BY <1>4, <2>2, <2>3, <2>4, <2>5 DEF Pop!Click
<1>5. CASE Pop!Draw
  <2>1. /\ popup_drawn' = Pop!View(popup) /\ UNCHANGED <<desk, known, executed, popup_count>>
        /\ popup' = IF popup.shown /\ popup.current = "shade" THEN Pop!ShadeInit(popup) ELSE popup
    BY <1>5 DEF Pop!Draw
  <2>2. DOMAIN popup_drawn' = DrawnFields
    BY <2>1 DEF Pop!View, DrawnFields
  <2>3. popup_drawn'.content \in Pop!Content \cup {"none"}
    <3>1. popup_drawn'.content \in {"none", popup.current}
      BY <2>1 DEF Pop!View
    <3>2. popup.current \in Pop!Content \cup {"none"}
      BY <1>0 DEF Items
    <3> QED BY <3>1, <3>2
  <2>4. Pop!ShadeInit(popup) \in Items(n)
    BY <1>0 DEF Pop!ShadeInit, Pop!ActiveWindow, Items, Desks
  <2> QED BY <1>0, <2>1, <2>2, <2>3, <2>4 DEF PopTyped, n
<1>6. CASE Pop!UpdateCompositor
  <2>1. known' = desk /\ UNCHANGED <<desk, executed, popup_count>>
    BY <1>6 DEF Pop!UpdateCompositor
  <2>2. CASE Pop!Became(Pop!Hide(popup))
    <3>1. popup' = Pop!Hide(popup) /\ DOMAIN popup_drawn' = DrawnFields /\ popup_drawn'.content \in Pop!Content \cup {"none"}
      BY <2>2, <1>c
    <3>2. Pop!Hide(popup) \in Items(n)
      BY <1>0, ClosedIsItem
    <3> QED BY <2>1, <3>1, <3>2 DEF PopTyped, n
  <2>3. CASE UNCHANGED <<popup, popup_drawn>>
    BY <2>1, <2>3 DEF PopTyped
  <2> QED BY <1>6, <2>2, <2>3 DEF Pop!UpdateCompositor
<1>7. CASE Pop!MonitorLost
  <2>1. /\ popup' = [popup EXCEPT !.shown = FALSE] /\ popup_drawn' = [popup_drawn EXCEPT !.here = FALSE]
        /\ Pop!Counted /\ UNCHANGED <<desk, known, executed>>
    BY <1>7 DEF Pop!MonitorLost
  <2>2. popup' \in Items(n + 1)
    <3>1. popup \in Items(n + 1)
      BY <1>0, ItemsGrow
    <3> QED BY <2>1, <3>1 DEF Items
  <2> QED BY <1>0, <1>1, <2>1, <2>2, DrawnKeeps DEF PopTyped
<1>8. CASE Pop!WidgetLists
  <2>1. /\ popup' = [popup EXCEPT !.listing = ~@, !.sampling = ~popup.listing]
        /\ Pop!Counted /\ UNCHANGED <<desk, known, executed, popup_drawn>>
    BY <1>8 DEF Pop!WidgetLists
  <2>2. popup' \in Items(n + 1)
    <3>1. popup \in Items(n + 1)
      BY <1>0, ItemsGrow
    <3> QED BY <2>1, <3>1 DEF Items
  <2> QED BY <1>0, <1>1, <2>1, <2>2 DEF PopTyped
<1>9. CASE Pop!DeskChanges
  <2>1. Pop!Counted /\ desk' \in Desks /\ UNCHANGED <<known, popup, popup_drawn, executed>>
    BY <1>9 DEF Pop!DeskChanges, Desks, Wins
  <2>2. popup \in Items(n + 1)
    BY <1>0, ItemsGrow
  <2> QED BY <1>0, <1>1, <2>1, <2>2 DEF PopTyped
<1>10. CASE UNCHANGED Pop!popupVars
  BY <1>10 DEF Pop!popupVars, PopTyped
<1> QED BY <1>3, <1>4, <1>5, <1>6, <1>7, <1>8, <1>9, <1>10 DEF Pop!Next

\* Those types are the ones the runs check.
LEMMA PopTypedIs == PopTyped => Pop!TypeOK
<1> SUFFICES ASSUME PopTyped PROVE Pop!TypeOK
  OBVIOUS
<1>1. popup \in Items(popup_count) /\ popup_count \in 0..MaxPopupEvents
  BY DEF PopTyped
<1>2. popup.plugin \in 0..MaxPopupEvents /\ popup.offset \in -MaxPopupEvents..MaxPopupEvents
  <2>1. popup.plugin \in 0..popup_count /\ popup.offset \in -popup_count..popup_count
    BY <1>1 DEF Items
  <2> QED BY <1>1, <2>1, PopupsAssumption
<1> QED BY <1>1, <1>2 DEF Items, PopTyped, Pop!TypeOK, Wins

\* The window menu does not outlive the window it is about.
LEMMA GoneTargetClosesStep ==
  ASSUME PopFollows, [Pop!Next]_(Pop!popupVars), known' # known, popup.current = "window", popup.shown,
         popup.target \notin known'.wins \cup {NoWin}
  PROVE  ~popup'.shown
<1>1. Pop!UpdateCompositor
  BY DEF Pop!Next, Pop!popupVars, Pop!ToggleMenu, Pop!OpenMenu, Pop!CloseMenu, Pop!Command, Pop!Click, Pop!Draw, Pop!MonitorLost, Pop!WidgetLists, Pop!DeskChanges
<1>2. popup' = Pop!Hide(popup)
  BY <1>1 DEF Pop!UpdateCompositor, Pop!Became
<1> QED BY <1>2, HiddenIsSound DEF PopFollows, PopSound

\* Every variable of the popup item has its type.
THEOREM PopTypedAlways == Pop!Spec => []Pop!TypeOK
<1>1. Pop!Init => PopTyped
  BY PopTypedStarts
<1>2. PopTyped /\ [Pop!Next]_(Pop!popupVars) => PopTyped'
  BY PopTypedKept
<1>3. PopTyped => Pop!TypeOK
  BY PopTypedIs
<1> QED BY <1>1, <1>2, <1>3, PTL DEF Pop!Spec

\* The window menu closes as soon as the shell learns that its window is gone.
THEOREM GoneTargetClosesAlways == Pop!Spec => Pop!GoneTargetCloses
<1>1. PopFollows /\ [Pop!Next]_(Pop!popupVars)
        => [known' # known /\ popup.current = "window" /\ popup.shown /\ popup.target \notin known'.wins \cup {NoWin}
              => ~popup'.shown]_(Pop!popupVars)
  BY GoneTargetClosesStep
<1> QED BY <1>1, PopFollowsAlways, PTL DEF Pop!Spec, Pop!GoneTargetCloses

-----------------------------------------------------------------------------
(* The components of a panel (PanelComponents.tla).                         *)

IdSet == Seq(Nat \cup Comp!Section)
PItems == [label : STRING, comp : STRING, opt : Nat, id : IdSet]

Cells ==
  {c \in [label : STRING, group : BOOLEAN, items : Seq(PItems), prefix : Seq(PItems), menu : MenuNames] :
     Len(c.prefix) <= 1 /\ (~c.group => Len(c.items) = 1 /\ c.items[1].label = c.label)}

----------------------------------------------------------------------------

\* The step of Without.
KeepOf(label, kept, i) == IF i.label = label THEN kept ELSE Append(kept, i)

IsFilter(run, s, label) ==
  /\ run[0] = <<>> /\ Comp!Without(s, label) = run[Len(s)]
  /\ \A i \in 1..Len(s) : run[i] = KeepOf(label, run[i - 1], s[i])

\* Filtering a sequence by label is a run of one step per element.
LEMMA WithoutRuns ==
  ASSUME NEW I, NEW s \in Seq(I), NEW label
  PROVE  \E run \in [0..Len(s) -> Seq(I)] : IsFilter(run, s, label)
<1> DEFINE N == Len(s)
           R == Seq(I)
           b == <<>>
           Fits(it) == it = [x \in SUBSET (DOMAIN s) |-> IF x = {} THEN b ELSE KeepOf(label, it[x \ {Max(x)}], s[Max(x)])]
           step == [p \in R \X (1..N) |-> KeepOf(label, p[1], s[p[2]])]
           iter == CHOOSE it : Fits(it)
           run == [k \in 0..N |-> iter[1..k]]
<1>0. N \in Nat /\ DOMAIN s = 1..N /\ b \in R /\ \A i \in 1..N : s[i] \in I
  OBVIOUS
<1>a. \A r \in R, i \in 1..N : KeepOf(label, r, s[i]) \in R
  BY <1>0 DEF KeepOf
<1>8. Comp!Without(s, label) = iter[DOMAIN s]
  BY DEF Comp!Without, Comp!FoldLeft, Comp!MapThenFoldSet, Comp!Max, Max, KeepOf
<1>8b. Comp!Without(s, label) = iter[1..N]
  BY <1>0, <1>8
<1> HIDE DEF N, R, b
<1>1. step \in [R \X (1..N) -> R] /\ \A r \in R, i \in 1..N : step[<<r, i>>] = KeepOf(label, r, s[i])
  BY <1>a
<1> HIDE DEF step
<1>2. \A x \in SUBSET (1..N) : x # {} => Max(x) \in 1..N
  <2> SUFFICES ASSUME NEW x \in SUBSET (1..N), x # {} PROVE Max(x) \in 1..N
    OBVIOUS
  <2>1. Max(x) \in x
    BY <1>0, ShellGreatestOf
  <2> QED BY <2>1
<1>3. PICK it \in [SUBSET (1..N) -> R] : IsShellFold(it, b, N, step)
  BY <1>0, <1>1, ShellFoldsThereAre
<1>4. Fits(it)
  <2>1. \A x \in SUBSET (1..N) : it[x] = IF x = {} THEN b ELSE KeepOf(label, it[x \ {Max(x)}], s[Max(x)])
    <3> SUFFICES ASSUME NEW x \in SUBSET (1..N), x # {} PROVE it[x] = KeepOf(label, it[x \ {Max(x)}], s[Max(x)])
      BY <1>3 DEF IsShellFold
    <3>1. x \ {Max(x)} \in SUBSET (1..N) /\ Max(x) \in 1..N
      BY <1>2
    <3> QED BY <1>1, <1>3, <3>1 DEF IsShellFold
  <2> QED BY <1>0, <2>1
<1>5. Fits(iter)
  <2> HIDE DEF Fits
  <2> QED BY <1>4
<1>6. iter[{}] = b
  BY <1>5
<1>7. \A k \in 1..N : iter[1..k] = KeepOf(label, iter[1..k - 1], s[k])
  <2> SUFFICES ASSUME NEW k \in 1..N PROVE iter[1..k] = KeepOf(label, iter[1..k - 1], s[k])
    OBVIOUS
  <2>1. k \in Nat \ {0} /\ (1..k) \in SUBSET (1..N) /\ k \in 1..k /\ 1..k # {} /\ (1..k) \ {k} = 1..k - 1
    <3>1. k \in Nat \ {0} /\ k <= N
      BY <1>0
    <3>2. (1..k) \in SUBSET (1..N) /\ k \in 1..k
      BY <1>0, <3>1
    <3>3. (1..k) \ {k} = 1..k - 1
      BY <3>1
    <3> QED BY <3>1, <3>2, <3>3
  <2>2. Max(1..k) = k
    BY <2>1, ShellMaxIs
  <2> QED BY <1>0, <1>5, <2>1, <2>2
<1> HIDE DEF iter
<1>9. run \in [0..N -> R]
  <2>1. \A k \in 1..N : iter[1..k - 1] \in R => iter[1..k] \in R
    BY <1>a, <1>7
  <2> QED BY <1>0, <1>6, <2>1, ShellPrefixesRun
<1>10. run[0] = b /\ run[N] = iter[1..N]
  <2>1. 1..0 = {}
    OBVIOUS
  <2> QED BY <1>0, <1>6, <2>1
<1>11. \A i \in 1..N : run[i] = KeepOf(label, run[i - 1], s[i])
  BY <1>0, <1>7
<1>12. IsFilter(run, s, label)
  BY <1>8b, <1>10, <1>11 DEF N, b, IsFilter
<1> HIDE DEF run
<1> QED BY <1>9, <1>12 DEF N, R

\* What Without leaves: some of the items, each once.
Embeds(f, new, old) ==
  /\ f \in [DOMAIN new -> DOMAIN old] /\ \A j \in DOMAIN new : new[j] = old[f[j]]
  /\ \A i, j \in DOMAIN new : f[i] = f[j] => i = j

\* What is left when a label is filtered out is a sequence of the same elements, embedded in
\* the one it came from.
LEMMA CompWithoutIs ==
  ASSUME NEW I, NEW s \in Seq(I), NEW label
  PROVE  Comp!Without(s, label) \in Seq(I) /\ \E f : Embeds(f, Comp!Without(s, label), s)
<1> DEFINE N == Len(s)
<1>0. N \in Nat /\ DOMAIN s = 1..N
  OBVIOUS
<1>r. PICK run \in [0..Len(s) -> Seq(I)] : IsFilter(run, s, label)
  BY WithoutRuns
<1>1. /\ run[0] = <<>> /\ Comp!Without(s, label) = run[Len(s)]
      /\ \A i \in 1..Len(s) : run[i] = KeepOf(label, run[i - 1], s[i])
  BY <1>r DEF IsFilter
<1> DEFINE G(f, k) == /\ f \in [DOMAIN run[k] -> 1..k] /\ \A j \in DOMAIN run[k] : run[k][j] = s[f[j]]
                      /\ \A i, j \in DOMAIN run[k] : f[i] = f[j] => i = j
           P(k) == \E f : G(f, k)
           S == {k \in Nat : k <= N => P(k)}
<1>2. P(0)
  <2> DEFINE f == [j \in DOMAIN run[0] |-> 1]
  <2>1. DOMAIN run[0] = {}
    BY <1>1
  <2>2. f \in [DOMAIN run[0] -> 1..0]
    BY <2>1
  <2>3. G(f, 0)
    BY <2>1, <2>2
  <2> HIDE DEF f, G
  <2> QED BY <2>3
<1>3. ASSUME NEW k \in Nat, k + 1 <= N, P(k) PROVE P(k + 1)
  <2>0. k + 1 \in 1..N /\ (k + 1) - 1 = k /\ k \in 0..N /\ 1..k \subseteq 1..k + 1 /\ k + 1 \in 1..k + 1 /\ k + 1 \notin 1..k
    BY <1>0, <1>3
  <2>1. PICK f : G(f, k)
    BY <1>3
  <2>2. run[k] \in Seq(I) /\ run[k + 1] = KeepOf(label, run[k], s[k + 1])
    BY <1>1, <2>0
  <2>3. CASE run[k + 1] = run[k]
    <3>1. G(f, k + 1)
      BY <2>0, <2>1, <2>3
    <3> HIDE DEF G
    <3> QED BY <3>1
  <2>4. CASE run[k + 1] = Append(run[k], s[k + 1])
    <3> DEFINE n == Len(run[k])
               g == [j \in 1..n + 1 |-> IF j = n + 1 THEN k + 1 ELSE f[j]]
    <3>1. n \in Nat /\ DOMAIN run[k] = 1..n /\ DOMAIN run[k + 1] = 1..n + 1
      BY <2>2, <2>4
    <3>2. run[k + 1][n + 1] = s[k + 1] /\ \A j \in 1..n : run[k + 1][j] = run[k][j]
      BY <2>2, <2>4
    <3> HIDE DEF n
    <3>3. \A j \in 1..n + 1 : j # n + 1 => j \in 1..n
      BY <3>1
    <3>4. \A j \in 1..n : j \in 1..n + 1 /\ j # n + 1 /\ g[j] = f[j] /\ f[j] \in 1..k
      <4>1. \A j \in 1..n : j \in 1..n + 1 /\ j # n + 1
        BY <3>1
      <4>2. \A j \in 1..n : g[j] = f[j]
        BY <4>1
      <4>3. \A j \in 1..n : f[j] \in 1..k
        BY <2>1, <3>1
      <4> QED BY <4>1, <4>2, <4>3
    <3>5. g[n + 1] = k + 1
      BY <3>1
    <3>6. g \in [1..n + 1 -> 1..k + 1]
      BY <2>0, <3>3, <3>4, <3>5
    <3> HIDE DEF g
    <3>7. \A j \in DOMAIN run[k + 1] : run[k + 1][j] = s[g[j]]
      BY <2>1, <3>1, <3>2, <3>3, <3>4, <3>5
    <3>8. \A i, j \in DOMAIN run[k + 1] : g[i] = g[j] => i = j
      <4> SUFFICES ASSUME NEW i \in 1..n + 1, NEW j \in 1..n + 1, g[i] = g[j] PROVE i = j
        BY <3>1
      <4>1. CASE i = n + 1 /\ j = n + 1
        BY <4>1
      <4>2. CASE i = n + 1 /\ j # n + 1
        BY <2>0, <3>3, <3>4, <3>5, <4>2
      <4>3. CASE i # n + 1 /\ j = n + 1
        BY <2>0, <3>3, <3>4, <3>5, <4>3
      <4>4. CASE i # n + 1 /\ j # n + 1
        <5>1. i \in DOMAIN run[k] /\ j \in DOMAIN run[k] /\ f[i] = f[j]
          BY <3>1, <3>3, <3>4, <4>4
        <5> QED BY <2>1, <5>1
      <4> QED BY <4>1, <4>2, <4>3, <4>4
    <3>9. G(g, k + 1)
      BY <3>1, <3>6, <3>7, <3>8
    <3> HIDE DEF G
    <3> QED BY <3>9
  <2> QED BY <2>2, <2>3, <2>4 DEF KeepOf
<1> HIDE DEF P
<1>4. 0 \in S /\ \A k \in Nat : k \in S => k + 1 \in S
  <2>1. \A k \in Nat : k + 1 <= N => k <= N
    BY <1>0
  <2> QED BY <1>2, <1>3, <2>1
<1> HIDE DEF S
<1>5. N \in S
  BY <1>0, <1>4, ShellInduction
<1>6. P(N)
  BY <1>0, <1>5 DEF S
<1>7. PICK f : G(f, N)
  BY <1>6 DEF P
<1>8. N \in 0..N
  BY <1>0
<1>9. Embeds(f, Comp!Without(s, label), s)
  BY <1>0, <1>1, <1>7 DEF Embeds
<1> QED BY <1>1, <1>8, <1>9

----------------------------------------------------------------------------

\* Half a cell: its items, or its prefix; and an item by its place.
Half(c, h) == IF h = 0 THEN c.items ELSE c.prefix
Has(cells, k, h, j) == k \in DOMAIN cells /\ h \in {0, 1} /\ j \in DOMAIN Half(cells[k], h)
It(cells, k, h, j) == Half(cells[k], h)[j]

\* Nothing has the id of another place, and ids tell when they were given.
Distinct(secs) ==
  \A s, t \in Comp!Section : \A k, h, j, l, g, i :
    Has(secs[s], k, h, j) /\ Has(secs[t], l, g, i) /\ It(secs[s], k, h, j).id = It(secs[t], l, g, i).id
      => s = t /\ k = l /\ h = g /\ j = i
Early(id, n) == id \in IdSet /\ id[1] \in Nat /\ id[1] < n
Born(secs, n) == \A s \in Comp!Section : \A k, h, j : Has(secs[s], k, h, j) => Early(It(secs[s], k, h, j).id, n)

\* The items of a panel are those at the places of its sections.
LEMMA PlacesAre ==
  ASSUME NEW secs PROVE \A x : x \in Comp!PanelItems(secs) <=> \E s \in Comp!Section : \E k, h, j : Has(secs[s], k, h, j) /\ x = It(secs[s], k, h, j)
<1>1. \A c : Comp!ItemsOf(c) = {Half(c, 0)[j] : j \in DOMAIN Half(c, 0)} \cup {Half(c, 1)[j] : j \in DOMAIN Half(c, 1)}
  BY DEF Comp!ItemsOf, Comp!ToSet, Half
<1>2. \A c, x : x \in Comp!ItemsOf(c) <=> \E h \in {0, 1} : \E j \in DOMAIN Half(c, h) : x = Half(c, h)[j]
  BY <1>1
<1>3. \A x : x \in Comp!PanelItems(secs) <=> \E s \in Comp!Section : \E k \in DOMAIN secs[s] : x \in Comp!ItemsOf(secs[s][k])
  BY DEF Comp!PanelItems, Comp!AllItems
<1> QED BY <1>2, <1>3 DEF Has, It

\* The items of a panel are panel items.
LEMMA ItemsAreItems ==
  ASSUME NEW secs \in [Comp!Section -> Seq(Cells)] PROVE \A x \in Comp!PanelItems(secs) : x \in PItems
<1> SUFFICES ASSUME NEW s \in Comp!Section, NEW k, NEW h, NEW j, Has(secs[s], k, h, j) PROVE It(secs[s], k, h, j) \in PItems
  BY PlacesAre
<1>1. secs[s][k] \in Cells
  <2> HIDE DEF Cells
  <2>1. secs[s] \in Seq(Cells) /\ k \in DOMAIN secs[s]
    BY DEF Has
  <2> QED BY <2>1
<1>2. Half(secs[s][k], h) \in Seq(PItems) /\ j \in DOMAIN Half(secs[s][k], h)
  BY <1>1 DEF Has, Half, Cells
<1> HIDE DEF PItems
<1> QED BY <1>2 DEF It

\* Where the places have distinct ids, an id names one item.
LEMMA DistinctIsUnique ==
  ASSUME NEW secs, Distinct(secs) PROVE \A i, j \in Comp!PanelItems(secs) : i.id = j.id => i = j
<1> SUFFICES ASSUME NEW x \in Comp!PanelItems(secs), NEW y \in Comp!PanelItems(secs), x.id = y.id PROVE x = y
  OBVIOUS
<1>1a. PICK s \in Comp!Section : \E k, h, j : Has(secs[s], k, h, j) /\ x = It(secs[s], k, h, j)
  BY PlacesAre
<1>1. PICK k, h, j : Has(secs[s], k, h, j) /\ x = It(secs[s], k, h, j)
  BY <1>1a
<1>2a. PICK t \in Comp!Section : \E l, g, i : Has(secs[t], l, g, i) /\ y = It(secs[t], l, g, i)
  BY PlacesAre
<1>2. PICK l, g, i : Has(secs[t], l, g, i) /\ y = It(secs[t], l, g, i)
  BY <1>2a
<1>3. s = t /\ k = l /\ h = g /\ j = i
  BY <1>1, <1>2 DEF Distinct
<1> QED BY <1>1, <1>2, <1>3

----------------------------------------------------------------------------

(* What a label finds.                                                      *)

LEMMA FindsOne ==
  ASSUME NEW A, NEW olds \in Seq(A), NEW confs, NEW k PROVE \A o, p \in Comp!Finds(olds, confs, k) : o = p
<1> SUFFICES ASSUME NEW o \in Comp!Finds(olds, confs, k), NEW p \in Comp!Finds(olds, confs, k), o < p PROVE FALSE
  <2>1. \A o \in Comp!Finds(olds, confs, k) : o \in Nat
    BY DEF Comp!Finds
  <2> QED BY <2>1
<1>1. p \in (o + 1)..Len(olds) /\ Comp!LabelAt(olds, p) = Comp!LabelAt(olds, o)
  BY DEF Comp!Finds
<1> QED BY <1>1 DEF Comp!Finds

\* An old item is found for one new item only: labels are matched one to one.
LEMMA FindsOnce ==
  ASSUME NEW A, NEW B, NEW olds \in Seq(A), NEW confs \in Seq(B), NEW k \in DOMAIN confs, NEW l \in DOMAIN confs, NEW o,
         o \in Comp!Finds(olds, confs, k), o \in Comp!Finds(olds, confs, l)
  PROVE  k = l
<1>1. Comp!LabelAt(confs, k) = Comp!LabelAt(confs, l) /\ k \in Nat /\ l \in Nat /\ k >= 1 /\ l >= 1
  BY DEF Comp!Finds
<1>2. ~(k < l)
  <2> SUFFICES ASSUME k < l PROVE FALSE
    OBVIOUS
  <2>1. k \in 1..(l - 1)
    BY <1>1
  <2> QED BY <1>1, <2>1 DEF Comp!Finds
<1>3. ~(l < k)
  <2> SUFFICES ASSUME l < k PROVE FALSE
    OBVIOUS
  <2>1. l \in 1..(k - 1)
    BY <1>1
  <2> QED BY <1>1, <2>1 DEF Comp!Finds
<1> QED BY <1>1, <1>2, <1>3

\* What is found for a new item is an old item with its label.
LEMMA FoundIs ==
  ASSUME NEW A, NEW olds \in Seq(A), NEW confs, NEW k, NEW o \in Comp!Finds(olds, confs, k)
  PROVE  Comp!Found(olds, confs, k) = olds[o] /\ o \in DOMAIN olds /\ Comp!LabelAt(olds, o) = Comp!LabelAt(confs, k)
<1>1. (CHOOSE p \in Comp!Finds(olds, confs, k) : TRUE) = o
  BY FindsOne
<1> QED BY <1>1 DEF Comp!Found, Comp!Finds

CompSame(x, y) == x.id = y.id /\ x.comp = y.comp

\* The difference of the items keeps length and order, and takes each label and option from
\* the new configuration; an id is fresh or that of the old item found.
LEMMA DiffItemsAre ==
  ASSUME NEW olds \in Seq(PItems), NEW confs \in Seq(ConfItems), NEW id \in IdSet
  PROVE  /\ Comp!DiffItems(olds, confs, id) \in Seq(PItems) /\ Len(Comp!DiffItems(olds, confs, id)) = Len(confs)
         /\ \A j \in DOMAIN confs :
              /\ Comp!DiffItems(olds, confs, id)[j].label = confs[j].label /\ Comp!DiffItems(olds, confs, id)[j].opt = confs[j].opt
              /\ \/ Comp!DiffItems(olds, confs, id)[j].id = id \o <<j>> /\ Comp!Finds(olds, confs, j) = {}
                 \/ \E i \in Comp!Finds(olds, confs, j) : CompSame(Comp!DiffItems(olds, confs, id)[j], olds[i])
<1> DEFINE new == Comp!DiffItems(olds, confs, id)
<1>0. DOMAIN confs = 1..Len(confs) /\ Len(confs) \in Nat
  OBVIOUS
<1>1. ASSUME NEW j \in DOMAIN confs
      PROVE  /\ new[j] \in PItems /\ new[j].label = confs[j].label /\ new[j].opt = confs[j].opt
             /\ \/ new[j].id = id \o <<j>> /\ Comp!Finds(olds, confs, j) = {}
                \/ \E i \in Comp!Finds(olds, confs, j) : CompSame(new[j], olds[i])
  <2>0. confs[j] \in ConfItems /\ j \in Nat
    <3> HIDE DEF ConfItems
    <3> QED BY <1>0
  <2>1. CASE Comp!Finds(olds, confs, j) = {}
    <3>1. new[j] = Comp!Instance(confs[j], id \o <<j>>)
      BY <2>1 DEF Comp!DiffItems
    <3>2. id \o <<j>> \in IdSet
      BY <2>0 DEF IdSet
    <3> HIDE DEF new, IdSet
    <3>3. new[j] \in PItems /\ new[j].label = confs[j].label /\ new[j].opt = confs[j].opt /\ new[j].id = id \o <<j>>
      BY <2>0, <3>1, <3>2 DEF Comp!Instance, PItems, ConfItems
    <3> QED BY <2>1, <3>3
  <2>2. CASE Comp!Finds(olds, confs, j) # {}
    <3>1. PICK i \in Comp!Finds(olds, confs, j) : TRUE
      BY <2>2
    <3>2. Comp!Found(olds, confs, j) = olds[i] /\ i \in DOMAIN olds /\ Comp!LabelAt(olds, i) = Comp!LabelAt(confs, j)
      BY <3>1, FoundIs
    <3>3. new[j] = Comp!Reopted(olds[i], confs[j])
      BY <2>2, <3>2 DEF Comp!DiffItems
    <3>4. olds[i] \in PItems
      <4> HIDE DEF PItems
      <4> QED BY <3>2
    <3> HIDE DEF new, IdSet
    <3>5. new[j] \in PItems /\ new[j].label = confs[j].label /\ new[j].opt = confs[j].opt /\ CompSame(new[j], olds[i])
      BY <2>0, <3>2, <3>3, <3>4 DEF Comp!Reopted, PItems, ConfItems, Comp!LabelAt, CompSame
    <3> QED BY <3>1, <3>5
  <2> QED BY <2>1, <2>2
<1>2. DOMAIN new = DOMAIN confs /\ new = [j \in DOMAIN confs |-> new[j]]
  BY DEF Comp!DiffItems
<1> HIDE DEF new
<1>3. new \in Seq(PItems)
  <2> HIDE DEF PItems
  <2>1. \A j \in 1..Len(confs) : new[j] \in PItems
    BY <1>0, <1>1
  <2>2. new \in [1..Len(confs) -> PItems]
    BY <1>0, <1>2, <2>1
  <2> QED BY <1>0, <2>2
<1>4. Len(new) = Len(confs)
  BY <1>0, <1>2, <1>3
<1> QED BY <1>1, <1>3, <1>4 DEF new

\* The difference of the prefix keeps the old prefix or makes one with the id of place 0.
LEMMA DiffPrefixIs ==
  ASSUME NEW olds \in Seq(PItems), NEW confs \in Seq(ConfItems), NEW id \in IdSet, Len(confs) <= 1
  PROVE  /\ Comp!DiffPrefix(olds, confs, id) \in Seq(PItems) /\ Len(Comp!DiffPrefix(olds, confs, id)) = Len(confs)
         /\ \A j \in DOMAIN confs :
              /\ j = 1
              /\ \/ Comp!DiffPrefix(olds, confs, id)[j].id = id \o <<0>>
                 \/ olds # <<>> /\ CompSame(Comp!DiffPrefix(olds, confs, id)[j], olds[1])
<1> DEFINE new == Comp!DiffPrefix(olds, confs, id)
<1>0. DOMAIN confs = 1..Len(confs) /\ Len(confs) \in Nat
  OBVIOUS
<1>1. ASSUME NEW j \in DOMAIN confs
      PROVE  /\ j = 1 /\ new[j] \in PItems
             /\ (new[j].id = id \o <<0>> \/ (olds # <<>> /\ CompSame(new[j], olds[1])))
  <2>0. confs[1] \in ConfItems /\ j = 1
    <3> HIDE DEF ConfItems
    <3> QED BY <1>0
  <2>1. CASE olds = <<>>
    <3>1. new[j] = Comp!Instance(confs[1], id \o <<0>>)
      BY <2>1 DEF Comp!DiffPrefix
    <3>2. id \o <<0>> \in IdSet
      BY DEF IdSet
    <3> HIDE DEF new, IdSet
    <3>3. new[j] \in PItems /\ new[j].id = id \o <<0>>
      BY <2>0, <3>1, <3>2 DEF Comp!Instance, PItems, ConfItems
    <3> QED BY <2>0, <3>3
  <2>2. CASE olds # <<>>
    <3>3. new[j] = Comp!Reopted(olds[1], confs[1])
      BY <2>2 DEF Comp!DiffPrefix
    <3>4. olds[1] \in PItems
      <4> HIDE DEF PItems
      <4> QED BY <2>2
    <3> HIDE DEF new, IdSet
    <3>5. new[j] \in PItems /\ CompSame(new[j], olds[1])
      BY <2>0, <3>3, <3>4 DEF Comp!Reopted, PItems, ConfItems, CompSame
    <3> QED BY <2>0, <2>2, <3>5
  <2> QED BY <2>1, <2>2
<1>2. DOMAIN new = DOMAIN confs
  BY DEF Comp!DiffPrefix
<1>2b. new = [j \in DOMAIN confs |-> new[j]]
  BY DEF Comp!DiffPrefix
<1> HIDE DEF new
<1>3. new \in Seq(PItems)
  <2> HIDE DEF PItems
  <2>1. \A j \in 1..Len(confs) : new[j] \in PItems
    BY <1>0, <1>1
  <2>2. new \in [1..Len(confs) -> PItems]
    BY <1>0, <1>2, <1>2b, <2>1
  <2> QED BY <1>0, <2>2
<1>4. Len(new) = Len(confs)
  BY <1>0, <1>2, <1>3
<1> QED BY <1>1, <1>3, <1>4 DEF new

\* Where an item of the new cells comes from: a place of the old ones, or nowhere.
From(olds, confs, k, h, j, o, i) ==
  /\ o \in Comp!Finds(olds, confs, k) /\ Has(olds, o, h, i)
  /\ IF h = 0 THEN i \in Comp!Finds(olds[o].items, confs[k].items, j) ELSE i = 1 /\ j = 1
NewId(id, k, h, j) == IF h = 0 THEN (id \o <<k>>) \o <<j>> ELSE (id \o <<k>>) \o <<0>>

\* What DiffCell makes of one cell.
CellIs(olds, confs, id, k, c) ==
  /\ c \in Cells /\ c.label = confs[k].label /\ c.group = confs[k].group
  /\ Len(c.items) = Len(confs[k].items) /\ Len(c.prefix) = Len(confs[k].prefix)
  /\ \A j \in DOMAIN c.items : c.items[j].label = confs[k].items[j].label /\ c.items[j].opt = confs[k].items[j].opt
  /\ \A h \in {0, 1} : \A j \in DOMAIN Half(c, h) :
       \/ Half(c, h)[j].id = NewId(id, k, h, j)
       \/ \E o, i : From(olds, confs, k, h, j, o, i) /\ CompSame(Half(c, h)[j], It(olds, o, h, i))

\* A cell of the new panel is the difference of its prefix and of its items.
LEMMA DiffCellIs ==
  ASSUME NEW olds \in Seq(Cells), NEW confs \in Seq(ConfCells), NEW id \in IdSet, NEW k \in DOMAIN confs
  PROVE  CellIs(olds, confs, id, k, Comp!DiffCell(olds, confs, k, id \o <<k>>))
<1> DEFINE found == Comp!Finds(olds, confs, k) # {} /\ Comp!Found(olds, confs, k).group = confs[k].group
           old == IF found THEN Comp!Found(olds, confs, k) ELSE Comp!Blank
           cid == id \o <<k>>
           items == Comp!DiffItems(old.items, confs[k].items, cid)
           prefix == Comp!DiffPrefix(old.prefix, confs[k].prefix, cid)
           c == Comp!DiffCell(olds, confs, k, cid)
<1>1. c = [confs[k] EXCEPT !.items = items, !.prefix = prefix]
  BY DEF Comp!DiffCell
<1>2. confs[k] \in ConfCells /\ k \in Nat
  <2> HIDE DEF ConfCells
  <2> QED OBVIOUS
<1>3. cid \in IdSet
  BY <1>2 DEF IdSet
<1>4. /\ old.items \in Seq(PItems) /\ old.prefix \in Seq(PItems)
      /\ \/ old = Comp!Blank
         \/ \E o \in Comp!Finds(olds, confs, k) : old = olds[o] /\ o \in DOMAIN olds
  <2>1. CASE found
    <3>1. PICK o \in Comp!Finds(olds, confs, k) : TRUE
      BY <2>1
    <3>2. Comp!Found(olds, confs, k) = olds[o] /\ o \in DOMAIN olds
      BY <3>1, FoundIs
    <3>3. olds[o] \in Cells
      <4> HIDE DEF Cells
      <4> QED BY <3>2
    <3> HIDE DEF found
    <3> QED BY <2>1, <3>1, <3>2, <3>3 DEF Cells
  <2>2. CASE ~found
    <3> HIDE DEF found
    <3> QED BY <2>2 DEF Comp!Blank
  <2> QED BY <2>1, <2>2
<1> HIDE DEF found, old, cid, c
<1>5. confs[k].items \in Seq(ConfItems) /\ confs[k].prefix \in Seq(ConfItems) /\ Len(confs[k].prefix) <= 1
  BY <1>2 DEF ConfCells
<1>6. /\ items \in Seq(PItems) /\ Len(items) = Len(confs[k].items)
      /\ \A j \in DOMAIN confs[k].items :
           /\ items[j].label = confs[k].items[j].label /\ items[j].opt = confs[k].items[j].opt
           /\ \/ items[j].id = cid \o <<j>>
              \/ \E i \in Comp!Finds(old.items, confs[k].items, j) : CompSame(items[j], old.items[i])
  BY <1>3, <1>4, <1>5, DiffItemsAre
<1>7. /\ prefix \in Seq(PItems) /\ Len(prefix) = Len(confs[k].prefix)
      /\ \A j \in DOMAIN confs[k].prefix :
           /\ j = 1
           /\ (prefix[j].id = cid \o <<0>> \/ (old.prefix # <<>> /\ CompSame(prefix[j], old.prefix[1])))
  BY <1>3, <1>4, <1>5, DiffPrefixIs
<1> HIDE DEF items, prefix
<1>8. /\ c.items = items /\ c.prefix = prefix /\ c.label = confs[k].label /\ c.group = confs[k].group
      /\ DOMAIN items = DOMAIN confs[k].items /\ DOMAIN prefix = DOMAIN confs[k].prefix
  <2>1. c.items = items /\ c.prefix = prefix /\ c.label = confs[k].label /\ c.group = confs[k].group
    BY <1>1, <1>2 DEF ConfCells
  <2>2. DOMAIN items = DOMAIN confs[k].items /\ DOMAIN prefix = DOMAIN confs[k].prefix
    BY <1>5, <1>6, <1>7
  <2> QED BY <2>1, <2>2
<1>9. c \in Cells
  <2>1. c \in [label : STRING, group : BOOLEAN, items : Seq(PItems), prefix : Seq(PItems), menu : MenuNames]
    <3> HIDE DEF PItems
    <3>1. confs[k] \in [label : STRING, group : BOOLEAN, items : Seq(ConfItems), prefix : Seq(ConfItems), menu : MenuNames]
      BY <1>2 DEF ConfCells
    <3> HIDE DEF ConfItems
    <3> QED BY <1>1, <1>6, <1>7, <3>1
  <2>2. ~c.group => Len(c.items) = 1 /\ c.items[1].label = c.label
    <3> SUFFICES ASSUME ~c.group PROVE Len(c.items) = 1 /\ c.items[1].label = c.label
      OBVIOUS
    <3>1. Len(confs[k].items) = 1 /\ confs[k].items[1].label = confs[k].label
      BY <1>2, <1>8 DEF ConfCells
    <3>2. 1 \in DOMAIN confs[k].items
      BY <1>5, <3>1
    <3> QED BY <1>6, <1>8, <3>1, <3>2
  <2> QED BY <1>5, <1>7, <1>8, <2>1, <2>2 DEF Cells
<1>10. ASSUME NEW h \in {0, 1}, NEW j \in DOMAIN Half(c, h)
       PROVE  \/ Half(c, h)[j].id = NewId(id, k, h, j)
              \/ \E o, i : From(olds, confs, k, h, j, o, i) /\ CompSame(Half(c, h)[j], It(olds, o, h, i))
  <2>1. CASE h = 0
    <3>1. Half(c, h) = items /\ j \in DOMAIN confs[k].items
      BY <1>8, <2>1 DEF Half
    <3>2. CASE items[j].id = cid \o <<j>>
      BY <2>1, <3>1, <3>2 DEF NewId, cid
    <3>3. ASSUME NEW i \in Comp!Finds(old.items, confs[k].items, j), CompSame(items[j], old.items[i])
          PROVE  \E o, ii : From(olds, confs, k, h, j, o, ii) /\ CompSame(Half(c, h)[j], It(olds, o, h, ii))
      <4>1. i \in DOMAIN old.items
        BY DEF Comp!Finds
      <4>2. PICK o \in Comp!Finds(olds, confs, k) : old = olds[o] /\ o \in DOMAIN olds
        BY <1>4, <4>1 DEF Comp!Blank
      <4>3. From(olds, confs, k, h, j, o, i) /\ CompSame(Half(c, h)[j], It(olds, o, h, i))
        BY <2>1, <3>1, <3>3, <4>1, <4>2 DEF From, Has, Half, It
      <4> QED BY <4>3
    <3> QED BY <1>6, <3>1, <3>2, <3>3
  <2>2. CASE h = 1
    <3>1. Half(c, h) = prefix /\ j \in DOMAIN confs[k].prefix /\ j = 1
      BY <1>7, <1>8, <2>2 DEF Half
    <3>2. CASE prefix[j].id = cid \o <<0>>
      BY <2>2, <3>1, <3>2 DEF NewId, cid
    <3>3. CASE old.prefix # <<>> /\ CompSame(prefix[j], old.prefix[1])
      <4>1. 1 \in DOMAIN old.prefix
        BY <1>4, <3>3
      <4>2. PICK o \in Comp!Finds(olds, confs, k) : old = olds[o] /\ o \in DOMAIN olds
        BY <1>4, <4>1 DEF Comp!Blank
      <4>3. From(olds, confs, k, h, j, o, 1) /\ CompSame(Half(c, h)[j], It(olds, o, h, 1))
        BY <2>2, <3>1, <3>3, <4>1, <4>2 DEF From, Has, Half, It
      <4> QED BY <4>3
    <3> QED BY <1>7, <3>1, <3>2, <3>3
  <2> QED BY <2>1, <2>2
<1>11. \A j \in DOMAIN c.items : c.items[j].label = confs[k].items[j].label /\ c.items[j].opt = confs[k].items[j].opt
  BY <1>6, <1>8
<1> QED BY <1>6, <1>7, <1>8, <1>9, <1>10, <1>11 DEF CellIs, c, cid

\* What the sections of a file become, compared with those there were.
ReloadsTo(old, conf, n, new) ==
  \A s \in Comp!Section :
    /\ new[s] \in Seq(Cells) /\ DOMAIN new[s] = DOMAIN conf[s]
    /\ \A k \in DOMAIN conf[s] : CellIs(old[s], conf[s], <<n, s>>, k, new[s][k])

\* A section of the file becomes cells, each compared with those there were.
LEMMA DiffSectionIs ==
  ASSUME NEW olds \in Seq(Cells), NEW confs \in Seq(ConfCells), NEW id \in IdSet
  PROVE  /\ Comp!DiffSection(olds, confs, id) \in Seq(Cells) /\ DOMAIN Comp!DiffSection(olds, confs, id) = DOMAIN confs
         /\ \A k \in DOMAIN confs : CellIs(olds, confs, id, k, Comp!DiffSection(olds, confs, id)[k])
<1> HIDE DEF Cells, ConfCells
<1> DEFINE new == Comp!DiffSection(olds, confs, id)
<1>1. new = [k \in DOMAIN confs |-> Comp!DiffCell(olds, confs, k, id \o <<k>>)]
  BY DEF Comp!DiffSection
<1> HIDE DEF new
<1>2. \A k \in DOMAIN confs : CellIs(olds, confs, id, k, new[k])
  BY <1>1, DiffCellIs
<1>3. \A k \in DOMAIN confs : new[k] \in Cells
  BY <1>2 DEF CellIs
<1>4. DOMAIN confs = 1..Len(confs) /\ Len(confs) \in Nat
  OBVIOUS
<1>5. new \in [1..Len(confs) -> Cells]
  BY <1>1, <1>3, <1>4
<1>6. new \in Seq(Cells)
  BY <1>4, <1>5
<1> QED BY <1>1, <1>2, <1>6 DEF new

\* A reload, and the building of a panel, make of each section what DiffSection does.
LEMMA ReloadIs ==
  ASSUME NEW old \in [Comp!Section -> Seq(Cells)], NEW conf \in [Comp!Section -> Seq(ConfCells)], NEW n \in Nat
  PROVE  LET new == [s \in Comp!Section |-> Comp!DiffSection(old[s], conf[s], <<n, s>>)]
         IN  new \in [Comp!Section -> Seq(Cells)] /\ ReloadsTo(old, conf, n, new)
<1> DEFINE new == [s \in Comp!Section |-> Comp!DiffSection(old[s], conf[s], <<n, s>>)]
<1>1. ASSUME NEW s \in Comp!Section
      PROVE  /\ new[s] \in Seq(Cells) /\ DOMAIN new[s] = DOMAIN conf[s]
             /\ \A k \in DOMAIN conf[s] : CellIs(old[s], conf[s], <<n, s>>, k, new[s][k])
  <2>1. <<n, s>> \in IdSet
    BY DEF IdSet
  <2>2. old[s] \in Seq(Cells) /\ conf[s] \in Seq(ConfCells)
    <3> HIDE DEF Cells, ConfCells
    <3> QED OBVIOUS
  <2>3. new[s] = Comp!DiffSection(old[s], conf[s], <<n, s>>)
    OBVIOUS
  <2> HIDE DEF new
  <2>4. /\ Comp!DiffSection(old[s], conf[s], <<n, s>>) \in Seq(Cells) /\ DOMAIN Comp!DiffSection(old[s], conf[s], <<n, s>>) = DOMAIN conf[s]
        /\ \A k \in DOMAIN conf[s] : CellIs(old[s], conf[s], <<n, s>>, k, Comp!DiffSection(old[s], conf[s], <<n, s>>)[k])
    BY <2>1, <2>2, DiffSectionIs
  <2> QED BY <2>3, <2>4
<1>2. new \in [Comp!Section -> Seq(Cells)]
  <2> HIDE DEF Cells
  <2> QED BY <1>1
<1> HIDE DEF new
<1>3. ReloadsTo(old, conf, n, new)
  BY <1>1 DEF ReloadsTo
<1> QED BY <1>2, <1>3 DEF new

\* Where each item of the new cells has its id from.
LEMMA Origins ==
  ASSUME NEW old, NEW conf, NEW n, NEW new, ReloadsTo(old, conf, n, new),
         NEW s \in Comp!Section, NEW k, NEW h, NEW j, Has(new[s], k, h, j)
  PROVE  \/ It(new[s], k, h, j).id = NewId(<<n, s>>, k, h, j)
         \/ \E o, i : From(old[s], conf[s], k, h, j, o, i) /\ CompSame(It(new[s], k, h, j), It(old[s], o, h, i))
<1>1. k \in DOMAIN conf[s] /\ h \in {0, 1} /\ j \in DOMAIN Half(new[s][k], h)
  BY DEF Has, ReloadsTo
<1>2. CellIs(old[s], conf[s], <<n, s>>, k, new[s][k])
  BY <1>1 DEF ReloadsTo
<1> QED BY <1>1, <1>2 DEF CellIs, It

\* The places of the new cells are numbered, and a prefix has one.
LEMMA PlacesCount ==
  ASSUME NEW cells \in Seq(Cells), NEW k, NEW h, NEW j, Has(cells, k, h, j)
  PROVE  k \in Nat \ {0} /\ j \in Nat \ {0} /\ (h = 1 => j = 1)
<1>1. k \in DOMAIN cells
  BY DEF Has
<1>2. k \in Nat \ {0} /\ cells[k] \in Cells
  <2> HIDE DEF Cells
  <2> QED BY <1>1
<1>3. Half(cells[k], h) \in Seq(PItems) /\ (h = 1 => Len(Half(cells[k], h)) <= 1)
  BY <1>2 DEF Has, Half, Cells
<1>4. j \in DOMAIN Half(cells[k], h)
  BY DEF Has
<1> HIDE DEF PItems
<1> QED BY <1>2, <1>3, <1>4

\* An element at the end of a pair, and of a triple.
LEMMA PairAnd ==
  ASSUME NEW U, NEW a \in U, NEW b \in U, NEW c \in U, NEW x, x = <<a, b>> \o <<c>>
  PROVE  x \in Seq(U) /\ Len(x) = 3 /\ x[1] = a /\ x[2] = b /\ x[3] = c
<1>1. <<a, b>> \in Seq(U) /\ <<c>> \in Seq(U)
  OBVIOUS
<1> QED BY <1>1

\* The same of a triple.
LEMMA TripleAnd ==
  ASSUME NEW U, NEW y \in Seq(U), Len(y) = 3, NEW d \in U
  PROVE  LET x == y \o <<d>> IN x \in Seq(U) /\ Len(x) = 4 /\ x[1] = y[1] /\ x[2] = y[2] /\ x[3] = y[3] /\ x[4] = d
<1>1. <<d>> \in Seq(U) /\ Len(<<d>>) = 1 /\ <<d>>[1] = d
  OBVIOUS
<1> DEFINE x == y \o <<d>>
           z == <<d>>
<1> HIDE DEF z
<1>2. /\ y \o z \in Seq(U) /\ Len(y \o z) = Len(y) + Len(z)
      /\ \A i \in 1 .. Len(y) + Len(z) : (y \o z)[i] = IF i <= Len(y) THEN y[i] ELSE z[i - Len(y)]
  BY <1>1, ConcatProperties DEF z
<1>3. x = y \o z /\ Len(z) = 1 /\ z[1] = d
  BY DEF z
<1> HIDE DEF x
<1>4. x \in Seq(U) /\ Len(x) = 4 /\ \A i \in 1..4 : x[i] = IF i <= 3 THEN y[i] ELSE z[i - 3]
  BY <1>2, <1>3
<1> QED BY <1>3, <1>4 DEF x

\* What an id names: a reload, and a place in it.
Names(id, n, s, k, j) == id \in IdSet /\ id[1] = n /\ id[2] = s /\ id[3] = k /\ id[4] = j

\* A new id names its place, and the reload that gave it.
LEMMA NewIdNames ==
  ASSUME NEW n \in Nat, NEW s \in Comp!Section, NEW k \in Nat, NEW h \in {0, 1}, NEW j \in Nat
  PROVE  Names(NewId(<<n, s>>, k, h, j), n, s, k, IF h = 0 THEN j ELSE 0)
<1> DEFINE y == <<n, s>> \o <<k>>
           U == Nat \cup Comp!Section
           d == IF h = 0 THEN j ELSE 0
<1>0. n \in U /\ s \in U /\ k \in U /\ d \in U /\ IdSet = Seq(U)
  BY DEF IdSet
<1> HIDE DEF U
<1>2. NewId(<<n, s>>, k, h, j) = y \o <<d>> /\ y = <<n, s>> \o <<k>>
  BY DEF NewId
<1> HIDE DEF y, d
<1>1. y \in Seq(U) /\ Len(y) = 3 /\ y[1] = n /\ y[2] = s /\ y[3] = k
  BY <1>0, <1>2, PairAnd
<1>3. y \o <<d>> \in Seq(U) /\ (y \o <<d>>)[1] = y[1] /\ (y \o <<d>>)[2] = y[2] /\ (y \o <<d>>)[3] = y[3] /\ (y \o <<d>>)[4] = d
  BY <1>0, <1>1, TripleAnd
<1> QED BY <1>0, <1>1, <1>2, <1>3 DEF Names, d

\* No two items have one id after a reload.
LEMMA ReloadDistinct ==
  ASSUME NEW old \in [Comp!Section -> Seq(Cells)], NEW conf \in [Comp!Section -> Seq(ConfCells)], NEW n \in Nat,
         NEW new \in [Comp!Section -> Seq(Cells)], ReloadsTo(old, conf, n, new), Distinct(old), Born(old, n)
  PROVE  Distinct(new) /\ Born(new, n + 1)
<1>1. ASSUME NEW s \in Comp!Section, NEW k, NEW h, NEW j, Has(new[s], k, h, j),
             It(new[s], k, h, j).id = NewId(<<n, s>>, k, h, j)
      PROVE  /\ k \in Nat \ {0} /\ j \in Nat \ {0} /\ (h = 1 => j = 1) /\ h \in {0, 1}
             /\ Names(It(new[s], k, h, j).id, n, s, k, IF h = 0 THEN j ELSE 0)
  <2>a. Has(new[s], k, h, j)
    BY <1>1
  <2>0. h \in {0, 1}
    BY <2>a DEF Has
  <2>1. k \in Nat \ {0} /\ j \in Nat \ {0} /\ (h = 1 => j = 1)
    <3>1. new[s] \in Seq(Cells)
      <4> HIDE DEF Cells
      <4> QED OBVIOUS
    <3> QED BY <2>a, <3>1, PlacesCount
  <2>2. Names(NewId(<<n, s>>, k, h, j), n, s, k, IF h = 0 THEN j ELSE 0)
    BY <2>0, <2>1, NewIdNames
  <2> QED BY <1>1, <2>0, <2>1, <2>2
<1>2. ASSUME NEW s \in Comp!Section, NEW k, NEW h, NEW j, Has(new[s], k, h, j),
             NEW o, NEW i, From(old[s], conf[s], k, h, j, o, i), CompSame(It(new[s], k, h, j), It(old[s], o, h, i))
      PROVE  Has(old[s], o, h, i) /\ It(new[s], k, h, j).id = It(old[s], o, h, i).id /\ Early(It(new[s], k, h, j).id, n)
  <2>1. Has(old[s], o, h, i) /\ It(new[s], k, h, j).id = It(old[s], o, h, i).id
    BY <1>2 DEF From, CompSame
  <2> QED BY <2>1 DEF Born
<1>3. Born(new, n + 1)
  <2> SUFFICES ASSUME NEW s \in Comp!Section, NEW k, NEW h, NEW j, Has(new[s], k, h, j)
               PROVE  Early(It(new[s], k, h, j).id, n + 1)
    BY DEF Born
  <2>1. CASE It(new[s], k, h, j).id = NewId(<<n, s>>, k, h, j)
    <3>1. Names(It(new[s], k, h, j).id, n, s, k, IF h = 0 THEN j ELSE 0)
      BY <1>1, <2>1
    <3> QED BY <3>1 DEF Early, Names
  <2>2. ASSUME NEW o, NEW i, From(old[s], conf[s], k, h, j, o, i), CompSame(It(new[s], k, h, j), It(old[s], o, h, i))
        PROVE  Early(It(new[s], k, h, j).id, n + 1)
    <3>1. Early(It(new[s], k, h, j).id, n)
      BY <1>2, <2>2
    <3> QED BY <3>1 DEF Early
  <2> QED BY <2>1, <2>2, Origins
<1>4. Distinct(new)
  <2> SUFFICES ASSUME NEW s \in Comp!Section, NEW t \in Comp!Section, NEW k, NEW h, NEW j, NEW l, NEW g, NEW m,
                      Has(new[s], k, h, j), Has(new[t], l, g, m), It(new[s], k, h, j).id = It(new[t], l, g, m).id
               PROVE  s = t /\ k = l /\ h = g /\ j = m
    BY DEF Distinct
  <2>1. CASE /\ It(new[s], k, h, j).id = NewId(<<n, s>>, k, h, j)
             /\ It(new[t], l, g, m).id = NewId(<<n, t>>, l, g, m)
    <3>1. /\ k \in Nat \ {0} /\ j \in Nat \ {0} /\ (h = 1 => j = 1) /\ h \in {0, 1}
          /\ Names(It(new[s], k, h, j).id, n, s, k, IF h = 0 THEN j ELSE 0)
      BY <1>1, <2>1
    <3>2. /\ l \in Nat \ {0} /\ m \in Nat \ {0} /\ (g = 1 => m = 1) /\ g \in {0, 1}
          /\ Names(It(new[t], l, g, m).id, n, t, l, IF g = 0 THEN m ELSE 0)
      BY <1>1, <2>1
    <3>3. s = t /\ k = l /\ (IF h = 0 THEN j ELSE 0) = (IF g = 0 THEN m ELSE 0)
      BY <3>1, <3>2 DEF Names
    <3>4. h = g /\ j = m
      BY <3>1, <3>2, <3>3
    <3> QED BY <3>3, <3>4
  <2>2. ASSUME NEW o, NEW i, From(old[s], conf[s], k, h, j, o, i), CompSame(It(new[s], k, h, j), It(old[s], o, h, i)),
               It(new[t], l, g, m).id = NewId(<<n, t>>, l, g, m)
        PROVE  FALSE
    <3>1. Early(It(new[s], k, h, j).id, n)
      BY <1>2, <2>2
    <3>2. Names(It(new[t], l, g, m).id, n, t, l, IF g = 0 THEN m ELSE 0)
      BY <1>1, <2>2
    <3> QED BY <3>1, <3>2 DEF Early, Names
  <2>3. ASSUME NEW o, NEW i, From(old[t], conf[t], l, g, m, o, i), CompSame(It(new[t], l, g, m), It(old[t], o, g, i)),
               It(new[s], k, h, j).id = NewId(<<n, s>>, k, h, j)
        PROVE  FALSE
    <3>1. Early(It(new[t], l, g, m).id, n)
      BY <1>2, <2>3
    <3>2. Names(It(new[s], k, h, j).id, n, s, k, IF h = 0 THEN j ELSE 0)
      BY <1>1, <2>3
    <3> QED BY <3>1, <3>2 DEF Early, Names
  <2>4. ASSUME NEW o, NEW i, From(old[s], conf[s], k, h, j, o, i), CompSame(It(new[s], k, h, j), It(old[s], o, h, i)),
               NEW p, NEW q, From(old[t], conf[t], l, g, m, p, q), CompSame(It(new[t], l, g, m), It(old[t], p, g, q))
        PROVE  s = t /\ k = l /\ h = g /\ j = m
    <3>1. Has(old[s], o, h, i) /\ It(new[s], k, h, j).id = It(old[s], o, h, i).id
      BY <1>2, <2>4
    <3>2. Has(old[t], p, g, q) /\ It(new[t], l, g, m).id = It(old[t], p, g, q).id
      BY <1>2, <2>4
    <3>2b. It(old[s], o, h, i).id = It(old[t], p, g, q).id
      BY <3>1, <3>2
    <3>3. s = t /\ o = p /\ h = g /\ i = q
      BY <3>1, <3>2, <3>2b DEF Distinct
    <3>4. o \in Comp!Finds(old[s], conf[s], k) /\ o \in Comp!Finds(old[s], conf[s], l)
      BY <2>4, <3>3 DEF From
    <3>5. k \in DOMAIN conf[s] /\ l \in DOMAIN conf[s] /\ old[s] \in Seq(Cells) /\ conf[s] \in Seq(ConfCells)
      BY <3>3 DEF Has, ReloadsTo
    <3>6. k = l
      BY <3>4, <3>5, FindsOnce
    <3>7. CASE h = 0
      <4>1. /\ i \in Comp!Finds(old[s][o].items, conf[s][k].items, j)
            /\ i \in Comp!Finds(old[s][o].items, conf[s][k].items, m)
        BY <2>4, <3>3, <3>6, <3>7 DEF From
      <4>2. old[s][o] \in Cells /\ conf[s][k] \in ConfCells
        <5> HIDE DEF Cells, ConfCells
        <5> QED BY <3>1, <3>5 DEF Has
      <4>3. old[s][o].items \in Seq(PItems) /\ conf[s][k].items \in Seq(ConfItems)
        BY <4>2 DEF Cells, ConfCells
      <4>4. CellIs(old[s], conf[s], <<n, s>>, k, new[s][k])
        BY <3>5 DEF ReloadsTo
      <4>5. new[s][k].items \in Seq(PItems) /\ Len(new[s][k].items) = Len(conf[s][k].items)
        BY <4>4 DEF CellIs, Cells
      <4>6. DOMAIN new[s][k].items = DOMAIN conf[s][k].items
        <5> HIDE DEF PItems, ConfItems
        <5> QED BY <4>3, <4>5
      <4>7. j \in DOMAIN conf[s][k].items /\ m \in DOMAIN conf[s][k].items
        BY <3>3, <3>6, <3>7, <4>6 DEF Has, Half
      <4> HIDE DEF PItems, ConfItems
      <4>8. j = m
        BY <4>1, <4>3, <4>7, FindsOnce
      <4> QED BY <3>3, <3>6, <4>8
    <3>8. CASE h # 0
      <4>1. j = 1 /\ m = 1
        BY <2>4, <3>3, <3>8 DEF From
      <4> QED BY <3>3, <3>6, <4>1
    <3> QED BY <3>7, <3>8
  <2>5. \/ It(new[s], k, h, j).id = NewId(<<n, s>>, k, h, j)
        \/ \E o, i : From(old[s], conf[s], k, h, j, o, i) /\ CompSame(It(new[s], k, h, j), It(old[s], o, h, i))
    BY Origins
  <2>6. \/ It(new[t], l, g, m).id = NewId(<<n, t>>, l, g, m)
        \/ \E o, i : From(old[t], conf[t], l, g, m, o, i) /\ CompSame(It(new[t], l, g, m), It(old[t], o, g, i))
    BY Origins
  <2> QED BY <2>1, <2>2, <2>3, <2>4, <2>5, <2>6
<1> QED BY <1>3, <1>4

\* What is dropped was at a place that nothing new comes from.
LEMMA DroppedAre ==
  ASSUME NEW olds \in Seq(Cells), NEW confs, NEW d \in Comp!Dropped(olds, confs)
  PROVE  \E o, h, i : /\ Has(olds, o, h, i) /\ d = It(olds, o, h, i)
                      /\ \A k, j : ~From(olds, confs, k, h, j, o, i)
<1>0. \A o \in DOMAIN olds : olds[o].items \in Seq(PItems)
  <2> SUFFICES ASSUME NEW o \in DOMAIN olds PROVE olds[o].items \in Seq(PItems)
    OBVIOUS
  <2>1. olds[o] \in Cells
    <3> HIDE DEF Cells
    <3> QED OBVIOUS
  <2> QED BY <2>1 DEF Cells
<1>1. d \in UNION {Comp!ItemsOf(c) : c \in Comp!Overwritten(olds)} \/ d \in UNION {Comp!DroppedItems(olds[o]) : o \in Comp!Kept(olds, confs)}
  BY DEF Comp!Dropped
<1>2. ASSUME NEW c \in Comp!Overwritten(olds), d \in Comp!ItemsOf(c)
      PROVE  \E o, h, i : /\ Has(olds, o, h, i) /\ d = It(olds, o, h, i)
                          /\ \A k, j : ~From(olds, confs, k, h, j, o, i)
  <2>1. PICK o \in DOMAIN olds : c = olds[o] /\ \E l \in (o + 1)..Len(olds) : Comp!LabelAt(olds, l) = Comp!LabelAt(olds, o)
    BY DEF Comp!Overwritten
  <2>2. \A k : o \notin Comp!Finds(olds, confs, k)
    BY <2>1 DEF Comp!Finds
  <2>3. \E h \in {0, 1} : \E i \in DOMAIN Half(c, h) : d = Half(c, h)[i]
    BY <1>2 DEF Comp!ItemsOf, Comp!ToSet, Half
  <2>4. PICK h, i : h \in {0, 1} /\ i \in DOMAIN Half(c, h) /\ d = Half(c, h)[i]
    BY <2>3
  <2>5. Has(olds, o, h, i) /\ d = It(olds, o, h, i)
    BY <2>1, <2>4 DEF Has, It
  <2>6. \A k, j : ~From(olds, confs, k, h, j, o, i)
    BY <2>2 DEF From
  <2> QED BY <2>5, <2>6
<1>3. ASSUME NEW o \in Comp!Kept(olds, confs), d \in Comp!DroppedItems(olds[o])
      PROVE  \E oo, h, i : /\ Has(olds, oo, h, i) /\ d = It(olds, oo, h, i)
                           /\ \A k, j : ~From(olds, confs, k, h, j, oo, i)
  <2>1. o \in DOMAIN olds /\ d \in Comp!Overwritten(olds[o].items)
    BY <1>3 DEF Comp!DroppedItems, Comp!Kept
  <2>2. PICK i \in DOMAIN olds[o].items :
          d = olds[o].items[i] /\ \E l \in (i + 1)..Len(olds[o].items) : Comp!LabelAt(olds[o].items, l) = Comp!LabelAt(olds[o].items, i)
    BY <2>1 DEF Comp!Overwritten
  <2>3. \A c, j : i \notin Comp!Finds(olds[o].items, c, j)
    BY <1>0, <2>1, <2>2 DEF Comp!Finds
  <2>4. Has(olds, o, 0, i) /\ d = It(olds, o, 0, i)
    BY <2>1, <2>2 DEF Has, It, Half
  <2>5. \A k, j : ~From(olds, confs, k, 0, j, o, i)
    BY <2>3 DEF From
  <2> QED BY <2>4, <2>5
<1> QED BY <1>1, <1>2, <1>3

\* What the components that come, B, have to do with those that were there, A, and those dropped, D.
Comes(A, B, D, orph) ==
  /\ D \subseteq A
  /\ \A i, j \in A : i.id = j.id => i = j
  /\ \A i, j \in B : i.id = j.id => i = j
  /\ \A a \in A, b \in B : a.id = b.id => a.comp = b.comp
  /\ \A d \in D, b \in B : d.id # b.id
  /\ \A b \in B : b.id \notin orph

\* What comes with a reload.
LEMMA ReloadComes ==
  ASSUME NEW old \in [Comp!Section -> Seq(Cells)], NEW conf \in [Comp!Section -> Seq(ConfCells)], NEW n \in Nat,
         NEW new \in [Comp!Section -> Seq(Cells)], ReloadsTo(old, conf, n, new), Distinct(old), Born(old, n),
         NEW orph, \A o \in orph : Early(o, n), \A a \in Comp!PanelItems(old) : a.id \notin orph
  PROVE  Comes(Comp!PanelItems(old), Comp!PanelItems(new), UNION {Comp!Dropped(old[s], conf[s]) : s \in Comp!Section}, orph)
<1> DEFINE A == Comp!PanelItems(old)
           B == Comp!PanelItems(new)
           D == UNION {Comp!Dropped(old[s], conf[s]) : s \in Comp!Section}
<1>0. Distinct(new)
  BY ReloadDistinct
<1>1. ASSUME NEW d \in D
      PROVE  \E s \in Comp!Section : \E o, h, i :
               /\ Has(old[s], o, h, i) /\ d = It(old[s], o, h, i)
               /\ \A k, j : ~From(old[s], conf[s], k, h, j, o, i)
  <2>1. PICK s \in Comp!Section : d \in Comp!Dropped(old[s], conf[s])
    OBVIOUS
  <2>2. old[s] \in Seq(Cells)
    <3> HIDE DEF Cells
    <3> QED OBVIOUS
  <2> QED BY <2>1, <2>2, DroppedAre
<1>2. ASSUME NEW b \in B
      PROVE  \/ ~Early(b.id, n)
             \/ \E s \in Comp!Section : \E k, h, j, o, i :
                  /\ Has(new[s], k, h, j) /\ b = It(new[s], k, h, j)
                  /\ From(old[s], conf[s], k, h, j, o, i) /\ CompSame(b, It(old[s], o, h, i))
  <2>1a. PICK s \in Comp!Section : \E k, h, j : Has(new[s], k, h, j) /\ b = It(new[s], k, h, j)
    BY PlacesAre
  <2>1. PICK k, h, j : Has(new[s], k, h, j) /\ b = It(new[s], k, h, j)
    BY <2>1a
  <2>2. CASE b.id = NewId(<<n, s>>, k, h, j)
    <3>1. new[s] \in Seq(Cells)
      <4> HIDE DEF Cells
      <4> QED OBVIOUS
    <3>2. k \in Nat \ {0} /\ j \in Nat \ {0}
      BY <2>1, <3>1, PlacesCount
    <3>3. h \in {0, 1}
      BY <2>1 DEF Has
    <3>4. Names(NewId(<<n, s>>, k, h, j), n, s, k, IF h = 0 THEN j ELSE 0)
      BY <3>2, <3>3, NewIdNames
    <3> QED BY <2>2, <3>4 DEF Names, Early
  <2>3. ASSUME NEW o, NEW i, From(old[s], conf[s], k, h, j, o, i), CompSame(It(new[s], k, h, j), It(old[s], o, h, i))
        PROVE  \E ss \in Comp!Section : \E kk, hh, jj, oo, ii :
                 /\ Has(new[ss], kk, hh, jj) /\ b = It(new[ss], kk, hh, jj)
                 /\ From(old[ss], conf[ss], kk, hh, jj, oo, ii) /\ CompSame(b, It(old[ss], oo, hh, ii))
    BY <2>1, <2>3
  <2>4. \/ It(new[s], k, h, j).id = NewId(<<n, s>>, k, h, j)
        \/ \E o, i : From(old[s], conf[s], k, h, j, o, i) /\ CompSame(It(new[s], k, h, j), It(old[s], o, h, i))
    BY <2>1, Origins
  <2> QED BY <2>1, <2>2, <2>3, <2>4
<1>3. ASSUME NEW a \in A PROVE Early(a.id, n)
  <2>1a. PICK s \in Comp!Section : \E k, h, j : Has(old[s], k, h, j) /\ a = It(old[s], k, h, j)
    BY PlacesAre
  <2>1. PICK k, h, j : Has(old[s], k, h, j) /\ a = It(old[s], k, h, j)
    BY <2>1a
  <2> QED BY <2>1 DEF Born
<1>4. D \subseteq A
  BY <1>1, PlacesAre
<1>5. (\A i, j \in A : i.id = j.id => i = j) /\ (\A i, j \in B : i.id = j.id => i = j)
  BY <1>0, DistinctIsUnique
<1>6. ASSUME NEW b \in B, NEW s \in Comp!Section, NEW k, NEW h, NEW j, NEW o, NEW i,
             From(old[s], conf[s], k, h, j, o, i), CompSame(b, It(old[s], o, h, i))
      PROVE  It(old[s], o, h, i) \in A /\ It(old[s], o, h, i).id = b.id /\ It(old[s], o, h, i).comp = b.comp
  <2>1. Has(old[s], o, h, i)
    BY <1>6 DEF From
  <2>2. It(old[s], o, h, i) \in A
    BY <2>1, PlacesAre
  <2> QED BY <1>6, <2>2 DEF CompSame
<1>7. ASSUME NEW a \in A, NEW b \in B, a.id = b.id PROVE a.comp = b.comp
  <2>1. Early(b.id, n)
    BY <1>3, <1>7
  <2>2a. PICK s \in Comp!Section : \E k, h, j, o, i : From(old[s], conf[s], k, h, j, o, i) /\ CompSame(b, It(old[s], o, h, i))
    BY <1>2, <2>1
  <2>2. PICK k, h, j, o, i : From(old[s], conf[s], k, h, j, o, i) /\ CompSame(b, It(old[s], o, h, i))
    BY <2>2a
  <2>3. It(old[s], o, h, i) \in A /\ It(old[s], o, h, i).id = b.id /\ It(old[s], o, h, i).comp = b.comp
    BY <1>6, <2>2
  <2>4. a = It(old[s], o, h, i)
    BY <1>5, <1>7, <2>3
  <2> QED BY <2>3, <2>4
<1>8. ASSUME NEW d \in D, NEW b \in B, d.id = b.id PROVE FALSE
  <2>1. d \in A /\ Early(b.id, n)
    BY <1>3, <1>4, <1>8
  <2>2a. PICK s \in Comp!Section : \E k, h, j, o, i : From(old[s], conf[s], k, h, j, o, i) /\ CompSame(b, It(old[s], o, h, i))
    BY <1>2, <2>1
  <2>2. PICK k, h, j, o, i : From(old[s], conf[s], k, h, j, o, i) /\ CompSame(b, It(old[s], o, h, i))
    BY <2>2a
  <2>3. It(old[s], o, h, i).id = b.id /\ Has(old[s], o, h, i)
    <3>1. Has(old[s], o, h, i)
      BY <2>2 DEF From
    <3> QED BY <1>6, <2>2, <3>1
  <2>4a. PICK t \in Comp!Section : \E p, g, q :
           /\ Has(old[t], p, g, q) /\ d = It(old[t], p, g, q)
           /\ \A l, m : ~From(old[t], conf[t], l, g, m, p, q)
    BY <1>1
  <2>4. PICK p, g, q :
          /\ Has(old[t], p, g, q) /\ d = It(old[t], p, g, q)
          /\ \A l, m : ~From(old[t], conf[t], l, g, m, p, q)
    BY <2>4a
  <2>5. It(old[s], o, h, i).id = It(old[t], p, g, q).id
    BY <1>8, <2>3, <2>4
  <2>6. s = t /\ o = p /\ h = g /\ i = q
    BY <2>3, <2>4, <2>5 DEF Distinct
  <2> QED BY <2>2, <2>4, <2>6
<1>9. ASSUME NEW b \in B PROVE b.id \notin orph
  <2>1. CASE ~Early(b.id, n)
    BY <2>1
  <2>2. CASE Early(b.id, n)
    <3>2a. PICK s \in Comp!Section : \E k, h, j, o, i : From(old[s], conf[s], k, h, j, o, i) /\ CompSame(b, It(old[s], o, h, i))
      BY <1>2, <2>2
    <3>2. PICK k, h, j, o, i : From(old[s], conf[s], k, h, j, o, i) /\ CompSame(b, It(old[s], o, h, i))
      BY <3>2a
    <3>3. It(old[s], o, h, i) \in A /\ It(old[s], o, h, i).id = b.id
      BY <1>6, <3>2
    <3> QED BY <3>3
  <2> QED BY <2>1, <2>2
<1> HIDE DEF A, B, D
<1>10. Comes(A, B, D, orph)
  BY <1>4, <1>5, <1>7, <1>8, <1>9 DEF Comes
<1> QED BY <1>10 DEF A, B, D

\* Whatever comes, each clock keeps its timer, or gets one, and what goes loses its own.
LEMMA ClocksKeep ==
  ASSUME NEW secs, NEW dropped, Comes(Comp!PanelItems(sections), Comp!PanelItems(secs), dropped, orphans),
         \A a \in Comp!PanelItems(sections) : a.id \notin orphans,
         Comp!TimersAreTheClocks, Comp!Replaced(secs, dropped)
  PROVE  /\ {t.id : t \in timers'} = Comp!Ids(Comp!Timed(Comp!PanelItems(secs))) \cup orphans'
         /\ \A t, u \in timers' : t.id = u.id => t = u
         /\ \A b \in Comp!PanelItems(secs) : b.id \notin orphans'
<1> DEFINE A == Comp!PanelItems(sections)
           B == Comp!PanelItems(secs)
           D == dropped
           stopped == (Comp!Ids(A) \ Comp!Ids(B)) \ Comp!Ids(D)
           stay == {t \in timers : t.id \notin stopped}
           new == Comp!Started(B)
<1>1. timers' = stay \cup new /\ orphans' = orphans \cup Comp!Ids(Comp!Timed(D))
  BY DEF Comp!Replaced
<1>2. /\ D \subseteq A
      /\ \A i, j \in A : i.id = j.id => i = j
      /\ \A i, j \in B : i.id = j.id => i = j
      /\ \A a \in A, b \in B : a.id = b.id => a.comp = b.comp
      /\ \A d \in D, b \in B : d.id # b.id
      /\ \A b \in B : b.id \notin orphans
      /\ \A a \in A : a.id \notin orphans
  BY DEF Comes
<1>3. /\ \A t \in timers : t.id \in orphans \/ \E a \in A : a.comp = "clock" /\ a.id = t.id
      /\ \A a \in A : a.comp = "clock" => \E t \in timers : t.id = a.id
      /\ \A o \in orphans : \E t \in timers : t.id = o
      /\ \A t, u \in timers : t.id = u.id => t = u
  <2> HIDE DEF A
  <2>1. {t.id : t \in timers} = {a.id : a \in {i \in A : i.comp = "clock"}} \cup orphans
    BY DEF Comp!TimersAreTheClocks, Comp!Ids, Comp!Timed, A
  <2> QED BY <2>1 DEF Comp!TimersAreTheClocks
<1> HIDE DEF A, B, D
<1>4. \A x : x \in stopped <=> (\E a \in A : a.id = x) /\ (\A b \in B : b.id # x) /\ (\A d \in D : d.id # x)
  BY DEF Comp!Ids
<1>5. \A x : x \in Comp!Ids(Comp!Timed(D)) <=> \E d \in D : d.comp = "clock" /\ d.id = x
  BY DEF Comp!Ids, Comp!Timed
<1>6. \A x : x \in Comp!Ids(Comp!Timed(B)) <=> \E b \in B : b.comp = "clock" /\ b.id = x
  BY DEF Comp!Ids, Comp!Timed
<1>7. /\ \A u \in new : \E b \in B : b.comp = "clock" /\ u = [id |-> b.id, opt |-> b.opt] /\ \A t \in timers : t.id # b.id
      /\ \A b \in B : b.comp = "clock" /\ (\A t \in timers : t.id # b.id) => [id |-> b.id, opt |-> b.opt] \in new
  BY DEF Comp!Started, Comp!Timed
<1>8. \A u \in new : \E b \in B : b.comp = "clock" /\ u.id = b.id /\ u.opt = b.opt /\ \A t \in timers : t.id # b.id
  BY <1>7
<1>9. \A t : t \in stay <=> t \in timers /\ t.id \notin stopped
  OBVIOUS
<1> HIDE DEF new, stay, stopped
<1>10. \A t \in timers' : t.id \in Comp!Ids(Comp!Timed(B)) \/ t.id \in orphans'
  <2>1. ASSUME NEW t \in stay PROVE t.id \in Comp!Ids(Comp!Timed(B)) \/ t.id \in orphans'
    <3>1. CASE t.id \in orphans
      BY <1>1, <3>1
    <3>2. ASSUME NEW a \in A, a.comp = "clock", a.id = t.id
          PROVE t.id \in Comp!Ids(Comp!Timed(B)) \/ t.id \in orphans'
      <4>1. (\E b \in B : b.id = t.id) \/ (\E d \in D : d.id = t.id)
        BY <1>4, <1>9, <3>2
      <4>2. ASSUME NEW b \in B, b.id = t.id PROVE t.id \in Comp!Ids(Comp!Timed(B))
        <5>1. a.comp = b.comp
          BY <1>2, <3>2, <4>2
        <5> QED BY <1>6, <3>2, <4>2, <5>1
      <4>3. ASSUME NEW d \in D, d.id = t.id PROVE t.id \in orphans'
        <5>1. d = a
          BY <1>2, <3>2, <4>3
        <5> QED BY <1>1, <1>5, <3>2, <4>3, <5>1
      <4> QED BY <4>1, <4>2, <4>3
    <3> QED BY <1>3, <1>9, <3>1, <3>2
  <2>2. ASSUME NEW t \in new PROVE t.id \in Comp!Ids(Comp!Timed(B))
    BY <1>6, <1>8
  <2> QED BY <1>1, <2>1, <2>2
<1>11. \A x \in Comp!Ids(Comp!Timed(B)) : \E t \in timers' : t.id = x
  <2> SUFFICES ASSUME NEW b \in B, b.comp = "clock" PROVE \E t \in timers' : t.id = b.id
    BY <1>6
  <2>1. CASE \A t \in timers : t.id # b.id
    <3> DEFINE u == [id |-> b.id, opt |-> b.opt]
    <3>1. u \in new
      BY <1>7, <2>1
    <3>2. u.id = b.id
      OBVIOUS
    <3> HIDE DEF u
    <3> QED BY <1>1, <3>1, <3>2
  <2>2. ASSUME NEW t \in timers, t.id = b.id PROVE \E u \in timers' : u.id = b.id
    <3>1. t \in stay
      BY <1>4, <1>9, <2>2
    <3> QED BY <1>1, <2>2, <3>1
  <2> QED BY <2>1, <2>2
<1>12. \A x \in orphans' : \E t \in timers' : t.id = x
  <2>1. ASSUME NEW x \in orphans PROVE \E t \in timers' : t.id = x
    <3>1. PICK t \in timers : t.id = x
      BY <1>3
    <3>2. t \in stay
      BY <1>2, <1>4, <1>9, <3>1
    <3> QED BY <1>1, <3>1, <3>2
  <2>2. ASSUME NEW d \in D, d.comp = "clock" PROVE \E t \in timers' : t.id = d.id
    <3>1. PICK t \in timers : t.id = d.id
      BY <1>2, <1>3, <2>2
    <3>2. t \in stay
      BY <1>4, <1>9, <3>1
    <3> QED BY <1>1, <3>1, <3>2
  <2> QED BY <1>1, <1>5, <2>1, <2>2
<1>13. {t.id : t \in timers'} = Comp!Ids(Comp!Timed(B)) \cup orphans'
  <2>1. \A x : x \in {t.id : t \in timers'} <=> \E t \in timers' : t.id = x
    OBVIOUS
  <2> QED BY <1>10, <1>11, <1>12, <2>1
<1>14. ASSUME NEW t \in timers', NEW u \in timers', t.id = u.id PROVE t = u
  <2>1. CASE t \in stay /\ u \in stay
    BY <1>3, <1>9, <1>14, <2>1
  <2>2. CASE t \in new /\ u \in new
    <3>1. PICK b \in B : b.comp = "clock" /\ t = [id |-> b.id, opt |-> b.opt]
      BY <1>7, <2>2
    <3>2. PICK c \in B : c.comp = "clock" /\ u = [id |-> c.id, opt |-> c.opt]
      BY <1>7, <2>2
    <3>3. b.id = c.id
      BY <1>14, <3>1, <3>2
    <3>4. b = c
      BY <1>2, <3>3
    <3> QED BY <3>1, <3>2, <3>4
  <2>3. CASE t \in stay /\ u \in new
    BY <1>8, <1>9, <1>14, <2>3
  <2>4. CASE t \in new /\ u \in stay
    BY <1>8, <1>9, <1>14, <2>4
  <2> QED BY <1>1, <2>1, <2>2, <2>3, <2>4
<1>15. \A b \in B : b.id \notin orphans'
  BY <1>1, <1>2, <1>5
<1> QED BY <1>13, <1>14, <1>15 DEF B

\* An item of a panel is where it was, and no other is what it is.
DistinctIn(cells) ==
  \A k, h, j, l, g, i :
    Has(cells, k, h, j) /\ Has(cells, l, g, i) /\ It(cells, k, h, j).id = It(cells, l, g, i).id => k = l /\ h = g /\ j = i

SubOf(new, old) ==
  /\ new \in Seq(Cells)
  /\ \A k, h, j : Has(new, k, h, j) => \E o, i : Has(old, o, h, i) /\ It(new, k, h, j) = It(old, o, h, i)
  /\ DistinctIn(old) => DistinctIn(new)

\* Cells less some have their items less some.
LEMMA FewerCells ==
  ASSUME NEW cells \in Seq(Cells), NEW label
  PROVE  SubOf(Comp!Without(cells, label), cells)
<1> DEFINE new == Comp!Without(cells, label)
<1>1. new \in Seq(Cells) /\ \E f : Embeds(f, new, cells)
  <2> HIDE DEF Cells
  <2> QED BY CompWithoutIs
<1>2. PICK f : Embeds(f, new, cells)
  BY <1>1
<1> HIDE DEF new
<1>3. ASSUME NEW k, NEW h, NEW j, Has(new, k, h, j)
      PROVE  k \in DOMAIN new /\ Has(cells, f[k], h, j) /\ It(new, k, h, j) = It(cells, f[k], h, j)
  <2>1. k \in DOMAIN new /\ h \in {0, 1} /\ j \in DOMAIN Half(new[k], h)
    BY <1>3 DEF Has
  <2>2. f[k] \in DOMAIN cells /\ new[k] = cells[f[k]]
    BY <1>2, <2>1 DEF Embeds
  <2> QED BY <2>1, <2>2 DEF Has, It
<1>4. \A k, h, j : Has(new, k, h, j) => \E o, i : Has(cells, o, h, i) /\ It(new, k, h, j) = It(cells, o, h, i)
  BY <1>3
<1>5. ASSUME DistinctIn(cells), NEW k, NEW h, NEW j, NEW l, NEW g, NEW i,
             Has(new, k, h, j), Has(new, l, g, i), It(new, k, h, j).id = It(new, l, g, i).id
      PROVE  k = l /\ h = g /\ j = i
  <2>1. k \in DOMAIN new /\ Has(cells, f[k], h, j) /\ It(new, k, h, j) = It(cells, f[k], h, j)
    BY <1>3, <1>5
  <2>2. l \in DOMAIN new /\ Has(cells, f[l], g, i) /\ It(new, l, g, i) = It(cells, f[l], g, i)
    BY <1>3, <1>5
  <2>3. It(cells, f[k], h, j).id = It(cells, f[l], g, i).id
    BY <1>5, <2>1, <2>2
  <2>4. f[k] = f[l] /\ h = g /\ j = i
    BY <1>5, <2>1, <2>2, <2>3 DEF DistinctIn
  <2>5. k = l
    BY <1>2, <2>1, <2>2, <2>4 DEF Embeds
  <2> QED BY <2>4, <2>5
<1>6. SubOf(new, cells)
  BY <1>1, <1>4, <1>5 DEF SubOf, DistinctIn
<1> QED BY <1>6 DEF new

\* So has a group of which items go.
LEMMA FewerItems ==
  ASSUME NEW cells \in Seq(Cells), NEW label, NEW c \in DOMAIN cells, cells[c].group
  PROVE  SubOf([cells EXCEPT ![c].items = Comp!Without(@, label)], cells)
<1> DEFINE items == Comp!Without(cells[c].items, label)
           cell == [cells[c] EXCEPT !.items = items]
           new == [cells EXCEPT ![c] = cell]
<1>0. cells[c] \in Cells
  <2> HIDE DEF Cells
  <2> QED OBVIOUS
<1>1. cells[c].items \in Seq(PItems)
  BY <1>0 DEF Cells
<1>2. items \in Seq(PItems) /\ \E f : Embeds(f, items, cells[c].items)
  <2> HIDE DEF PItems
  <2> QED BY <1>1, CompWithoutIs
<1>3. PICK f : Embeds(f, items, cells[c].items)
  BY <1>2
<1> HIDE DEF items
<1>4. cell \in Cells /\ cell.items = items /\ cell.prefix = cells[c].prefix
  BY <1>0, <1>2 DEF Cells
<1> HIDE DEF cell
<1>5. new \in Seq(Cells) /\ DOMAIN new = DOMAIN cells /\ new[c] = cell /\ \A k \in DOMAIN cells \ {c} : new[k] = cells[k]
  <2> HIDE DEF Cells
  <2> QED BY <1>4
<1> HIDE DEF new
<1>6. ASSUME NEW k, NEW h, NEW j, Has(new, k, h, j)
      PROVE  \/ k = c /\ h = 0 /\ j \in DOMAIN items /\ Has(cells, c, 0, f[j]) /\ It(new, k, h, j) = It(cells, c, 0, f[j])
             \/ (k # c \/ h # 0) /\ Has(cells, k, h, j) /\ It(new, k, h, j) = It(cells, k, h, j)
  <2>1. k \in DOMAIN cells /\ h \in {0, 1} /\ j \in DOMAIN Half(new[k], h)
    BY <1>5, <1>6 DEF Has
  <2>2. CASE k = c /\ h = 0
    <3>1. Half(new[k], h) = items /\ Half(cells[c], 0) = cells[c].items
      BY <1>4, <1>5, <2>2 DEF Half
    <3>2. f[j] \in DOMAIN cells[c].items /\ items[j] = cells[c].items[f[j]]
      BY <1>3, <2>1, <3>1 DEF Embeds
    <3> QED BY <2>1, <2>2, <3>1, <3>2 DEF Has, It
  <2>3. CASE k = c /\ h # 0
    <3>1. Half(new[k], h) = Half(cells[k], h)
      BY <1>4, <1>5, <2>3 DEF Half
    <3> QED BY <2>1, <2>3, <3>1 DEF Has, It
  <2>4. CASE k # c
    <3>1. Half(new[k], h) = Half(cells[k], h)
      BY <1>5, <2>1, <2>4
    <3> QED BY <2>1, <2>4, <3>1 DEF Has, It
  <2> QED BY <2>2, <2>3, <2>4
<1>7. \A k, h, j : Has(new, k, h, j) => \E o, i : Has(cells, o, h, i) /\ It(new, k, h, j) = It(cells, o, h, i)
  BY <1>6
<1>8. ASSUME DistinctIn(cells), NEW k, NEW h, NEW j, NEW l, NEW g, NEW i,
             Has(new, k, h, j), Has(new, l, g, i), It(new, k, h, j).id = It(new, l, g, i).id
      PROVE  k = l /\ h = g /\ j = i
  <2>1. \/ k = c /\ h = 0 /\ j \in DOMAIN items /\ Has(cells, c, 0, f[j]) /\ It(new, k, h, j) = It(cells, c, 0, f[j])
        \/ (k # c \/ h # 0) /\ Has(cells, k, h, j) /\ It(new, k, h, j) = It(cells, k, h, j)
    BY <1>6, <1>8
  <2>2. \/ l = c /\ g = 0 /\ i \in DOMAIN items /\ Has(cells, c, 0, f[i]) /\ It(new, l, g, i) = It(cells, c, 0, f[i])
        \/ (l # c \/ g # 0) /\ Has(cells, l, g, i) /\ It(new, l, g, i) = It(cells, l, g, i)
    BY <1>6, <1>8
  <2>3. CASE /\ k = c /\ h = 0 /\ j \in DOMAIN items /\ Has(cells, c, 0, f[j]) /\ It(new, k, h, j) = It(cells, c, 0, f[j])
             /\ l = c /\ g = 0 /\ i \in DOMAIN items /\ Has(cells, c, 0, f[i]) /\ It(new, l, g, i) = It(cells, c, 0, f[i])
    <3>1. It(cells, c, 0, f[j]).id = It(cells, c, 0, f[i]).id
      BY <1>8, <2>3
    <3>2. f[j] = f[i]
      BY <1>8, <2>3, <3>1 DEF DistinctIn
    <3>3. j = i
      BY <1>3, <2>3, <3>2 DEF Embeds
    <3> QED BY <2>3, <3>3
  <2>4. CASE /\ k = c /\ h = 0 /\ Has(cells, c, 0, f[j]) /\ It(new, k, h, j) = It(cells, c, 0, f[j])
             /\ (l # c \/ g # 0) /\ Has(cells, l, g, i) /\ It(new, l, g, i) = It(cells, l, g, i)
    <3>1. It(cells, c, 0, f[j]).id = It(cells, l, g, i).id
      BY <1>8, <2>4
    <3> QED BY <1>8, <2>4, <3>1 DEF DistinctIn
  <2>5. CASE /\ l = c /\ g = 0 /\ Has(cells, c, 0, f[i]) /\ It(new, l, g, i) = It(cells, c, 0, f[i])
             /\ (k # c \/ h # 0) /\ Has(cells, k, h, j) /\ It(new, k, h, j) = It(cells, k, h, j)
    <3>1. It(cells, c, 0, f[i]).id = It(cells, k, h, j).id
      BY <1>8, <2>5
    <3> QED BY <1>8, <2>5, <3>1 DEF DistinctIn
  <2>6. CASE Has(cells, k, h, j) /\ It(new, k, h, j) = It(cells, k, h, j) /\ Has(cells, l, g, i) /\ It(new, l, g, i) = It(cells, l, g, i)
    <3>1. It(cells, k, h, j).id = It(cells, l, g, i).id
      BY <1>8, <2>6
    <3> QED BY <1>8, <2>6, <3>1 DEF DistinctIn
  <2> QED BY <2>1, <2>2, <2>3, <2>4, <2>5, <2>6
<1>9. SubOf(new, cells)
  BY <1>5, <1>7, <1>8 DEF SubOf, DistinctIn
<1>10. [cells EXCEPT ![c].items = Comp!Without(@, label)] = new
  BY DEF new, cell, items
<1> QED BY <1>9, <1>10

\* What is removed from a section leaves it some of its items.
LEMMA RemoveFromIs ==
  ASSUME NEW cells \in Seq(Cells), NEW s, NEW label
  PROVE  SubOf(Comp!RemoveFrom(cells, s, label), cells)
<1> DEFINE k == CHOOSE j \in DOMAIN cells : cells[j].label = s /\ \A l \in 1..(j - 1) : cells[l].label # s
<1>0. SubOf(cells, cells)
  BY DEF SubOf
<1>1. CASE ~\E j \in DOMAIN cells : cells[j].label = s
  BY <1>1, FewerCells DEF Comp!RemoveFrom
<1>2. CASE (\E j \in DOMAIN cells : cells[j].label = s)
  <2>0. Comp!RemoveFrom(cells, s, label) = IF cells[k].group THEN [cells EXCEPT ![k].items = Comp!Without(@, label)] ELSE cells
    BY <1>2 DEF Comp!RemoveFrom
  <2> HIDE DEF k
  <2>1. CASE ~cells[k].group
    BY <1>0, <2>0, <2>1
  <2>2. CASE cells[k].group /\ k \in DOMAIN cells
    <3>1. SubOf([cells EXCEPT ![k].items = Comp!Without(@, label)], cells)
      BY <2>2, FewerItems
    <3> QED BY <2>0, <2>2, <3>1
  <2>3. CASE k \notin DOMAIN cells
    <3>0. cells = [j \in DOMAIN cells |-> cells[j]]
      <4> HIDE DEF Cells
      <4> QED OBVIOUS
    <3>1. [cells EXCEPT ![k].items = Comp!Without(@, label)] = cells
      BY <2>3, <3>0
    <3> QED BY <1>0, <2>0, <3>1
  <2> QED BY <2>1, <2>2, <2>3
<1> QED BY <1>1, <1>2

\* What a panel's components may want to hear.
CompHeard == {"tick", "audio", "config.reload"}

\* The inductive invariant.
CompInv ==
  /\ sections \in [Comp!Section -> Seq(Cells)] /\ comp_count \in Nat
  /\ Distinct(sections) /\ Born(sections, comp_count)
  /\ \A o \in orphans : Early(o, comp_count)
  /\ \A a \in Comp!PanelItems(sections) : a.id \notin orphans
  /\ subscribed \subseteq CompHeard /\ comp_deployed \in BOOLEAN /\ muted \in BOOLEAN
  /\ Comp!TimersAreTheClocks /\ Comp!HearsForItsComponents

\* An empty panel has no items, distinct ids, and nothing younger than the counter.
LEMMA NoCellsAre ==
  /\ Comp!NoCells \in [Comp!Section -> Seq(Cells)] /\ Comp!PanelItems(Comp!NoCells) = {}
  /\ Distinct(Comp!NoCells) /\ \A n : Born(Comp!NoCells, n)
<1>1. <<>> \in Seq(Cells)
  <2> HIDE DEF Cells
  <2> QED OBVIOUS
<1>2. Comp!NoCells \in [Comp!Section -> Seq(Cells)]
  BY <1>1 DEF Comp!NoCells
<1>3. ASSUME NEW s \in Comp!Section, NEW k, NEW h, NEW j, Has(Comp!NoCells[s], k, h, j) PROVE FALSE
  <2>1. k \in DOMAIN Comp!NoCells[s] /\ Comp!NoCells[s] = <<>>
    BY <1>3 DEF Has, Comp!NoCells
  <2> QED BY <2>1
<1>4. Comp!PanelItems(Comp!NoCells) = {}
  BY <1>3, PlacesAre
<1> QED BY <1>2, <1>3, <1>4 DEF Distinct, Born

\* A panel that is built has items that are new.
LEMMA BuiltIs ==
  ASSUME NEW conf \in [Comp!Section -> Seq(ConfCells)], NEW n \in Nat
  PROVE  /\ Comp!Built(conf, n) \in [Comp!Section -> Seq(Cells)]
         /\ Distinct(Comp!Built(conf, n)) /\ Born(Comp!Built(conf, n), n + 1)
         /\ \A b \in Comp!PanelItems(Comp!Built(conf, n)) : ~Early(b.id, n)
<1> DEFINE new == [s \in Comp!Section |-> Comp!DiffSection(Comp!NoCells[s], conf[s], <<n, s>>)]
           secs == Comp!Built(conf, n)
<1>1. secs = new
  BY DEF Comp!NoCells, Comp!Built
<1>2. new \in [Comp!Section -> Seq(Cells)] /\ ReloadsTo(Comp!NoCells, conf, n, new)
  BY NoCellsAre, ReloadIs
<1> HIDE DEF new, secs
<1>3. secs \in [Comp!Section -> Seq(Cells)] /\ ReloadsTo(Comp!NoCells, conf, n, secs)
  BY <1>1, <1>2
<1>4. Distinct(secs) /\ Born(secs, n + 1)
  BY <1>3, NoCellsAre, ReloadDistinct
<1>5. ASSUME NEW b \in Comp!PanelItems(secs) PROVE ~Early(b.id, n)
  <2>1a. PICK s \in Comp!Section : \E k, h, j : Has(secs[s], k, h, j) /\ b = It(secs[s], k, h, j)
    BY PlacesAre
  <2>1. PICK k, h, j : Has(secs[s], k, h, j) /\ b = It(secs[s], k, h, j)
    BY <2>1a
  <2>2. CASE b.id = NewId(<<n, s>>, k, h, j)
    <3>1. secs[s] \in Seq(Cells)
      <4> HIDE DEF Cells
      <4> QED BY <1>3
    <3>2. k \in Nat \ {0} /\ j \in Nat \ {0}
      BY <2>1, <3>1, PlacesCount
    <3>3. h \in {0, 1}
      BY <2>1 DEF Has
    <3>4. Names(NewId(<<n, s>>, k, h, j), n, s, k, IF h = 0 THEN j ELSE 0)
      BY <3>2, <3>3, NewIdNames
    <3> QED BY <2>2, <3>4 DEF Names, Early
  <2>3. ASSUME NEW o, NEW i, From(Comp!NoCells[s], conf[s], k, h, j, o, i) PROVE FALSE
    <3>1. Has(Comp!NoCells[s], o, h, i)
      BY <2>3 DEF From
    <3>2. o \in DOMAIN Comp!NoCells[s] /\ Comp!NoCells[s] = <<>>
      BY <3>1 DEF Has, Comp!NoCells
    <3> QED BY <3>2
  <2>4. \/ It(secs[s], k, h, j).id = NewId(<<n, s>>, k, h, j)
        \/ \E o, i : From(Comp!NoCells[s], conf[s], k, h, j, o, i) /\ CompSame(It(secs[s], k, h, j), It(Comp!NoCells[s], o, h, i))
    BY <1>3, <2>1, Origins
  <2> QED BY <2>1, <2>2, <2>3, <2>4
<1> QED BY <1>3, <1>4, <1>5 DEF secs

\* What every step does to the parts of the invariant that are about items and timers.
CompSteps(secs) ==
  /\ sections' = secs /\ comp_count' \in Nat
  /\ secs \in [Comp!Section -> Seq(Cells)] /\ Distinct(secs) /\ Born(secs, comp_count')
  /\ \A o \in orphans' : Early(o, comp_count')
  /\ \A a \in Comp!PanelItems(secs) : a.id \notin orphans'
  /\ {t.id : t \in timers'} = Comp!Ids(Comp!Timed(Comp!PanelItems(secs))) \cup orphans'
  /\ \A t, u \in timers' : t.id = u.id => t = u

\* Replacing the sections and dropping what is gone keeps the panel's invariant.
LEMMA ReplacedKeeps ==
  ASSUME CompInv, NEW secs \in [Comp!Section -> Seq(Cells)], Distinct(secs), Born(secs, comp_count + 1),
         NEW dropped, Comes(Comp!PanelItems(sections), Comp!PanelItems(secs), dropped, orphans),
         Comp!Replaced(secs, dropped), comp_count' = comp_count + 1
  PROVE  CompSteps(secs)
<1>1. /\ {t.id : t \in timers'} = Comp!Ids(Comp!Timed(Comp!PanelItems(secs))) \cup orphans'
      /\ \A t, u \in timers' : t.id = u.id => t = u
      /\ \A b \in Comp!PanelItems(secs) : b.id \notin orphans'
  BY ClocksKeep DEF CompInv
<1>2. \A a \in Comp!PanelItems(sections) : Early(a.id, comp_count)
  <2> SUFFICES ASSUME NEW a \in Comp!PanelItems(sections) PROVE Early(a.id, comp_count)
    OBVIOUS
  <2>1a. PICK s \in Comp!Section : \E k, h, j : Has(sections[s], k, h, j) /\ a = It(sections[s], k, h, j)
    BY PlacesAre
  <2>1. PICK k, h, j : Has(sections[s], k, h, j) /\ a = It(sections[s], k, h, j)
    BY <2>1a
  <2> QED BY <2>1 DEF CompInv, Born
<1>3. \A o \in orphans' : Early(o, comp_count)
  <2>1. orphans' = orphans \cup Comp!Ids(Comp!Timed(dropped)) /\ dropped \subseteq Comp!PanelItems(sections)
    BY DEF Comp!Replaced, Comes
  <2>2. \A x \in Comp!Ids(Comp!Timed(dropped)) : \E d \in dropped : d.id = x
    BY DEF Comp!Ids, Comp!Timed
  <2>3. \A o \in orphans : Early(o, comp_count)
    BY DEF CompInv
  <2> QED BY <1>2, <2>1, <2>2, <2>3
<1>4. \A o \in orphans' : Early(o, comp_count')
  <2>1. comp_count \in Nat /\ comp_count' = comp_count + 1
    BY DEF CompInv
  <2> QED BY <1>3, <2>1 DEF Early
<1>5. comp_count' \in Nat /\ sections' = secs
  BY DEF CompInv, Comp!Replaced
<1> QED BY <1>1, <1>4, <1>5 DEF CompSteps

\* The events some items ask for are events a panel can hear.
LEMMA EventsAreHeard == \A items : Comp!Events(items) \subseteq CompHeard
BY DEF Comp!Events, CompHeard

\* With what it does to the rest, a step keeps the invariant.
LEMMA StepKeeps ==
  ASSUME NEW secs, CompSteps(secs), subscribed' \subseteq CompHeard, comp_deployed' \in BOOLEAN, muted' \in BOOLEAN,
         comp_deployed' /\ ~muted' => Comp!Events(Comp!PanelItems(secs)) \subseteq subscribed'
  PROVE  CompInv'
<1>1. sections' = secs
  BY DEF CompSteps
<1> QED BY <1>1 DEF CompSteps, CompInv, Comp!TimersAreTheClocks, Comp!HearsForItsComponents

\* The panel's invariant holds at the start.
LEMMA CompStarts == Comp!Init => CompInv
<1> SUFFICES ASSUME NEW conf \in Configs, sections = Comp!Built(conf, 0), comp_deployed = TRUE, orphans = {}, muted = FALSE, comp_count = 1,
                    timers = {[id |-> i.id, opt |-> i.opt] : i \in Comp!Timed(Comp!PanelItems(sections))},
                    subscribed = Comp!Events(Comp!PanelItems(sections))
             PROVE  CompInv
  BY DEF Comp!Init
<1>1. conf \in [Comp!Section -> Seq(ConfCells)]
  BY ComponentsAssumption
<1>2. sections \in [Comp!Section -> Seq(Cells)] /\ Distinct(sections) /\ Born(sections, 0 + 1)
  BY <1>1, BuiltIs
<1>3. Born(sections, comp_count)
  BY <1>2
<1>4. Comp!TimersAreTheClocks
  <2> DEFINE B == Comp!Timed(Comp!PanelItems(sections))
  <2>1. \A i, j \in B : i.id = j.id => i = j
    BY <1>2, DistinctIsUnique DEF Comp!Timed
  <2>2. timers = {[id |-> i.id, opt |-> i.opt] : i \in B}
    OBVIOUS
  <2> HIDE DEF B
  <2>3. \A t, u \in timers : t.id = u.id => t = u
    <3> SUFFICES ASSUME NEW i \in B, NEW j \in B, [id |-> i.id, opt |-> i.opt].id = [id |-> j.id, opt |-> j.opt].id
                 PROVE  [id |-> i.id, opt |-> i.opt] = [id |-> j.id, opt |-> j.opt]
      BY <2>2
    <3>1. i = j
      BY <2>1
    <3> QED BY <3>1
  <2>4. {t.id : t \in timers} = {i.id : i \in B}
    <3>1. \A t \in timers : \E i \in B : t.id = i.id
      BY <2>2
    <3>2. \A i \in B : [id |-> i.id, opt |-> i.opt] \in timers /\ [id |-> i.id, opt |-> i.opt].id = i.id
      BY <2>2
    <3>3. \A i \in B : \E t \in timers : t.id = i.id
      BY <3>2
    <3> QED BY <3>1, <3>3
  <2>5. {t.id : t \in timers} = Comp!Ids(B) \cup orphans
    BY <2>4 DEF Comp!Ids
  <2> QED BY <2>3, <2>5 DEF Comp!TimersAreTheClocks, B
<1>5. Comp!HearsForItsComponents
  BY DEF Comp!HearsForItsComponents
<1> QED BY <1>2, <1>3, <1>4, <1>5, EventsAreHeard DEF CompInv

----------------------------------------------------------------------------

\* A reload, by the file or a command.
LEMMA ReloadKeeps ==
  ASSUME CompInv, NEW conf \in Configs, NEW command \in BOOLEAN, Comp!Reload(conf, command)
  PROVE  CompInv'
<1> DEFINE secs == [s \in Comp!Section |-> Comp!DiffSection(sections[s], conf[s], <<comp_count, s>>)]
           dropped == UNION {Comp!Dropped(sections[s], conf[s]) : s \in Comp!Section}
           answered == Comp!Answered(secs, command)
           speaks == Comp!Changed(secs, dropped) /\ ~answered
<1>0. conf \in [Comp!Section -> Seq(ConfCells)]
  BY ComponentsAssumption
<1>1. /\ comp_count' = comp_count + 1 /\ comp_deployed /\ comp_deployed' = comp_deployed
      /\ Comp!Replaced(secs, dropped)
      /\ IF speaks THEN Comp!Subscribe(secs) ELSE UNCHANGED subscribed
      /\ muted' = (~speaks /\ (muted \/ answered))
  BY DEF Comp!Reload, Comp!Counted
<1>2. secs \in [Comp!Section -> Seq(Cells)] /\ ReloadsTo(sections, conf, comp_count, secs)
  BY <1>0, ReloadIs DEF CompInv
<1>3. answered \in BOOLEAN /\ speaks \in BOOLEAN /\ (answered \/ speaks \/ ~Comp!Changed(secs, dropped))
  BY DEF Comp!Answered
<1> HIDE DEF secs, answered, speaks
<1>4. Distinct(secs) /\ Born(secs, comp_count + 1)
  BY <1>0, <1>2, ReloadDistinct DEF CompInv
<1>5. Comes(Comp!PanelItems(sections), Comp!PanelItems(secs), dropped, orphans)
  BY <1>0, <1>2, ReloadComes DEF CompInv
<1> HIDE DEF dropped
<1>6. CompSteps(secs)
  BY <1>1, <1>2, <1>4, <1>5, ReplacedKeeps
<1>7. /\ subscribed' \subseteq CompHeard /\ comp_deployed' \in BOOLEAN /\ muted' \in BOOLEAN
      /\ (comp_deployed' /\ ~muted' => Comp!Events(Comp!PanelItems(secs)) \subseteq subscribed')
  <2>1. CASE speaks
    BY <1>1, <2>1, EventsAreHeard DEF Comp!Subscribe, CompInv
  <2>2. CASE ~speaks
    <3>1. subscribed' = subscribed /\ muted' = (muted \/ answered)
      BY <1>1, <2>2
    <3>2. subscribed \subseteq CompHeard /\ muted' \in BOOLEAN
      BY <1>3, <3>1 DEF CompInv
    <3>3. ASSUME ~muted' PROVE Comp!Events(Comp!PanelItems(secs)) \subseteq subscribed
      <4>1. ~muted /\ ~answered /\ ~Comp!Changed(secs, dropped)
        BY <1>3, <2>2, <3>1, <3>3
      <4>2. Comp!PanelItems(secs) \subseteq Comp!PanelItems(sections)
        BY <4>1 DEF Comp!Changed
      <4>3. Comp!Events(Comp!PanelItems(secs)) \subseteq Comp!Events(Comp!PanelItems(sections))
        BY <4>2 DEF Comp!Events
      <4>4. Comp!Events(Comp!PanelItems(sections)) \subseteq subscribed
        BY <1>1, <4>1 DEF CompInv, Comp!HearsForItsComponents
      <4> QED BY <4>3, <4>4
    <3> QED BY <1>1, <3>1, <3>2, <3>3 DEF CompInv
  <2> QED BY <1>3, <2>1, <2>2
<1> QED BY <1>6, <1>7, StepKeeps

\* One cell with one item more, whose id nothing has.
OneMore(old, new, s, m, item) ==
  \A t \in Comp!Section : \A k, h, j :
    Has(new[t], k, h, j) =>
      \/ Has(old[t], k, h, j) /\ It(new[t], k, h, j) = It(old[t], k, h, j)
      \/ t = s /\ k = m /\ h = 0 /\ j = 1 /\ It(new[t], k, h, j) = item

\* An item with an id younger than the counter keeps the ids distinct.
LEMMA OneMoreDistinct ==
  ASSUME NEW old, NEW new, NEW s \in Comp!Section, NEW m, NEW item, NEW c, OneMore(old, new, s, m, item),
         Distinct(old), Born(old, c), ~Early(item.id, c)
  PROVE  Distinct(new)
<1>1. ASSUME NEW t \in Comp!Section, NEW u \in Comp!Section, NEW k, NEW h, NEW j, NEW l, NEW g, NEW i,
             Has(new[t], k, h, j), Has(new[u], l, g, i), It(new[t], k, h, j).id = It(new[u], l, g, i).id
      PROVE  t = u /\ k = l /\ h = g /\ j = i
  <2>1. \/ Has(old[t], k, h, j) /\ It(new[t], k, h, j) = It(old[t], k, h, j)
        \/ t = s /\ k = m /\ h = 0 /\ j = 1 /\ It(new[t], k, h, j) = item
    BY <1>1 DEF OneMore
  <2>2. \/ Has(old[u], l, g, i) /\ It(new[u], l, g, i) = It(old[u], l, g, i)
        \/ u = s /\ l = m /\ g = 0 /\ i = 1 /\ It(new[u], l, g, i) = item
    BY <1>1 DEF OneMore
  <2>3. CASE /\ Has(old[t], k, h, j) /\ It(new[t], k, h, j) = It(old[t], k, h, j)
             /\ Has(old[u], l, g, i) /\ It(new[u], l, g, i) = It(old[u], l, g, i)
    <3>1. It(old[t], k, h, j).id = It(old[u], l, g, i).id
      BY <1>1, <2>3
    <3> QED BY <2>3, <3>1 DEF Distinct
  <2>4. Has(old[t], k, h, j) => Early(It(old[t], k, h, j).id, c)
    BY DEF Born
  <2>5. Has(old[u], l, g, i) => Early(It(old[u], l, g, i).id, c)
    BY DEF Born
  <2> QED BY <1>1, <2>1, <2>2, <2>3, <2>4, <2>5
<1> QED BY <1>1 DEF Distinct

\* An item that is added.
LEMMA AddKeeps ==
  ASSUME CompInv, Comp!AddItem
  PROVE  CompInv'
<1> PICK s \in Comp!Section, conf \in NewItems :
      LET secs == [sections EXCEPT ![s] = Append(@, Comp!Cell(Comp!Instance(conf, <<comp_count, s, 0, 0>>)))]
      IN  /\ Comp!Counted /\ comp_deployed /\ Comp!Replaced(secs, {}) /\ Comp!Subscribe(secs) /\ muted' = FALSE
          /\ UNCHANGED <<comp_conf, comp_deployed>>
  BY DEF Comp!AddItem
<1> DEFINE id == <<comp_count, s, 0, 0>>
           item == Comp!Instance(conf, id)
           cell == Comp!Cell(item)
           secs == [sections EXCEPT ![s] = Append(@, cell)]
           n == Len(sections[s])
<1>1. /\ comp_count' = comp_count + 1 /\ comp_deployed' = comp_deployed /\ comp_deployed /\ muted' = FALSE
      /\ Comp!Replaced(secs, {}) /\ subscribed' = Comp!Events(Comp!PanelItems(secs))
  BY DEF Comp!Counted, Comp!Subscribe
<1>2. id \in IdSet /\ id[1] = comp_count /\ comp_count \in Nat
  BY DEF IdSet, CompInv
<1> HIDE DEF id
<1>3. item \in PItems /\ item.id = id
  <2>1. conf \in ConfItems
    BY ComponentsAssumption
  <2> HIDE DEF IdSet
  <2> QED BY <1>2, <2>1 DEF Comp!Instance, PItems, ConfItems, IdSet
<1> HIDE DEF item
<1>4. cell \in Cells /\ cell.items = <<item>> /\ cell.prefix = <<>>
  <2>1. <<item>> \in Seq(PItems) /\ <<>> \in Seq(PItems) /\ Len(<<item>>) = 1 /\ Len(<<>>) = 0 /\ <<item>>[1] = item
    <3> HIDE DEF PItems
    <3> QED BY <1>3
  <2>2. item.label \in STRING /\ "none" \in MenuNames
    BY <1>3 DEF PItems, MenuNames
  <2> HIDE DEF PItems, MenuNames
  <2> QED BY <2>1, <2>2 DEF Comp!Cell, Cells, MenuNames
<1> HIDE DEF cell
<1>5. sections \in [Comp!Section -> Seq(Cells)] /\ sections[s] \in Seq(Cells) /\ n \in Nat /\ DOMAIN sections[s] = 1..n
  <2> HIDE DEF Cells
  <2>1. sections \in [Comp!Section -> Seq(Cells)]
    BY DEF CompInv
  <2>2. sections[s] \in Seq(Cells)
    BY <2>1
  <2> QED BY <2>1, <2>2
<1>6. /\ secs \in [Comp!Section -> Seq(Cells)] /\ DOMAIN secs[s] = 1..n + 1 /\ secs[s][n + 1] = cell
      /\ \A k \in 1..n : secs[s][k] = sections[s][k]
      /\ \A t \in Comp!Section \ {s} : secs[t] = sections[t]
  <2> DEFINE more == Append(sections[s], cell)
  <2>1. more \in Seq(Cells) /\ DOMAIN more = 1..n + 1 /\ more[n + 1] = cell /\ \A k \in 1..n : more[k] = sections[s][k]
    <3> HIDE DEF Cells
    <3> QED BY <1>4, <1>5
  <2> HIDE DEF more
  <2>2. secs = [sections EXCEPT ![s] = more]
    BY DEF more
  <2>3. secs \in [Comp!Section -> Seq(Cells)] /\ secs[s] = more /\ \A t \in Comp!Section \ {s} : secs[t] = sections[t]
    <3> HIDE DEF Cells, secs
    <3> QED BY <1>5, <2>1, <2>2
  <2> HIDE DEF secs
  <2> QED BY <2>1, <2>3
<1> HIDE DEF secs, n
<1>7. ASSUME NEW t \in Comp!Section, NEW k, NEW h, NEW j, Has(secs[t], k, h, j)
      PROVE  \/ Has(sections[t], k, h, j) /\ It(secs[t], k, h, j) = It(sections[t], k, h, j)
             \/ t = s /\ k = n + 1 /\ h = 0 /\ j = 1 /\ It(secs[t], k, h, j) = item
  <2>1. k \in DOMAIN secs[t] /\ h \in {0, 1} /\ j \in DOMAIN Half(secs[t][k], h)
    BY <1>7 DEF Has
  <2>2. CASE t # s
    <3>1. secs[t] = sections[t]
      BY <1>6, <2>2
    <3> QED BY <1>7, <3>1
  <2>3. CASE t = s /\ k # n + 1
    <3>1. k \in 1..n
      BY <1>5, <1>6, <2>1, <2>3
    <3>2. secs[t][k] = sections[t][k] /\ k \in DOMAIN sections[t]
      BY <1>5, <1>6, <2>3, <3>1
    <3> QED BY <2>1, <3>2 DEF Has, It
  <2>4. CASE t = s /\ k = n + 1
    <3>1. secs[t][k] = cell
      BY <1>6, <2>4
    <3>2. CASE h = 0
      <4>1. Half(secs[t][k], h) = <<item>>
        BY <1>4, <3>1, <3>2 DEF Half
      <4>2. j = 1 /\ It(secs[t], k, h, j) = item
        BY <2>1, <4>1 DEF It
      <4> QED BY <2>4, <3>2, <4>2
    <3>3. CASE h = 1
      <4>1. Half(secs[t][k], h) = <<>>
        BY <1>4, <3>1, <3>3 DEF Half
      <4> QED BY <2>1, <4>1
    <3> QED BY <2>1, <3>2, <3>3
  <2> QED BY <2>2, <2>3, <2>4
<1>8. \A t \in Comp!Section : \A k, h, j : Has(sections[t], k, h, j) => Early(It(sections[t], k, h, j).id, comp_count)
  BY DEF CompInv, Born
<1>9. ~Early(item.id, comp_count) /\ Early(item.id, comp_count + 1)
  BY <1>2, <1>3 DEF Early
<1>10. Born(secs, comp_count + 1)
  <2> SUFFICES ASSUME NEW t \in Comp!Section, NEW k, NEW h, NEW j, Has(secs[t], k, h, j)
               PROVE  Early(It(secs[t], k, h, j).id, comp_count + 1)
    BY DEF Born
  <2>1. CASE Has(sections[t], k, h, j) /\ It(secs[t], k, h, j) = It(sections[t], k, h, j)
    <3>1. Early(It(secs[t], k, h, j).id, comp_count)
      BY <1>8, <2>1
    <3> QED BY <1>2, <3>1 DEF Early
  <2> QED BY <1>7, <1>9, <2>1
<1>11. Distinct(secs)
  <2>1. OneMore(sections, secs, s, n + 1, item)
    BY <1>7 DEF OneMore
  <2>2. Distinct(sections) /\ Born(sections, comp_count)
    BY DEF CompInv
  <2> HIDE DEF item, secs, n
  <2> QED BY <1>9, <2>1, <2>2, OneMoreDistinct
<1>12. ASSUME NEW b \in Comp!PanelItems(secs) PROVE b \in Comp!PanelItems(sections) \/ b = item
  <2>1a. PICK t \in Comp!Section : \E k, h, j : Has(secs[t], k, h, j) /\ b = It(secs[t], k, h, j)
    BY PlacesAre
  <2>1. PICK k, h, j : Has(secs[t], k, h, j) /\ b = It(secs[t], k, h, j)
    BY <2>1a
  <2> QED BY <1>7, <2>1, PlacesAre
<1>13. \A a \in Comp!PanelItems(sections) : Early(a.id, comp_count)
  BY <1>8, PlacesAre
<1>14. Comes(Comp!PanelItems(sections), Comp!PanelItems(secs), {}, orphans)
  <2>1. /\ \A i, j \in Comp!PanelItems(sections) : i.id = j.id => i = j
        /\ \A i, j \in Comp!PanelItems(secs) : i.id = j.id => i = j
    BY <1>11, DistinctIsUnique DEF CompInv
  <2>2. \A a \in Comp!PanelItems(sections), b \in Comp!PanelItems(secs) : a.id = b.id => a.comp = b.comp
    BY <1>9, <1>12, <1>13, <2>1
  <2>3. \A b \in Comp!PanelItems(secs) : b.id \notin orphans
    <3>1. \A o \in orphans : Early(o, comp_count)
      BY DEF CompInv
    <3>2. \A a \in Comp!PanelItems(sections) : a.id \notin orphans
      BY DEF CompInv
    <3> QED BY <1>9, <1>12, <3>1, <3>2
  <2> QED BY <2>1, <2>2, <2>3 DEF Comes
<1>15. CompSteps(secs)
  BY <1>1, <1>6, <1>10, <1>11, <1>14, ReplacedKeeps
<1> QED BY <1>1, <1>15, EventsAreHeard, StepKeeps

\* What comes when some items go: some of those there were.
LEMMA FewerComes ==
  ASSUME CompInv, NEW secs \in [Comp!Section -> Seq(Cells)], Distinct(secs), Comp!PanelItems(secs) \subseteq Comp!PanelItems(sections),
         NEW dropped \in SUBSET Comp!PanelItems(sections), dropped = {} \/ Comp!PanelItems(secs) = {}
  PROVE  Comes(Comp!PanelItems(sections), Comp!PanelItems(secs), dropped, orphans)
<1>1. \A i, j \in Comp!PanelItems(sections) : i.id = j.id => i = j
  BY DistinctIsUnique DEF CompInv
<1>2. \A a \in Comp!PanelItems(sections) : a.id \notin orphans
  BY DEF CompInv
<1> QED BY <1>1, <1>2 DEF Comes

\* An item that is removed.
LEMMA RemoveKeeps ==
  ASSUME CompInv, Comp!RemoveItem
  PROVE  CompInv'
<1> PICK s \in {"left", "right", "a"}, label \in {"a", "b", "x"} :
      LET secs == [sections EXCEPT ![Comp!Target(s)] = Comp!RemoveFrom(@, s, label)]
      IN  /\ Comp!Counted /\ comp_deployed /\ Comp!Replaced(secs, {}) /\ Comp!Subscribe(secs) /\ muted' = FALSE
          /\ UNCHANGED <<comp_conf, comp_deployed>>
  BY DEF Comp!RemoveItem
<1> DEFINE u == Comp!Target(s)
           secs == [sections EXCEPT ![u] = Comp!RemoveFrom(@, s, label)]
<1>1. /\ comp_count' = comp_count + 1 /\ comp_deployed' = comp_deployed /\ comp_deployed /\ muted' = FALSE
      /\ Comp!Replaced(secs, {}) /\ subscribed' = Comp!Events(Comp!PanelItems(secs))
  BY DEF Comp!Counted, Comp!Subscribe
<1>2. u \in Comp!Section
  BY DEF Comp!Target, Comp!Section
<1> HIDE DEF u
<1>3. sections \in [Comp!Section -> Seq(Cells)] /\ sections[u] \in Seq(Cells)
  <2> HIDE DEF Cells
  <2>1. sections \in [Comp!Section -> Seq(Cells)]
    BY DEF CompInv
  <2> QED BY <1>2, <2>1
<1>4. SubOf(Comp!RemoveFrom(sections[u], s, label), sections[u])
  BY <1>3, RemoveFromIs
<1>5. secs \in [Comp!Section -> Seq(Cells)] /\ secs[u] = Comp!RemoveFrom(sections[u], s, label) /\ \A t \in Comp!Section \ {u} : secs[t] = sections[t]
  <2>1. Comp!RemoveFrom(sections[u], s, label) \in Seq(Cells)
    BY <1>4 DEF SubOf
  <2> HIDE DEF Cells
  <2> QED BY <1>2, <1>3, <2>1
<1> HIDE DEF secs
<1>6. ASSUME NEW t \in Comp!Section, NEW k, NEW h, NEW j, Has(secs[t], k, h, j)
      PROVE  \E o, i : Has(sections[t], o, h, i) /\ It(secs[t], k, h, j) = It(sections[t], o, h, i)
  <2>1. CASE t = u
    BY <1>4, <1>5, <1>6, <2>1 DEF SubOf
  <2>2. CASE t # u
    BY <1>5, <1>6, <2>2
  <2> QED BY <2>1, <2>2
<1>7. Distinct(sections) /\ Born(sections, comp_count) /\ comp_count \in Nat
  BY DEF CompInv
<1>8. \A t \in Comp!Section : DistinctIn(secs[t])
  <2>1. \A t \in Comp!Section : DistinctIn(sections[t])
    BY <1>7 DEF Distinct, DistinctIn
  <2>2. DistinctIn(secs[u])
    BY <1>2, <1>4, <1>5, <2>1 DEF SubOf
  <2> QED BY <1>5, <2>1, <2>2
<1>9. Distinct(secs)
  <2> SUFFICES ASSUME NEW t \in Comp!Section, NEW v \in Comp!Section, NEW k, NEW h, NEW j, NEW l, NEW g, NEW i,
                      Has(secs[t], k, h, j), Has(secs[v], l, g, i), It(secs[t], k, h, j).id = It(secs[v], l, g, i).id
               PROVE  t = v /\ k = l /\ h = g /\ j = i
    BY DEF Distinct
  <2>1. PICK o, p : Has(sections[t], o, h, p) /\ It(secs[t], k, h, j) = It(sections[t], o, h, p)
    BY <1>6
  <2>2. PICK q, r : Has(sections[v], q, g, r) /\ It(secs[v], l, g, i) = It(sections[v], q, g, r)
    BY <1>6
  <2>3. It(sections[t], o, h, p).id = It(sections[v], q, g, r).id
    BY <2>1, <2>2
  <2>4. t = v
    BY <1>7, <2>1, <2>2, <2>3 DEF Distinct
  <2>5. DistinctIn(secs[t])
    BY <1>8
  <2> QED BY <2>4, <2>5 DEF DistinctIn
<1>10. Born(secs, comp_count + 1)
  <2> SUFFICES ASSUME NEW t \in Comp!Section, NEW k, NEW h, NEW j, Has(secs[t], k, h, j)
               PROVE  Early(It(secs[t], k, h, j).id, comp_count + 1)
    BY DEF Born
  <2>1. PICK o, p : Has(sections[t], o, h, p) /\ It(secs[t], k, h, j) = It(sections[t], o, h, p)
    BY <1>6
  <2>2. Early(It(secs[t], k, h, j).id, comp_count)
    BY <1>7, <2>1 DEF Born
  <2> QED BY <1>7, <2>2 DEF Early
<1>11. Comp!PanelItems(secs) \subseteq Comp!PanelItems(sections)
  <2> SUFFICES ASSUME NEW b \in Comp!PanelItems(secs) PROVE b \in Comp!PanelItems(sections)
    OBVIOUS
  <2>1a. PICK t \in Comp!Section : \E k, h, j : Has(secs[t], k, h, j) /\ b = It(secs[t], k, h, j)
    BY PlacesAre
  <2>1. PICK k, h, j : Has(secs[t], k, h, j) /\ b = It(secs[t], k, h, j)
    BY <2>1a
  <2>2. PICK o, p : Has(sections[t], o, h, p) /\ It(secs[t], k, h, j) = It(sections[t], o, h, p)
    BY <1>6, <2>1
  <2> QED BY <2>1, <2>2, PlacesAre
<1>12. Comes(Comp!PanelItems(sections), Comp!PanelItems(secs), {}, orphans)
  BY <1>5, <1>9, <1>11, FewerComes
<1>13. CompSteps(secs)
  BY <1>1, <1>5, <1>9, <1>10, <1>12, ReplacedKeeps
<1> QED BY <1>1, <1>13, EventsAreHeard, StepKeeps

\* A panel that goes: by a command, or as the file has it no more.
LEMMA GoesKeeps ==
  ASSUME CompInv, Comp!DestroyPanel \/ Comp!UndeployPanel
  PROVE  CompInv'
<1> DEFINE dropped == IF Comp!DestroyPanel THEN {} ELSE Comp!PanelItems(sections)
<1>1. /\ comp_count' = comp_count + 1 /\ comp_deployed' = FALSE /\ muted' = FALSE /\ subscribed' = {}
      /\ Comp!Replaced(Comp!NoCells, dropped)
  BY DEF Comp!DestroyPanel, Comp!UndeployPanel, Comp!Counted
<1>2. dropped \in SUBSET Comp!PanelItems(sections)
  OBVIOUS
<1> HIDE DEF dropped
<1>3. Comes(Comp!PanelItems(sections), Comp!PanelItems(Comp!NoCells), dropped, orphans)
  BY <1>2, NoCellsAre, FewerComes
<1>4. CompSteps(Comp!NoCells)
  BY <1>1, <1>3, NoCellsAre, ReplacedKeeps
<1> QED BY <1>1, <1>4, StepKeeps

\* A panel that is built again.
LEMMA DeployKeeps ==
  ASSUME CompInv, Comp!DeployPanel
  PROVE  CompInv'
<1> PICK conf \in Configs :
      LET secs == Comp!Built(conf, comp_count)
      IN  /\ Comp!Counted /\ ~comp_deployed /\ comp_deployed' = TRUE /\ comp_conf' = conf
          /\ Comp!Replaced(secs, {}) /\ Comp!Subscribe(secs) /\ UNCHANGED muted
  BY DEF Comp!DeployPanel
<1> DEFINE secs == Comp!Built(conf, comp_count)
<1>1. /\ comp_count' = comp_count + 1 /\ comp_deployed' = TRUE /\ muted' = muted
      /\ Comp!Replaced(secs, {}) /\ subscribed' = Comp!Events(Comp!PanelItems(secs))
  BY DEF Comp!Counted, Comp!Subscribe
<1>2. conf \in [Comp!Section -> Seq(ConfCells)] /\ comp_count \in Nat
  BY ComponentsAssumption DEF CompInv
<1>3. /\ secs \in [Comp!Section -> Seq(Cells)] /\ Distinct(secs) /\ Born(secs, comp_count + 1)
      /\ \A b \in Comp!PanelItems(secs) : ~Early(b.id, comp_count)
  BY <1>2, BuiltIs
<1> HIDE DEF secs
<1>4. \A a \in Comp!PanelItems(sections) : Early(a.id, comp_count)
  <2> SUFFICES ASSUME NEW a \in Comp!PanelItems(sections) PROVE Early(a.id, comp_count)
    OBVIOUS
  <2>1a. PICK s \in Comp!Section : \E k, h, j : Has(sections[s], k, h, j) /\ a = It(sections[s], k, h, j)
    BY PlacesAre
  <2>1. PICK k, h, j : Has(sections[s], k, h, j) /\ a = It(sections[s], k, h, j)
    BY <2>1a
  <2> QED BY <2>1 DEF CompInv, Born
<1>5. \A i, j \in Comp!PanelItems(sections) : i.id = j.id => i = j
  BY DistinctIsUnique DEF CompInv
<1>6. \A i, j \in Comp!PanelItems(secs) : i.id = j.id => i = j
  BY <1>3, DistinctIsUnique
<1>7. \A o \in orphans : Early(o, comp_count)
  BY DEF CompInv
<1>8. Comes(Comp!PanelItems(sections), Comp!PanelItems(secs), {}, orphans)
  BY <1>3, <1>4, <1>5, <1>6, <1>7 DEF Comes
<1>9. CompSteps(secs)
  BY <1>1, <1>3, <1>8, ReplacedKeeps
<1>10. muted \in BOOLEAN
  BY DEF CompInv
<1> QED BY <1>1, <1>9, <1>10, EventsAreHeard, StepKeeps

\* Every step keeps the panel's invariant.
LEMMA CompGoesOn == CompInv /\ [Comp!Next]_(Comp!compVars) => CompInv'
<1> SUFFICES ASSUME CompInv, [Comp!Next]_(Comp!compVars) PROVE CompInv'
  OBVIOUS
<1>1. CASE Comp!WatcherReload \/ Comp!CommandReload
  BY <1>1, ReloadKeeps DEF Comp!WatcherReload, Comp!CommandReload
<1>2. CASE Comp!AddItem
  BY <1>2, AddKeeps
<1>3. CASE Comp!RemoveItem
  BY <1>3, RemoveKeeps
<1>4. CASE Comp!DestroyPanel \/ Comp!UndeployPanel
  BY <1>4, GoesKeeps
<1>5. CASE Comp!DeployPanel
  BY <1>5, DeployKeeps
<1>6. CASE UNCHANGED Comp!compVars
  BY <1>6 DEF Comp!compVars, CompInv, Comp!TimersAreTheClocks, Comp!HearsForItsComponents
<1> QED BY <1>1, <1>2, <1>3, <1>4, <1>5, <1>6 DEF Comp!Next

\* The panel's invariant gives what the runs check of its components.
LEMMA CompPromises == CompInv => Comp!TypeOK /\ Comp!TimersAreTheClocks /\ Comp!HearsForItsComponents
<1> SUFFICES ASSUME CompInv PROVE Comp!TypeOK
  BY DEF CompInv
<1>1. DOMAIN sections = Comp!Section
  <2>1. sections \in [Comp!Section -> Seq(Cells)]
    BY DEF CompInv
  <2> QED BY <2>1
<1>2. \A i, j \in Comp!PanelItems(sections) : i.id = j.id => i = j
  BY DistinctIsUnique DEF CompInv
<1> QED BY <1>1, <1>2 DEF Comp!TypeOK, CompInv, CompHeard

\* What two sequences of cells show.
LEMMA ShowTheSame ==
  ASSUME NEW a, NEW b, DOMAIN a = DOMAIN b,
         \A k \in DOMAIN a : /\ a[k].label = b[k].label /\ DOMAIN a[k].items = DOMAIN b[k].items
                             /\ \A j \in DOMAIN a[k].items : a[k].items[j].label = b[k].items[j].label /\ a[k].items[j].opt = b[k].items[j].opt
  PROVE  Comp!ShownOf(a) = Comp!ShownOf(b)
<1> DEFINE row(c) == [j \in DOMAIN c.items |-> <<c.items[j].label, c.items[j].opt>>]
<1>1. ASSUME NEW k \in DOMAIN a PROVE row(a[k]) = row(b[k])
  BY <1>1
<1>2. Comp!ShownOf(a) = [k \in DOMAIN a |-> <<a[k].label, row(a[k])>>] /\ Comp!ShownOf(b) = [k \in DOMAIN b |-> <<b[k].label, row(b[k])>>]
  BY DEF Comp!ShownOf
<1> HIDE DEF row
<1>3. \A k \in DOMAIN a : <<a[k].label, row(a[k])>> = <<b[k].label, row(b[k])>>
  BY <1>1
<1> QED BY <1>2, <1>3

\* A cell that is no group keeps its component when its label does.
LEMMA KeepsItsOwn ==
  ASSUME NEW olds \in Seq(Cells), NEW confs \in Seq(ConfCells), NEW id, NEW k \in DOMAIN confs, NEW o \in Comp!Finds(olds, confs, k),
         ~olds[o].group, ~confs[k].group
  PROVE  Comp!DiffCell(olds, confs, k, id).items[1].id = olds[o].items[1].id
<1>1. Comp!Found(olds, confs, k) = olds[o] /\ o \in DOMAIN olds /\ Comp!LabelAt(olds, o) = Comp!LabelAt(confs, k)
  BY FoundIs
<1>2. olds[o] \in Cells /\ confs[k] \in ConfCells
  <2> HIDE DEF Cells, ConfCells
  <2> QED BY <1>1
<1>3. /\ olds[o].items \in Seq(PItems) /\ Len(olds[o].items) = 1 /\ olds[o].items[1].label = olds[o].label
      /\ confs[k].items \in Seq(ConfItems) /\ Len(confs[k].items) = 1 /\ confs[k].items[1].label = confs[k].label
  BY <1>2 DEF Cells, ConfCells
<1> DEFINE was == olds[o].items
           there == confs[k].items
           cid == id
           items == Comp!DiffItems(was, there, cid)
<1>4. Comp!DiffCell(olds, confs, k, id) = [confs[k] EXCEPT !.items = items, !.prefix = Comp!DiffPrefix(olds[o].prefix, @, cid)]
  <2>1. olds[o].group = confs[k].group
    BY <1>2 DEF Cells, ConfCells
  <2>2. Comp!Finds(olds, confs, k) # {}
    OBVIOUS
  <2> QED BY <1>1, <2>1, <2>2 DEF Comp!DiffCell
<1>5. DOMAIN was = {1} /\ DOMAIN there = {1} /\ Comp!LabelAt(was, 1) = Comp!LabelAt(there, 1) /\ Len(was) = 1
  <2> HIDE DEF PItems, ConfItems
  <2> QED BY <1>1, <1>3 DEF Comp!LabelAt
<1>6. Comp!DiffCell(olds, confs, k, id).items = items
  BY <1>2, <1>4 DEF ConfCells
<1>7. was \in Seq(PItems) /\ was[1] \in PItems
  <2> HIDE DEF PItems
  <2> QED BY <1>3, <1>5
<1> HIDE DEF was, there, items
<1>8. 1 \in Comp!Finds(was, there, 1)
  BY <1>5 DEF Comp!Finds
<1>9. Comp!Found(was, there, 1) = was[1]
  BY <1>7, <1>8, FoundIs
<1>10. items[1] = Comp!Reopted(was[1], there[1])
  BY <1>5, <1>8, <1>9 DEF items, Comp!DiffItems
<1>11. Comp!Reopted(was[1], there[1]).id = was[1].id
  BY <1>7 DEF Comp!Reopted, PItems
<1> QED BY <1>6, <1>10, <1>11 DEF was

\* A reload gives the sections of the file, and keeps the instance of a label that stays where it was.
LEMMA ReloadFollows ==
  ASSUME CompInv, Comp!WatcherReload \/ Comp!CommandReload
  PROVE  \A s \in Comp!Section :
           /\ Comp!ShownOf(sections'[s]) = Comp!ShownOf(comp_conf'[s])
           /\ \A o \in DOMAIN sections[s], k \in DOMAIN sections'[s] :
                Comp!Only(sections[s], o) /\ Comp!Only(sections'[s], k) /\ sections[s][o].label = sections'[s][k].label =>
                  sections[s][o].items[1].id = sections'[s][k].items[1].id
<1> PICK conf \in Configs, command \in BOOLEAN : Comp!Reload(conf, command)
  BY DEF Comp!WatcherReload, Comp!CommandReload
<1> SUFFICES ASSUME NEW s \in Comp!Section
             PROVE  /\ Comp!ShownOf(sections'[s]) = Comp!ShownOf(comp_conf'[s])
                    /\ \A o \in DOMAIN sections[s], k \in DOMAIN sections'[s] :
                         Comp!Only(sections[s], o) /\ Comp!Only(sections'[s], k) /\ sections[s][o].label = sections'[s][k].label =>
                           sections[s][o].items[1].id = sections'[s][k].items[1].id
  OBVIOUS
<1> DEFINE secs == [t \in Comp!Section |-> Comp!DiffSection(sections[t], conf[t], <<comp_count, t>>)]
           olds == sections[s]
           confs == conf[s]
           new == secs[s]
<1>0. conf \in [Comp!Section -> Seq(ConfCells)]
  BY ComponentsAssumption
<1>1. sections' = secs /\ comp_conf' = conf
  BY DEF Comp!Reload, Comp!Replaced
<1>2. ReloadsTo(sections, conf, comp_count, secs)
  BY <1>0, ReloadIs DEF CompInv
<1>2b. sections'[s] = new /\ comp_conf'[s] = confs
  BY <1>1
<1>3. new = [k \in DOMAIN confs |-> Comp!DiffCell(olds, confs, k, <<comp_count, s>> \o <<k>>)]
  BY DEF Comp!DiffSection
<1>4. olds \in Seq(Cells) /\ confs \in Seq(ConfCells)
  <2> HIDE DEF Cells, ConfCells
  <2> QED BY <1>0 DEF CompInv
<1>5. DOMAIN new = DOMAIN confs /\ \A k \in DOMAIN confs : CellIs(olds, confs, <<comp_count, s>>, k, new[k])
  <2> HIDE DEF secs
  <2> QED BY <1>2 DEF ReloadsTo
<1> HIDE DEF secs, olds, confs, new
<1>6. ASSUME NEW k \in DOMAIN confs
      PROVE  /\ new[k] \in Cells /\ confs[k] \in ConfCells /\ new[k].label = confs[k].label /\ new[k].group = confs[k].group
             /\ DOMAIN new[k].items = DOMAIN confs[k].items
             /\ \A j \in DOMAIN new[k].items : new[k].items[j].label = confs[k].items[j].label /\ new[k].items[j].opt = confs[k].items[j].opt
  <2>1. CellIs(olds, confs, <<comp_count, s>>, k, new[k])
    BY <1>5
  <2>2. confs[k] \in ConfCells
    <3> HIDE DEF ConfCells
    <3> QED BY <1>4
  <2>3. new[k].items \in Seq(PItems) /\ confs[k].items \in Seq(ConfItems) /\ Len(new[k].items) = Len(confs[k].items)
    BY <2>1, <2>2 DEF CellIs, Cells, ConfCells
  <2>4. DOMAIN new[k].items = DOMAIN confs[k].items
    <3> HIDE DEF PItems, ConfItems
    <3> QED BY <2>3
  <2> QED BY <2>1, <2>2, <2>4 DEF CellIs
<1>7. Comp!ShownOf(new) = Comp!ShownOf(confs)
  BY <1>5, <1>6, ShowTheSame
<1>8. ASSUME NEW o \in DOMAIN olds, NEW k \in DOMAIN new, Comp!Only(olds, o), Comp!Only(new, k), olds[o].label = new[k].label
      PROVE  olds[o].items[1].id = new[k].items[1].id
  <2>1. k \in DOMAIN confs /\ ~olds[o].group /\ ~confs[k].group /\ olds[o].label = confs[k].label
    BY <1>5, <1>6, <1>8 DEF Comp!Only
  <2>2. \A j \in 1..(k - 1) : Comp!LabelAt(confs, j) # Comp!LabelAt(confs, k)
    <3> SUFFICES ASSUME NEW j \in 1..(k - 1) PROVE Comp!LabelAt(confs, j) # Comp!LabelAt(confs, k)
      OBVIOUS
    <3>1. j \in DOMAIN confs /\ j # k
      <4> HIDE DEF ConfCells
      <4> QED BY <1>4, <2>1
    <3>2. new[j].label # new[k].label
      BY <1>5, <1>8, <3>1 DEF Comp!Only
    <3> QED BY <1>6, <2>1, <3>1, <3>2 DEF Comp!LabelAt
  <2>3. \A j \in (o + 1)..Len(olds) : Comp!LabelAt(olds, j) # Comp!LabelAt(olds, o)
    <3> SUFFICES ASSUME NEW j \in (o + 1)..Len(olds) PROVE Comp!LabelAt(olds, j) # Comp!LabelAt(olds, o)
      OBVIOUS
    <3>1. j \in DOMAIN olds /\ j # o
      <4> HIDE DEF Cells
      <4> QED BY <1>4
    <3> QED BY <1>8, <3>1 DEF Comp!Only, Comp!LabelAt
  <2>4. o \in Comp!Finds(olds, confs, k)
    BY <2>1, <2>2, <2>3 DEF Comp!Finds, Comp!LabelAt
  <2>5. Comp!DiffCell(olds, confs, k, <<comp_count, s>> \o <<k>>).items[1].id = olds[o].items[1].id
    BY <1>4, <2>1, <2>4, KeepsItsOwn
  <2> QED BY <1>3, <2>1, <2>5
<1> QED BY <1>2b, <1>7, <1>8 DEF olds, new

\* Whatever is moved, added, removed or reloaded, each clock of the panel has one
\* timer and no other runs but those of instances dropped unstopped, and the panel
\* hears what its components want, unless an answer of theirs kept it from asking.
THEOREM ComponentsAlways == Comp!Spec => [](Comp!TypeOK /\ Comp!TimersAreTheClocks /\ Comp!HearsForItsComponents)
<1>1. Comp!Init => CompInv
  BY CompStarts
<1>2. CompInv /\ [Comp!Next]_(Comp!compVars) => CompInv'
  BY CompGoesOn
<1>3. CompInv => Comp!TypeOK /\ Comp!TimersAreTheClocks /\ Comp!HearsForItsComponents
  BY CompPromises
<1> QED BY <1>1, <1>2, <1>3, PTL DEF Comp!Spec

\* A reload gives a panel the cells of the file, and a component whose label is
\* there before and after, once, is the same component.
THEOREM ReloadFollowsFileAlways == Comp!Spec => Comp!ReloadFollowsFile
<1>1. Comp!Init => CompInv
  BY CompStarts
<1>2. CompInv /\ [Comp!Next]_(Comp!compVars) => CompInv'
  BY CompGoesOn
<1>3. CompInv => [Comp!WatcherReload \/ Comp!CommandReload =>
         \A s \in Comp!Section :
           /\ Comp!ShownOf(sections'[s]) = Comp!ShownOf(comp_conf'[s])
           /\ \A o \in DOMAIN sections[s], k \in DOMAIN sections'[s] :
                Comp!Only(sections[s], o) /\ Comp!Only(sections'[s], k) /\ sections[s][o].label = sections'[s][k].label =>
                  sections[s][o].items[1].id = sections'[s][k].items[1].id]_(Comp!compVars)
  BY ReloadFollows
<1> QED BY <1>1, <1>2, <1>3, PTL DEF Comp!Spec, Comp!ReloadFollowsFile

-----------------------------------------------------------------------------
(* The spotlight (Spotlight.tla).                                           *)

Chars == {"a", "/", "2+", "2"}

\* A record with these fields and no other.
SpotWhole(p) ==
  p = [search |-> p.search, selected |-> p.selected, action |-> p.action, display |-> p.display,
       requested |-> p.requested, expanded |-> p.expanded, closing |-> p.closing, mode |-> p.mode,
       base |-> p.base, pending |-> p.pending, start |-> p.start, end |-> p.end, shown |-> p.shown]

SpotFields(p) ==
  /\ p.search \in Seq(Chars) /\ Len(p.search) <= MaxQuery /\ p.selected \in Nat /\ p.action \in 0..1 /\ p.display \in 0..1
  /\ p.mode \in Spot!Modes /\ p.base \in Spot!Modes /\ p.start \in Nat /\ p.end \in Nat /\ p.closing \in BOOLEAN /\ p.shown \in BOOLEAN

\* With one field set.
LEMMA OneWhole ==
  ASSUME NEW p, SpotWhole(p), NEW x
  PROVE  /\ SpotWhole([p EXCEPT !.expanded = x])
         /\ SpotWhole([p EXCEPT !.action = x])
         /\ SpotWhole([p EXCEPT !.closing = x])
         /\ SpotWhole([p EXCEPT !.pending = x])
         /\ SpotWhole([p EXCEPT !.selected = x])
         /\ SpotWhole([p EXCEPT !.shown = x])
BY DEF SpotWhole

\* A spotlight begun anew.
LEMMA FreshWhole ==
  ASSUME NEW p, SpotWhole(p), NEW mode, NEW style
  PROVE  SpotWhole(Spot!Fresh(p, mode, style))
<1> DEFINE q1 == [p EXCEPT !.search = <<>>]
<1>1. SpotWhole(q1)
  BY DEF SpotWhole
<1> HIDE DEF q1
<1> DEFINE q2 == [q1 EXCEPT !.selected = 0]
<1>2. SpotWhole(q2)
  BY <1>1 DEF SpotWhole
<1> HIDE DEF q2
<1> DEFINE q3 == [q2 EXCEPT !.action = 0]
<1>3. SpotWhole(q3)
  BY <1>2 DEF SpotWhole
<1> HIDE DEF q3
<1> DEFINE q4 == [q3 EXCEPT !.display = 0]
<1>4. SpotWhole(q4)
  BY <1>3 DEF SpotWhole
<1> HIDE DEF q4
<1> DEFINE q5 == [q4 EXCEPT !.requested = style]
<1>5. SpotWhole(q5)
  BY <1>4 DEF SpotWhole
<1> HIDE DEF q5
<1> DEFINE q6 == [q5 EXCEPT !.expanded = <<>>]
<1>6. SpotWhole(q6)
  BY <1>5 DEF SpotWhole
<1> HIDE DEF q6
<1> DEFINE q7 == [q6 EXCEPT !.mode = mode]
<1>7. SpotWhole(q7)
  BY <1>6 DEF SpotWhole
<1> HIDE DEF q7
<1> DEFINE q8 == [q7 EXCEPT !.base = mode]
<1>8. SpotWhole(q8)
  BY <1>7 DEF SpotWhole
<1> HIDE DEF q8
<1> QED BY <1>8 DEF Spot!Fresh, q1, q2, q3, q4, q5, q6, q7, q8

\* At the first result.
LEMMA RewoundWhole ==
  ASSUME NEW p, SpotWhole(p)
  PROVE  SpotWhole(Spot!Rewound(p))
<1> DEFINE q1 == [p EXCEPT !.start = 0]
<1>1. SpotWhole(q1)
  BY DEF SpotWhole
<1> HIDE DEF q1
<1> DEFINE q2 == [q1 EXCEPT !.end = Page["list"]]
<1>2. SpotWhole(q2)
  BY <1>1 DEF SpotWhole
<1> HIDE DEF q2
<1> DEFINE q3 == [q2 EXCEPT !.pending = <<>>]
<1>3. SpotWhole(q3)
  BY <1>2 DEF SpotWhole
<1> HIDE DEF q3
<1> QED BY <1>3 DEF Spot!Rewound, q1, q2, q3

\* With the next style.
LEMMA NextDisplayWhole ==
  ASSUME NEW p, SpotWhole(p)
  PROVE  SpotWhole(Spot!NextDisplay(p))
<1> DEFINE q1 == [p EXCEPT !.display = (@ + 1) % Len(Spot!Displays(seen.mode))]
<1>1. SpotWhole(q1)
  BY DEF SpotWhole
<1> HIDE DEF q1
<1> DEFINE q2 == [q1 EXCEPT !.action = 0]
<1>2. SpotWhole(q2)
  BY <1>1 DEF SpotWhole
<1> HIDE DEF q2
<1> DEFINE q3 == [q2 EXCEPT !.expanded = <<>>]
<1>3. SpotWhole(q3)
  BY <1>2 DEF SpotWhole
<1> HIDE DEF q3
<1> QED BY <1>3 DEF Spot!NextDisplay, q1, q2, q3

\* With another query.
LEMMA TypedWhole ==
  ASSUME NEW p, SpotWhole(p), NEW query
  PROVE  SpotWhole(Spot!Typed(p, query))
<1> DEFINE q1 == [p EXCEPT !.search = query]
<1>1. SpotWhole(q1)
  BY DEF SpotWhole
<1> HIDE DEF q1
<1> DEFINE q2 == [q1 EXCEPT !.selected = 0]
<1>2. SpotWhole(q2)
  BY <1>1 DEF SpotWhole
<1> HIDE DEF q2
<1> DEFINE q3 == [q2 EXCEPT !.action = 0]
<1>3. SpotWhole(q3)
  BY <1>2 DEF SpotWhole
<1> HIDE DEF q3
<1> QED BY <1>3 DEF Spot!Typed, q1, q2, q3

\* With the style that is asked for.
LEMMA StyledWhole ==
  ASSUME NEW p, SpotWhole(p)
  PROVE  SpotWhole(Spot!Styled(p))
<1> DEFINE q1 == [p EXCEPT !.display = Spot!DisplayIndex(p)]
<1>1. SpotWhole(q1)
  BY DEF SpotWhole
<1> HIDE DEF q1
<1> DEFINE q2 == [q1 EXCEPT !.requested = "none"]
<1>2. SpotWhole(q2)
  BY <1>1 DEF SpotWhole
<1> HIDE DEF q2
<1> QED BY <1>2 DEF Spot!Styled, q1, q2

\* With another window.
LEMMA TwoWhole ==
  ASSUME NEW p, SpotWhole(p), NEW x, NEW y
  PROVE  SpotWhole([p EXCEPT !.start = x, !.end = y])
<1> DEFINE q1 == [p EXCEPT !.start = x]
<1>1. SpotWhole(q1)
  BY DEF SpotWhole
<1> HIDE DEF q1
<1> DEFINE q2 == [q1 EXCEPT !.end = y]
<1>2. SpotWhole(q2)
  BY <1>1 DEF SpotWhole
<1> HIDE DEF q2
<1> QED BY <1>2 DEF q1, q2

\* With another result.
LEMMA SelectWhole ==
  ASSUME NEW p, SpotWhole(p), NEW x
  PROVE  SpotWhole([p EXCEPT !.selected = x, !.action = 0])
<1> DEFINE q1 == [p EXCEPT !.selected = x]
<1>1. SpotWhole(q1)
  BY DEF SpotWhole
<1> HIDE DEF q1
<1> DEFINE q2 == [q1 EXCEPT !.action = 0]
<1>2. SpotWhole(q2)
  BY <1>1 DEF SpotWhole
<1> HIDE DEF q2
<1> QED BY <1>2 DEF q1, q2

\* With an action to carry out.
LEMMA ChooseWhole ==
  ASSUME NEW p, SpotWhole(p), NEW x, NEW y
  PROVE  SpotWhole([p EXCEPT !.pending = x, !.closing = y])
<1> DEFINE q1 == [p EXCEPT !.pending = x]
<1>1. SpotWhole(q1)
  BY DEF SpotWhole
<1> HIDE DEF q1
<1> DEFINE q2 == [q1 EXCEPT !.closing = y]
<1>2. SpotWhole(q2)
  BY <1>1 DEF SpotWhole
<1> HIDE DEF q2
<1> QED BY <1>2 DEF q1, q2

\* Shown or not.
LEMMA ShutWhole ==
  ASSUME NEW p, SpotWhole(p), NEW x, NEW y
  PROVE  SpotWhole([p EXCEPT !.closing = x, !.shown = y])
<1> DEFINE q1 == [p EXCEPT !.closing = x]
<1>1. SpotWhole(q1)
  BY DEF SpotWhole
<1> HIDE DEF q1
<1> DEFINE q2 == [q1 EXCEPT !.shown = y]
<1>2. SpotWhole(q2)
  BY <1>1 DEF SpotWhole
<1> HIDE DEF q2
<1> QED BY <1>2 DEF q1, q2

\* In another mode.
LEMMA IntoWhole ==
  ASSUME NEW p, SpotWhole(p), NEW x
  PROVE  SpotWhole([p EXCEPT !.mode = x, !.display = 0, !.expanded = <<>>])
<1> DEFINE q1 == [p EXCEPT !.mode = x]
<1>1. SpotWhole(q1)
  BY DEF SpotWhole
<1> HIDE DEF q1
<1> DEFINE q2 == [q1 EXCEPT !.display = 0]
<1>2. SpotWhole(q2)
  BY <1>1 DEF SpotWhole
<1> HIDE DEF q2
<1> DEFINE q3 == [q2 EXCEPT !.expanded = <<>>]
<1>3. SpotWhole(q3)
  BY <1>2 DEF SpotWhole
<1> HIDE DEF q3
<1> QED BY <1>3 DEF q1, q2, q3

\* A list of results, of which each has a place.
SpotListed(items) == \E Xs : items \in Seq(Xs)

\* The results are a sequence with a length.
LEMMA ListedIs ==
  ASSUME NEW items, SpotListed(items)
  PROVE  Len(items) \in Nat /\ DOMAIN items = 1..Len(items)
<1>1. PICK Xs : items \in Seq(Xs)
  BY DEF SpotListed
<1> QED BY <1>1

\* What is seen, and an action that is offered there.
Kinds == {"none", "blank", "list", "single", "expanded"}

Sees(w) ==
  /\ w = [kind |-> w.kind, mode |-> w.mode, query |-> w.query, items |-> w.items, style |-> w.style,
          start |-> w.start, selected |-> w.selected, action |-> w.action]
  /\ w.kind \in Kinds /\ SpotListed(w.items) /\ w.style \in Styles /\ w.start \in Nat

Good(pending, w) ==
  \E i \in DOMAIN w.items : \E d \in DOMAIN Spot!ActionDefs(w.items[i], w.style) :
    pending = <<w.items[i], Spot!ActionDefs(w.items[i], w.style)[d]>>

\* What a key may make of the spotlight.
Makes(p, q) ==
  /\ SpotWhole(q) /\ SpotFields(q) /\ q.shown = p.shown
  /\ q.pending # <<>> => q.pending = p.pending \/ Good(q.pending, seen)

\* An item has one or two actions.
LEMMA DefsAre ==
  \A item, style : /\ Len(Spot!ActionDefs(item, style)) \in {1, 2}
                   /\ DOMAIN Spot!ActionDefs(item, style) = 1..Len(Spot!ActionDefs(item, style))
<1> TAKE item, style
<1> DEFINE d == Spot!ActionDefs(item, style)
<1>1. \/ d = <<"Open", "Copy command">> \/ d = <<"Execute">> \/ d = <<"Expand", "Activate">> \/ d = <<"Copy">>
  BY DEF Spot!ActionDefs
<1> HIDE DEF d
<1>2. CASE d = <<"Open", "Copy command">>
  <2>1. Len(<<"Open", "Copy command">>) = 2 /\ DOMAIN <<"Open", "Copy command">> = 1..2
    OBVIOUS
  <2>2. Len(d) = 2 /\ DOMAIN d = 1..2
    BY <1>2, <2>1
  <2> QED BY <2>2 DEF d
<1>3. CASE d = <<"Execute">>
  BY <1>3 DEF d
<1>4. CASE d = <<"Expand", "Activate">>
  <2>1. Len(<<"Expand", "Activate">>) = 2 /\ DOMAIN <<"Expand", "Activate">> = 1..2
    OBVIOUS
  <2>2. Len(d) = 2 /\ DOMAIN d = 1..2
    BY <1>4, <2>1
  <2> QED BY <2>2 DEF d
<1>5. CASE d = <<"Copy">>
  BY <1>5 DEF d
<1> QED BY <1>1, <1>2, <1>3, <1>4, <1>5

\* A mode has one or two ways to be displayed.
LEMMA DisplaysAre ==
  \A mode : /\ Len(Spot!Displays(mode)) \in {1, 2} /\ DOMAIN Spot!Displays(mode) = 1..Len(Spot!Displays(mode))
            /\ \A i \in DOMAIN Spot!Displays(mode) : Spot!Displays(mode)[i] \in Styles
<1> TAKE mode
<1> DEFINE d == Spot!Displays(mode)
<1>1. d = <<"list", "grid">> \/ d = <<"image-list">> \/ d = <<"list">>
  BY DEF Spot!Displays
<1> HIDE DEF d
<1>2. Len(d) \in {1, 2} /\ DOMAIN d = 1..Len(d) /\ \A i \in DOMAIN d : d[i] \in Styles
  BY <1>1 DEF Styles
<1> QED BY <1>2 DEF d

\* A fresh spotlight is whole, and keeps whether it is shown, what waits and whether it
\* closes.
LEMMA FreshFields ==
  ASSUME NEW p, SpotWhole(p), SpotFields(p), NEW mode \in Spot!Modes, NEW style
  PROVE  /\ SpotWhole(Spot!Fresh(p, mode, style)) /\ SpotFields(Spot!Fresh(p, mode, style))
         /\ Spot!Fresh(p, mode, style).shown = p.shown /\ Spot!Fresh(p, mode, style).pending = p.pending
         /\ Spot!Fresh(p, mode, style).closing = p.closing
<1> DEFINE q == Spot!Fresh(p, mode, style)
           C == Seq(Chars)
<1>0. <<>> \in C /\ Len(<<>>) = 0 /\ 0 \in 0..1 /\ 0 <= MaxQuery
  BY SpotlightAssumption
<1>1. SpotWhole(q)
  BY FreshWhole
<1>2. /\ q.search = <<>> /\ q.selected = 0 /\ q.action = 0 /\ q.display = 0 /\ q.mode = mode /\ q.base = mode
      /\ q.start = p.start /\ q.end = p.end /\ q.closing = p.closing /\ q.shown = p.shown /\ q.pending = p.pending
  BY DEF SpotWhole, Spot!Fresh
<1> HIDE DEF q, C
<1>3. SpotFields(q)
  BY <1>0, <1>2 DEF SpotFields, C
<1> QED BY <1>1, <1>2, <1>3 DEF q

\* A rewound spotlight is whole and has nothing waiting.
LEMMA RewoundFields ==
  ASSUME NEW p, SpotWhole(p), SpotFields(p)
  PROVE  /\ SpotWhole(Spot!Rewound(p)) /\ SpotFields(Spot!Rewound(p))
         /\ Spot!Rewound(p).shown = p.shown /\ Spot!Rewound(p).pending = <<>> /\ Spot!Rewound(p).closing = p.closing
<1> DEFINE q == Spot!Rewound(p)
<1>1. SpotWhole(q)
  BY RewoundWhole
<1>2. /\ q.search = p.search /\ q.selected = p.selected /\ q.action = p.action /\ q.display = p.display /\ q.mode = p.mode /\ q.base = p.base
      /\ q.start = 0 /\ q.end = Page["list"] /\ q.closing = p.closing /\ q.shown = p.shown /\ q.pending = <<>>
  BY DEF SpotWhole, Spot!Rewound
<1>3. Page["list"] \in Nat
  BY SpotlightAssumption DEF Styles
<1> HIDE DEF q
<1>4. SpotFields(q)
  BY <1>2, <1>3 DEF SpotFields
<1> QED BY <1>1, <1>2, <1>4 DEF q

\* With other flags it is what it was.
LEMMA ShutFields ==
  ASSUME NEW p, SpotWhole(p), SpotFields(p), NEW x \in BOOLEAN, NEW y \in BOOLEAN
  PROVE  /\ SpotWhole([p EXCEPT !.closing = x]) /\ SpotFields([p EXCEPT !.closing = x])
         /\ [p EXCEPT !.closing = x].shown = p.shown /\ [p EXCEPT !.closing = x].pending = p.pending
         /\ [p EXCEPT !.closing = x].closing = x
         /\ SpotWhole([p EXCEPT !.shown = x]) /\ SpotFields([p EXCEPT !.shown = x])
         /\ [p EXCEPT !.shown = x].shown = x /\ [p EXCEPT !.shown = x].pending = p.pending
         /\ SpotWhole([p EXCEPT !.closing = x, !.shown = y]) /\ SpotFields([p EXCEPT !.closing = x, !.shown = y])
         /\ [p EXCEPT !.closing = x, !.shown = y].shown = y /\ [p EXCEPT !.closing = x, !.shown = y].closing = x
         /\ [p EXCEPT !.closing = x, !.shown = y].pending = p.pending
<1> DEFINE q == [p EXCEPT !.closing = x]
           r == [p EXCEPT !.shown = x]
           s == [p EXCEPT !.closing = x, !.shown = y]
<1>1. SpotWhole(q) /\ SpotWhole(r) /\ SpotWhole(s)
  BY OneWhole, ShutWhole
<1>2. /\ q.search = p.search /\ q.selected = p.selected /\ q.action = p.action /\ q.display = p.display /\ q.mode = p.mode /\ q.base = p.base
      /\ q.start = p.start /\ q.end = p.end /\ q.closing = x /\ q.shown = p.shown /\ q.pending = p.pending
  BY DEF SpotWhole
<1>3. /\ r.search = p.search /\ r.selected = p.selected /\ r.action = p.action /\ r.display = p.display /\ r.mode = p.mode /\ r.base = p.base
      /\ r.start = p.start /\ r.end = p.end /\ r.closing = p.closing /\ r.shown = x /\ r.pending = p.pending
  BY DEF SpotWhole
<1>4. /\ s.search = p.search /\ s.selected = p.selected /\ s.action = p.action /\ s.display = p.display /\ s.mode = p.mode /\ s.base = p.base
      /\ s.start = p.start /\ s.end = p.end /\ s.closing = x /\ s.shown = y /\ s.pending = p.pending
  BY DEF SpotWhole
<1> HIDE DEF q, r, s
<1>5. SpotFields(q) /\ SpotFields(r) /\ SpotFields(s)
  BY <1>2, <1>3, <1>4 DEF SpotFields
<1> QED BY <1>1, <1>2, <1>3, <1>4, <1>5 DEF q, r, s

\* And so as it is to close.
LEMMA ClosingFields ==
  \A p, x : SpotWhole(p) /\ SpotFields(p) /\ x \in BOOLEAN =>
    /\ SpotWhole([p EXCEPT !.closing = x]) /\ SpotFields([p EXCEPT !.closing = x])
    /\ [p EXCEPT !.closing = x].shown = p.shown /\ [p EXCEPT !.closing = x].pending = p.pending
    /\ [p EXCEPT !.closing = x].closing = x
<1> SUFFICES ASSUME NEW p, NEW x, SpotWhole(p), SpotFields(p), x \in BOOLEAN
             PROVE  /\ SpotWhole([p EXCEPT !.closing = x]) /\ SpotFields([p EXCEPT !.closing = x])
                    /\ [p EXCEPT !.closing = x].shown = p.shown /\ [p EXCEPT !.closing = x].pending = p.pending
                    /\ [p EXCEPT !.closing = x].closing = x
  OBVIOUS
<1> DEFINE q == [p EXCEPT !.closing = x]
<1>1. SpotWhole(q)
  BY OneWhole
<1>2. /\ q.search = p.search /\ q.selected = p.selected /\ q.action = p.action /\ q.display = p.display /\ q.mode = p.mode /\ q.base = p.base
      /\ q.start = p.start /\ q.end = p.end /\ q.closing = x /\ q.shown = p.shown /\ q.pending = p.pending
  BY DEF SpotWhole
<1> HIDE DEF q
<1>5. SpotFields(q)
  BY <1>2 DEF SpotFields
<1> QED BY <1>1, <1>2, <1>5 DEF q

\* Dismissing is an input: it makes no more than an input may.
LEMMA DismissMakes ==
  ASSUME NEW p, SpotWhole(p), SpotFields(p)
  PROVE  Makes(p, Spot!Dismiss(p))
<1> DEFINE f == Spot!Fresh(p, "applications", "none")
           r == Spot!Rewound(f)
<1>1. SpotWhole(f) /\ SpotFields(f) /\ f.shown = p.shown
  BY FreshFields DEF Spot!Modes
<1> HIDE DEF f
<1>2. SpotWhole(r) /\ SpotFields(r) /\ r.shown = p.shown /\ r.pending = <<>>
  BY <1>1, RewoundFields
<1>3. Spot!Dismiss(p) = [r EXCEPT !.closing = TRUE]
  BY DEF Spot!Dismiss, f
<1> HIDE DEF r
<1> DEFINE t == TRUE
           d == [r EXCEPT !.closing = t]
<1>4. t \in BOOLEAN
  OBVIOUS
<1>5. Spot!Dismiss(p) = d
  BY <1>3
<1> HIDE DEF t
<1>6. SpotWhole(d) /\ SpotFields(d) /\ d.shown = p.shown /\ d.pending = <<>>
  BY <1>2, <1>4, ClosingFields
<1> HIDE DEF d
<1> QED BY <1>5, <1>6 DEF Makes

\* So is picking a result that was drawn.
LEMMA PickMakes ==
  ASSUME NEW p, SpotWhole(p), SpotFields(p), Sees(seen), NEW i \in Nat, Spot!Offers(p, i)
  PROVE  Makes(p, Spot!Pick(p, i))
<1> DEFINE defs == Spot!ActionDefs(seen.items[i + 1], seen.style)
           c == Spot!Chosen(p, i)
<1>1. i + 1 \in DOMAIN seen.items
  <2>1. Len(seen.items) \in Nat /\ DOMAIN seen.items = 1..Len(seen.items)
    BY ListedIs DEF Sees
  <2> QED BY <2>1 DEF Spot!Offers, Spot!Results
<1>2. p.action + 1 \in DOMAIN defs
  <2>1. Len(defs) \in {1, 2} /\ DOMAIN defs = 1..Len(defs)
    BY DefsAre
  <2>2. p.action < Len(defs) /\ p.action \in 0..1
    BY DEF Spot!Offers, Spot!Defs, SpotFields
  <2> HIDE DEF defs
  <2> QED BY <2>1, <2>2
<1>3. c = <<seen.items[i + 1], defs[p.action + 1]>>
  BY DEF Spot!Chosen, Spot!Defs
<1>4. Good(c, seen) /\ c # <<>>
  BY <1>1, <1>2, <1>3 DEF Good
<1> HIDE DEF c
<1>5. CASE c[2] = "Expand"
  <2> DEFINE q == [p EXCEPT !.expanded = seen.items[i + 1]]
  <2>1. Spot!Pick(p, i) = q
    BY <1>5 DEF Spot!Pick, c
  <2>2. SpotWhole(q)
    BY OneWhole
  <2>3. /\ q.search = p.search /\ q.selected = p.selected /\ q.action = p.action /\ q.display = p.display /\ q.mode = p.mode /\ q.base = p.base
        /\ q.start = p.start /\ q.end = p.end /\ q.closing = p.closing /\ q.shown = p.shown /\ q.pending = p.pending
    BY DEF SpotWhole
  <2> HIDE DEF q
  <2>4. Makes(p, q)
    BY <2>2, <2>3 DEF Makes, SpotFields
  <2> QED BY <2>1, <2>4
<1>6. CASE c[2] # "Expand"
  <2> DEFINE t == TRUE
             q == [p EXCEPT !.pending = c, !.closing = t]
  <2>1. Spot!Pick(p, i) = q
    BY <1>6 DEF Spot!Pick, c
  <2>0. t \in BOOLEAN
    OBVIOUS
  <2> HIDE DEF t
  <2>2. SpotWhole(q)
    BY ChooseWhole
  <2>3. /\ q.search = p.search /\ q.selected = p.selected /\ q.action = p.action /\ q.display = p.display /\ q.mode = p.mode /\ q.base = p.base
        /\ q.start = p.start /\ q.end = p.end /\ q.closing = t /\ q.shown = p.shown /\ q.pending = c
    BY DEF SpotWhole
  <2> HIDE DEF q
  <2>4. Makes(p, q)
    BY <1>4, <2>0, <2>2, <2>3 DEF Makes, SpotFields
  <2> QED BY <2>1, <2>4
<1> QED BY <1>5, <1>6

\* So is the Enter key.
LEMMA EnterMakes ==
  ASSUME NEW p, SpotWhole(p), SpotFields(p), Sees(seen)
  PROVE  Makes(p, Spot!Enter(p))
<1>1. CASE Spot!Offers(p, p.selected)
  <2>1. p.selected \in Nat
    BY DEF SpotFields
  <2>2. Makes(p, Spot!Pick(p, p.selected))
    BY <1>1, <2>1, PickMakes
  <2> QED BY <1>1, <2>2 DEF Spot!Enter
<1>2. CASE ~Spot!Offers(p, p.selected)
  <2> DEFINE t == TRUE
             q == [p EXCEPT !.closing = t]
  <2>1. Spot!Enter(p) = q
    BY <1>2 DEF Spot!Enter
  <2>0. t \in BOOLEAN
    OBVIOUS
  <2> HIDE DEF t
  <2>2. SpotWhole(q) /\ SpotFields(q) /\ q.shown = p.shown /\ q.pending = p.pending
    BY <2>0, ClosingFields
  <2> HIDE DEF q
  <2>3. Makes(p, q)
    BY <2>2 DEF Makes
  <2> QED BY <2>1, <2>3
<1> QED BY <1>1, <1>2

\* So is going on to the next action.
LEMMA NextActionMakes ==
  ASSUME NEW p, SpotWhole(p), SpotFields(p), Sees(seen)
  PROVE  Makes(p, Spot!NextAction(p))
<1>1. CASE p.selected < Spot!Results
  <2> DEFINE n == Len(Spot!Defs(p.selected))
             x == (p.action + 1) % n
             q == [p EXCEPT !.action = x]
  <2>1. Spot!NextAction(p) = q
    BY <1>1 DEF Spot!NextAction
  <2>2. n \in {1, 2}
    BY DefsAre DEF Spot!Defs
  <2> HIDE DEF n
  <2>3. x \in 0..1
    BY <2>2 DEF SpotFields
  <2> HIDE DEF x
  <2>4. SpotWhole(q)
    BY OneWhole
  <2>5. /\ q.search = p.search /\ q.selected = p.selected /\ q.action = x /\ q.display = p.display /\ q.mode = p.mode /\ q.base = p.base
        /\ q.start = p.start /\ q.end = p.end /\ q.closing = p.closing /\ q.shown = p.shown /\ q.pending = p.pending
    BY DEF SpotWhole
  <2> HIDE DEF q
  <2>6. Makes(p, q)
    BY <2>3, <2>4, <2>5 DEF Makes, SpotFields
  <2> QED BY <2>1, <2>6
<1>2. CASE ~(p.selected < Spot!Results)
  BY <1>2 DEF Spot!NextAction, Makes
<1> QED BY <1>1, <1>2

\* So is going on to the next display.
LEMMA NextDisplayMakes ==
  ASSUME NEW p, SpotWhole(p), SpotFields(p)
  PROVE  Makes(p, Spot!NextDisplay(p))
<1> DEFINE n == Len(Spot!Displays(seen.mode))
           x == (p.display + 1) % n
           q == Spot!NextDisplay(p)
<1>1. n \in {1, 2}
  BY DisplaysAre
<1>2. SpotWhole(q)
  BY NextDisplayWhole
<1>3. /\ q.search = p.search /\ q.selected = p.selected /\ q.action = 0 /\ q.display = x /\ q.mode = p.mode /\ q.base = p.base
      /\ q.start = p.start /\ q.end = p.end /\ q.closing = p.closing /\ q.shown = p.shown /\ q.pending = p.pending
  BY DEF SpotWhole, Spot!NextDisplay
<1> HIDE DEF q, n
<1>4. x \in 0..1 /\ 0 \in 0..1
  BY <1>1 DEF SpotFields
<1> HIDE DEF x
<1>5. Makes(p, q)
  BY <1>2, <1>3, <1>4 DEF Makes, SpotFields
<1> QED BY <1>5 DEF q

\* So is typing.
LEMMA TypedMakes ==
  ASSUME NEW p, SpotWhole(p), SpotFields(p), NEW query \in Seq(Chars), Len(query) <= MaxQuery
  PROVE  Makes(p, Spot!Typed(p, query))
<1> DEFINE q == Spot!Typed(p, query)
<1>1. SpotWhole(q)
  BY TypedWhole
<1>2. /\ q.search = query /\ q.selected = 0 /\ q.action = 0 /\ q.display = p.display /\ q.mode = p.mode /\ q.base = p.base
      /\ q.start = p.start /\ q.end = p.end /\ q.closing = p.closing /\ q.shown = p.shown /\ q.pending = p.pending
  BY DEF SpotWhole, Spot!Typed
<1> HIDE DEF q
<1>3. Makes(p, q)
  BY <1>1, <1>2 DEF Makes, SpotFields
<1> QED BY <1>3 DEF q

\* So is a click on a tile.
LEMMA ClickMakes ==
  ASSUME NEW p, SpotWhole(p), SpotFields(p), Sees(seen), NEW place \in Nat
  PROVE  Makes(p, Spot!ClickTile(p, place))
<1> DEFINE i == p.start + place
<1>1. i \in Nat
  BY DEF SpotFields
<1> HIDE DEF i
<1>2. CASE Spot!Offers(p, i)
  <2>1. Makes(p, Spot!Pick(p, i))
    BY <1>1, <1>2, PickMakes
  <2> QED BY <1>2, <2>1 DEF Spot!ClickTile, i
<1>3. CASE ~Spot!Offers(p, i)
  BY <1>3 DEF Spot!ClickTile, Makes, i
<1> QED BY <1>2, <1>3

\* Where an arrow brings the window.
LEMMA MovedMakes ==
  ASSUME NEW p, SpotWhole(p), SpotFields(p), Sees(seen), NEW at \in Nat, at < Spot!Results \/ at <= p.selected
  PROVE  /\ Makes(p, Spot!Moved(p, at)) /\ Spot!Moved(p, at).selected = at
         /\ \/ at \in Spot!Results..p.selected
            \/ at \in Spot!Moved(p, at).start..(Spot!Moved(p, at).end - 1)
<1> DEFINE page == Page[seen.style]
           to == Spot!ScrollTarget(at, p, page)
           q == [p EXCEPT !.selected = at, !.action = 0]
           r == [q EXCEPT !.start = to, !.end = Spot!Least(to + page, Spot!Results)]
<1>0. page \in Nat \ {0} /\ Spot!Results \in Nat /\ p.start \in Nat /\ p.end \in Nat /\ p.selected \in Nat
  BY SpotlightAssumption, ListedIs DEF Sees, Spot!Results, SpotFields
<1>1. Spot!Moved(p, at) = IF to < 0 THEN q ELSE r
  BY DEF Spot!Moved
<1>2. SpotWhole(q)
  BY SelectWhole
<1>3. /\ q.search = p.search /\ q.selected = at /\ q.action = 0 /\ q.display = p.display /\ q.mode = p.mode /\ q.base = p.base
      /\ q.start = p.start /\ q.end = p.end /\ q.closing = p.closing /\ q.shown = p.shown /\ q.pending = p.pending
  BY DEF SpotWhole
<1> HIDE DEF q, page
<1>4. to = IF at < p.start THEN at ELSE IF at >= p.end THEN at + 1 - Spot!Least(page, at + 1) ELSE -1
  BY DEF Spot!ScrollTarget
<1>5. to \in Nat \/ (to = -1 /\ at >= p.start /\ at < p.end)
  BY <1>0, <1>4 DEF Spot!Least
<1>6. CASE to < 0
  <2>1. Spot!Moved(p, at) = q /\ at \in p.start..(p.end - 1)
    BY <1>0, <1>1, <1>5, <1>6
  <2>2. Makes(p, q)
    BY <1>2, <1>3 DEF Makes, SpotFields
  <2> QED BY <1>3, <2>1, <2>2
<1>7. CASE ~(to < 0)
  <2>0. to \in Nat /\ Spot!Moved(p, at) = r
    BY <1>1, <1>5, <1>7
  <2>1. SpotWhole(r)
    BY <1>2, TwoWhole
  <2>2. /\ r.search = q.search /\ r.selected = q.selected /\ r.action = q.action /\ r.display = q.display /\ r.mode = q.mode /\ r.base = q.base
        /\ r.start = to /\ r.end = Spot!Least(to + page, Spot!Results) /\ r.closing = q.closing /\ r.shown = q.shown /\ r.pending = q.pending
    BY <1>2 DEF SpotWhole
  <2>3. Spot!Least(to + page, Spot!Results) \in Nat
    BY <1>0, <2>0 DEF Spot!Least
  <2> HIDE DEF r
  <2>4. Makes(p, r)
    BY <1>3, <2>0, <2>1, <2>2, <2>3 DEF Makes, SpotFields
  <2>5. to <= at /\ at < to + page
    BY <1>0, <1>4, <1>7 DEF Spot!Least
  <2> HIDE DEF to
  <2>6. at \in Spot!Results..p.selected \/ at \in to..(Spot!Least(to + page, Spot!Results) - 1)
    BY <1>0, <2>0, <2>5 DEF Spot!Least
  <2> QED BY <1>3, <2>0, <2>2, <2>4, <2>6
<1> QED BY <1>6, <1>7

\* So are the arrows, and they select a result in the window they leave.
LEMMA ArrowsMake ==
  ASSUME NEW p, SpotWhole(p), SpotFields(p), Sees(seen)
  PROVE  \A q \in {Spot!ArrowUp(p), Spot!ArrowDown(p)} :
           Makes(p, q) /\ q.selected \in {p.selected} \cup Spot!Results..p.selected \cup q.start..(q.end - 1)
<1>0. Makes(p, p) /\ p.selected \in Nat /\ Spot!Results \in Nat
  BY ListedIs DEF Makes, SpotFields, Sees, Spot!Results
<1>1. /\ Makes(p, Spot!ArrowUp(p))
      /\ Spot!ArrowUp(p).selected \in {p.selected} \cup Spot!Results..p.selected \cup Spot!ArrowUp(p).start..(Spot!ArrowUp(p).end - 1)
  <2>1. CASE p.selected = 0
    BY <1>0, <2>1 DEF Spot!ArrowUp
  <2>2. CASE p.selected # 0
    <3> DEFINE x == p.selected - 1
    <3>1. x \in Nat /\ x <= p.selected
      BY <1>0, <2>2
    <3>2. Spot!ArrowUp(p) = Spot!Moved(p, x)
      BY <2>2 DEF Spot!ArrowUp
    <3> HIDE DEF x
    <3> QED BY <3>1, <3>2, MovedMakes
  <2> QED BY <2>1, <2>2
<1>2. /\ Makes(p, Spot!ArrowDown(p))
      /\ Spot!ArrowDown(p).selected \in {p.selected} \cup Spot!Results..p.selected \cup Spot!ArrowDown(p).start..(Spot!ArrowDown(p).end - 1)
  <2>1. CASE p.selected + 1 >= Spot!Results
    BY <1>0, <2>1 DEF Spot!ArrowDown
  <2>2. CASE ~(p.selected + 1 >= Spot!Results)
    <3> DEFINE x == p.selected + 1
    <3>1. x \in Nat /\ x < Spot!Results
      BY <1>0, <2>2
    <3>2. Spot!ArrowDown(p) = Spot!Moved(p, x)
      BY <2>2 DEF Spot!ArrowDown
    <3> HIDE DEF x
    <3> QED BY <3>1, <3>2, MovedMakes
  <2> QED BY <2>1, <2>2
<1> QED BY <1>1, <1>2

\* The results for the empty query: as often as they were started, then by title.
Sorted(usage, apps) ==
  LET Earlier(a) == {b \in apps : usage[b] > usage[a] \/ (usage[b] = usage[a] /\ b < a)}
  IN  [i \in 1..Cardinality(apps) |-> <<"app", CHOOSE a \in apps : Cardinality(Earlier(a)) = i - 1>>]

\* A search for nothing is the list by usage.
LEMMA SearchIs == Spot!SearchApplications(<<>>) = Sorted(library.usage, entries.apps)
<1>1. <<>> \notin Spot!Letters /\ <<>> # <<"/">>
  BY DEF Spot!Letters
<1>2. (CASE <<>> = <<>> -> entries.apps [] <<>> \in Spot!Letters -> entries.apps \cap Named
        [] <<>> = <<"/">> -> entries.apps \cap Pathed [] OTHER -> {}) = entries.apps
  BY <1>1
<1> QED BY <1>1, <1>2 DEF Spot!SearchApplications, Sorted, Spot!Before, Spot!Cardinality, Cardinality

\* The caches, and what they are computed from.
Cached == Spot!Modes \ {"calculator"}

Lib(l) ==
  /\ l = [cache_enabled |-> l.cache_enabled, usage |-> l.usage, launches |-> l.launches, copied |-> l.copied,
          rows |-> l.rows, fresh |-> l.fresh, cache |-> l.cache]
  /\ l.launches \in Nat /\ l.copied \in Nat /\ l.rows \in Nat
  /\ l.cache = [m \in Cached |-> l.cache[m]]
  /\ \A m \in Cached : l.cache[m].version \in Nat /\ SpotListed(l.cache[m].items)
Thread == [at : {"none", "read", "wrote"}, apps : SUBSET App]
Disk == [disk : SUBSET App, apps : SUBSET App, version : Nat, threads : [1..2 -> Thread]]

\* What a cache of the applications may hold.
SpotFits(c, version, usage, apps, threads) ==
  c.items # <<>> =>
    /\ c.version <= version
    /\ c.version = version => c.items = Sorted(usage, apps) \/ \E t \in 1..2 : threads[t].at = "wrote"

CacheFits ==
  SpotFits(library.cache["applications"], entries.version + library.launches, library.usage, entries.apps, entries.threads)

\* A search gives results.
LEMMA ListedFinds ==
  ASSUME NEW query, entries \in Disk
  PROVE  SpotListed(Spot!SearchApplications(query))
<1> DEFINE Found == CASE query = <<>> -> entries.apps
                 [] query \in Spot!Letters -> entries.apps \cap Named
                 [] query = <<"/">> -> entries.apps \cap Pathed
                 [] OTHER -> {}
           Earlier(a) == {b \in Found : IF query = <<>> THEN Spot!Before(b, a) ELSE b < a}
           G(i) == <<"app", CHOOSE a \in Found : Cardinality(Earlier(a)) = i - 1>>
           n == Cardinality(Found)
           Xs == {G(i) : i \in 1..n}
<1>1. Found \in SUBSET App
  <2>1. entries.apps \in SUBSET App
    BY DEF Disk
  <2>2. Found \in {entries.apps, entries.apps \cap Named, entries.apps \cap Pathed, {}}
    OBVIOUS
  <2> HIDE DEF Found
  <2> QED BY <2>1, <2>2
<1>2. Spot!SearchApplications(query) = [i \in 1..n |-> G(i)]
  BY DEF Spot!SearchApplications, Spot!Cardinality, Cardinality
<1> HIDE DEF Found, Earlier
<1>3. n \in Nat
  BY <1>1, FS_Subset, FS_CardinalityType, SpotlightAssumption
<1> HIDE DEF n, G
<1>4. [i \in 1..n |-> G(i)] \in Seq(Xs)
  BY <1>3
<1> HIDE DEF Xs
<1> QED BY <1>2, <1>4 DEF SpotListed

\* A mode's search gives results.
LEMMA ListedSearch ==
  ASSUME NEW mode, NEW query, entries \in Disk, Lib(library)
  PROVE  SpotListed(Spot!Searched(mode, query))
<1> DEFINE s == Spot!Searched(mode, query)
<1>0. \/ s = Spot!SearchApplications(query) \/ s = Spot!SearchCommands(query) \/ s = Spot!SearchClipboard(query, Spot!Rows)
      \/ s = <<<<"note", 1>>, <<"note", 2>>>> \/ s = Spot!Calculate(query)
  BY DEF Spot!Searched
<1>1. SpotListed(<<>>)
  <2>1. <<>> \in Seq({})
    OBVIOUS
  <2> QED BY <2>1 DEF SpotListed
<1>2. SpotListed(Spot!SearchApplications(query))
  BY ListedFinds
<1>3. \A x, y : SpotListed(<<x, y>>)
  <2> TAKE x, y
  <2>1. <<x, y>> \in Seq({x, y})
    OBVIOUS
  <2> QED BY <2>1 DEF SpotListed
<1>4. \A x : SpotListed(<<x>>)
  <2> TAKE x
  <2>1. <<x>> \in Seq({x})
    OBVIOUS
  <2> QED BY <2>1 DEF SpotListed
<1>5. SpotListed(Spot!SearchCommands(query))
  BY <1>1, <1>3 DEF Spot!SearchCommands
<1>6. SpotListed(Spot!Calculate(query))
  BY <1>1, <1>4 DEF Spot!Calculate
<1>7. SpotListed(Spot!SearchClipboard(query, Spot!Rows))
  <2>1. Spot!Rows \in Nat
    BY DEF Spot!Rows, Lib
  <2> DEFINE r == Spot!Rows
             f == [i \in 1..r |-> <<"clip", r + 1 - i>>]
             Xs == {<<"clip", r + 1 - i>> : i \in 1..r}
  <2>2. Spot!SearchClipboard(query, Spot!Rows) \in {<<>>, f}
    BY DEF Spot!SearchClipboard
  <2> HIDE DEF r
  <2>3. f \in Seq(Xs)
    <3>1. r \in Nat
      BY <2>1 DEF r
    <3> DEFINE G(i) == <<"clip", r + 1 - i>>
               Y == {G(i) : i \in 1..r}
    <3> HIDE DEF G
    <3>2. [i \in 1..r |-> G(i)] \in Seq(Y)
      BY <3>1
    <3> QED BY <3>2 DEF G
  <2>4. SpotListed(f)
    <3> HIDE DEF Xs, f
    <3> QED BY <2>3 DEF SpotListed
  <2> QED BY <1>1, <2>2, <2>4
<1> QED BY <1>0, <1>2, <1>3, <1>5, <1>6, <1>7

\* Generating a mode's items, and calculating, gives results.
LEMMA ListedGenerate ==
  ASSUME NEW mode \in Spot!Modes, NEW query, entries \in Disk, Lib(library)
  PROVE  /\ mode # "calculator" => SpotListed(Spot!Generate(mode, query))
         /\ SpotListed(Spot!Calculate(query))
<1>1. mode # "calculator" => SpotListed(Spot!Generate(mode, query))
  <2>1. SpotListed(Spot!Searched(mode, query))
    BY ListedSearch
  <2> QED BY <2>1 DEF Spot!Generate, Lib, Cached
<1>2. SpotListed(Spot!Searched("calculator", query))
  BY ListedSearch
<1>3. Spot!Searched("calculator", query) = Spot!Calculate(query)
  BY DEF Spot!Searched
<1> QED BY <1>1, <1>2, <1>3

\* With another cache, or other rows.
LEMMA ReadLib ==
  ASSUME NEW l, Lib(l), NEW x \in Nat, NEW y
  PROVE  LET q == [l EXCEPT !.rows = x, !.fresh = y]
         IN  Lib(q) /\ q.cache = l.cache /\ q.usage = l.usage /\ q.launches = l.launches
<1> DEFINE q == [l EXCEPT !.rows = x, !.fresh = y]
<1>1. q = [cache_enabled |-> l.cache_enabled, usage |-> l.usage, launches |-> l.launches, copied |-> l.copied,
          rows |-> x, fresh |-> y, cache |-> l.cache]
  <2> DEFINE r == [l EXCEPT !.rows = x]
  <2>1. r = [cache_enabled |-> l.cache_enabled, usage |-> l.usage, launches |-> l.launches, copied |-> l.copied,
             rows |-> x, fresh |-> l.fresh, cache |-> l.cache]
    BY DEF Lib
  <2> HIDE DEF r
  <2>2. [r EXCEPT !.fresh = y] = [cache_enabled |-> l.cache_enabled, usage |-> l.usage, launches |-> l.launches, copied |-> l.copied,
             rows |-> x, fresh |-> y, cache |-> l.cache]
    BY <2>1
  <2> QED BY <2>2 DEF r
<1> HIDE DEF q
<1>2. Lib(q) /\ q.cache = l.cache /\ q.usage = l.usage /\ q.launches = l.launches
  BY <1>1 DEF Lib
<1> QED BY <1>2 DEF q

\* Filling one mode's cache leaves the library a library and the other modes alone.
LEMMA CacheLib ==
  ASSUME NEW l, Lib(l), NEW m \in Cached, NEW v \in Nat, NEW items, SpotListed(items)
  PROVE  LET q == [l EXCEPT !.cache[m] = [version |-> v, items |-> items]]
         IN  /\ Lib(q) /\ q.usage = l.usage /\ q.launches = l.launches
             /\ \A k \in Cached : q.cache[k] = IF k = m THEN [version |-> v, items |-> items] ELSE l.cache[k]
<1> DEFINE r == [version |-> v, items |-> items]
           c == [l.cache EXCEPT ![m] = r]
           q == [l EXCEPT !.cache[m] = r]
<1>1. q = [cache_enabled |-> l.cache_enabled, usage |-> l.usage, launches |-> l.launches, copied |-> l.copied,
           rows |-> l.rows, fresh |-> l.fresh, cache |-> c]
  BY DEF Lib
<1>2. r.version = v /\ r.items = items
  OBVIOUS
<1> HIDE DEF r
<1>3. c = [k \in Cached |-> IF k = m THEN r ELSE l.cache[k]]
  BY DEF Lib
<1>4. \A k \in Cached : c[k] = IF k = m THEN r ELSE l.cache[k]
  BY <1>3
<1>5. c = [k \in Cached |-> c[k]]
  BY <1>3
<1> HIDE DEF c, q
<1>6. Lib(q)
  BY <1>1, <1>2, <1>4, <1>5 DEF Lib
<1>7. q.usage = l.usage /\ q.launches = l.launches /\ q.cache = c
  BY <1>1
<1> QED BY <1>4, <1>6, <1>7 DEF q, r

\* Generating leaves a library whose cache of applications fits the disk and the launches.
LEMMA GeneratedKeeps ==
  ASSUME NEW mode \in Spot!Modes, NEW query, entries \in Disk, Lib(library), CacheFits
  PROVE  LET q == Spot!Generated(mode, query)
         IN  Lib(q) /\ SpotFits(q.cache["applications"], entries.version + q.launches, q.usage, entries.apps, entries.threads)
<1> DEFINE x == IF mode = "clipboard" THEN Spot!Rows ELSE library.rows
           y == library.fresh \/ mode = "clipboard"
           read == [library EXCEPT !.rows = x, !.fresh = y]
           items == Spot!Searched(mode, query)
           v == Spot!Version(mode)
           kept == [read EXCEPT !.cache[mode] = [version |-> v, items |-> items]]
           q == Spot!Generated(mode, query)
           Ok(l) == Lib(l) /\ SpotFits(l.cache["applications"], entries.version + l.launches, l.usage, entries.apps, entries.threads)
<1>1. Ok(library)
  BY DEF CacheFits
<1>2. x \in Nat /\ SpotListed(items) /\ v \in Nat /\ entries.version + library.launches \in Nat
  <2>1. SpotListed(items)
    BY ListedSearch
  <2>2. v \in Nat /\ entries.version + library.launches \in Nat
    BY DEF Spot!Version, Lib, Disk
  <2> QED BY <2>1, <2>2 DEF Spot!Rows, Lib
<1>3. Spot!Generated(mode, query) = IF mode = "calculator" \/ Spot!Hit(mode, query) THEN library
         ELSE IF library.cache_enabled /\ query = <<>> /\ (items # <<>> \/ v > 0) THEN kept ELSE read
  BY DEF Spot!Generated
<1>4. mode = "applications" => v = entries.version + library.launches
  BY DEF Spot!Version
<1>5. mode = "applications" /\ query = <<>> => items = Sorted(library.usage, entries.apps)
  BY SearchIs DEF Spot!Searched
<1> HIDE DEF x, y, items, v
<1>6. Lib(read) /\ read.cache = library.cache /\ read.usage = library.usage /\ read.launches = library.launches
  BY <1>2, ReadLib
<1> HIDE DEF read
<1>7. Ok(read)
  BY <1>1, <1>6
<1>8. CASE mode # "calculator" /\ query = <<>>
  <2>1. mode \in Cached /\ "applications" \in Cached
    BY <1>8 DEF Cached, Spot!Modes
  <2>2. /\ Lib(kept) /\ kept.usage = read.usage /\ kept.launches = read.launches
        /\ \A k \in Cached : kept.cache[k] = IF k = mode THEN [version |-> v, items |-> items] ELSE read.cache[k]
    BY <1>2, <1>6, <2>1, CacheLib
  <2> HIDE DEF kept
  <2>3. CASE mode = "applications"
    <3>1. kept.cache["applications"].version = v /\ kept.cache["applications"].items = items
      BY <2>1, <2>2, <2>3
    <3>2. Ok(kept)
      BY <1>2, <1>4, <1>5, <1>6, <1>8, <2>2, <2>3, <3>1 DEF SpotFits
    <3> QED BY <1>1, <1>3, <1>7, <3>2
  <2>4. CASE mode # "applications"
    <3>1. kept.cache["applications"] = read.cache["applications"]
      BY <2>1, <2>2, <2>4
    <3>2. Ok(kept)
      BY <1>7, <2>2, <3>1
    <3> QED BY <1>1, <1>3, <1>7, <3>2
  <2> QED BY <2>3, <2>4
<1>9. CASE mode = "calculator" \/ query # <<>>
  BY <1>1, <1>3, <1>7, <1>9
<1> QED BY <1>8, <1>9

\* What the style, the window and the mode leave of the spotlight.
SpotKept(p, q) ==
  /\ SpotWhole(q) /\ SpotFields(q)
  /\ q.search = p.search /\ q.selected = p.selected /\ q.action = p.action /\ q.closing = p.closing
  /\ q.shown = p.shown /\ q.pending = p.pending

\* Keeping is transitive.
LEMMA KeptOn ==
  ASSUME NEW p, NEW q, NEW r, SpotKept(p, q), SpotKept(q, r)
  PROVE  SpotKept(p, r)
BY DEF SpotKept

\* Clamping the display keeps the spotlight, and gives it a style its mode has.
LEMMA StyledKept ==
  ASSUME NEW p, SpotWhole(p), SpotFields(p)
  PROVE  /\ SpotKept(p, Spot!Styled(p)) /\ Spot!Styled(p).display \in 0..(Len(Spot!Displays(p.mode)) - 1)
         /\ Spot!Styled(p).mode = p.mode /\ Spot!Styled(p).expanded = p.expanded
         /\ Spot!Style(Spot!Styled(p)) \in Styles
<1> DEFINE allowed == Spot!Displays(p.mode)
           P(i) == allowed[i] = p.requested \/ p.requested \notin Spot!Range(allowed)
           asked == CHOOSE i \in 1..Len(allowed) : P(i)
           at == IF p.requested = "none" THEN p.display ELSE asked - 1
           d == Spot!DisplayIndex(p)
           q == Spot!Styled(p)
<1>1. /\ Len(allowed) \in {1, 2} /\ DOMAIN allowed = 1..Len(allowed)
      /\ \A i \in DOMAIN allowed : allowed[i] \in Styles
  BY DisplaysAre
<1>2. d = IF at >= Len(allowed) THEN 0 ELSE at
  BY DEF Spot!DisplayIndex
<1> HIDE DEF allowed
<1>3. asked \in 1..Len(allowed)
  <2>1. \E i \in 1..Len(allowed) : P(i)
    <3>1. CASE p.requested \in Spot!Range(allowed)
      BY <1>1, <3>1 DEF Spot!Range
    <3>2. CASE p.requested \notin Spot!Range(allowed)
      BY <1>1, <3>2
    <3> QED BY <3>1, <3>2
  <2> HIDE DEF P
  <2> QED BY <2>1
<1> HIDE DEF asked
<1>4. at \in Nat /\ at - 1 <= 1
  BY <1>1, <1>3 DEF SpotFields
<1> HIDE DEF at, d
<1>5. d \in 0..(Len(allowed) - 1) /\ d \in 0..1
  BY <1>1, <1>2, <1>4
<1>6. SpotWhole(q)
  BY StyledWhole
<1>7. /\ q.search = p.search /\ q.selected = p.selected /\ q.action = p.action /\ q.display = d /\ q.mode = p.mode /\ q.base = p.base
      /\ q.start = p.start /\ q.end = p.end /\ q.closing = p.closing /\ q.shown = p.shown /\ q.pending = p.pending
      /\ q.expanded = p.expanded
  BY DEF SpotWhole, Spot!Styled, d
<1> HIDE DEF q
<1>8. SpotKept(p, q)
  BY <1>5, <1>6, <1>7 DEF SpotKept, SpotFields
<1>9. Spot!Style(q) = allowed[d + 1]
  BY <1>7 DEF Spot!Style, allowed
<1>10. d + 1 \in DOMAIN allowed
  BY <1>1, <1>5
<1>11. Spot!Style(q) \in Styles
  BY <1>1, <1>9, <1>10
<1> QED BY <1>5, <1>7, <1>8, <1>11 DEF q, allowed

\* Clamping the window keeps the spotlight.
LEMMA WindowedKept ==
  ASSUME NEW p, SpotWhole(p), SpotFields(p), Spot!Style(p) \in Styles, NEW n \in Nat
  PROVE  /\ SpotKept(p, Spot!Windowed(p, n)) /\ Spot!Windowed(p, n).expanded = p.expanded /\ Spot!Windowed(p, n).mode = p.mode
         /\ Spot!Style(Spot!Windowed(p, n)) = Spot!Style(p)
<1> DEFINE page == Page[Spot!Style(p)]
           x == Spot!RenderStart(p, n)
           y == Spot!Least(x + page, n)
           q == [p EXCEPT !.start = x, !.end = y]
<1>1. page \in Nat \ {0}
  BY SpotlightAssumption
<1>2. x = IF n <= page THEN 0 ELSE Spot!Least(p.start, n - page)
  BY DEF Spot!RenderStart
<1>3. Spot!Windowed(p, n) = IF p.mode = "calculator" THEN p ELSE q
  BY DEF Spot!Windowed
<1> HIDE DEF page, x
<1>4. x \in Nat
  BY <1>1, <1>2 DEF Spot!Least, SpotFields
<1>5. y \in Nat
  BY <1>1, <1>4 DEF Spot!Least
<1> HIDE DEF y
<1>6. SpotWhole(q)
  BY TwoWhole
<1>7. /\ q.search = p.search /\ q.selected = p.selected /\ q.action = p.action /\ q.display = p.display /\ q.mode = p.mode /\ q.base = p.base
      /\ q.start = x /\ q.end = y /\ q.closing = p.closing /\ q.shown = p.shown /\ q.pending = p.pending
      /\ q.expanded = p.expanded
  BY DEF SpotWhole
<1> HIDE DEF q
<1>8. SpotKept(p, q) /\ SpotKept(p, p) /\ Spot!Style(q) = Spot!Style(p)
  BY <1>4, <1>5, <1>6, <1>7 DEF SpotKept, SpotFields, Spot!Style
<1> QED BY <1>3, <1>7, <1>8

\* Switching the mode by the query keeps the spotlight and its window.
LEMMA SwitchedKept ==
  ASSUME NEW p, SpotWhole(p), SpotFields(p)
  PROVE  /\ SpotKept(p, Spot!Switched(p)) /\ Spot!Switched(p).start = p.start
         /\ p.expanded = <<>> => Spot!Switched(p).expanded = <<>>
<1> DEFINE m == IF Spot!Triggered(p.search) = "none" THEN p.base ELSE Spot!Triggered(p.search)
           q == [p EXCEPT !.mode = m, !.display = 0, !.expanded = <<>>]
<1>1. m \in Spot!Modes
  BY DEF Spot!Triggered, SpotFields, Spot!Modes
<1>2. Spot!Switched(p) \in {p, q}
  BY DEF Spot!Switched, Spot!InMode
<1> HIDE DEF m
<1>3. SpotWhole(q)
  BY IntoWhole
<1>4. /\ q.search = p.search /\ q.selected = p.selected /\ q.action = p.action /\ q.display = 0 /\ q.mode = m /\ q.base = p.base
      /\ q.start = p.start /\ q.end = p.end /\ q.closing = p.closing /\ q.shown = p.shown /\ q.pending = p.pending
      /\ q.expanded = <<>>
  BY DEF SpotWhole
<1> HIDE DEF q
<1>5. 0 \in 0..1
  OBVIOUS
<1>6. SpotKept(p, q) /\ SpotKept(p, p)
  BY <1>1, <1>3, <1>4, <1>5 DEF SpotKept, SpotFields
<1> QED BY <1>2, <1>4, <1>6

\* What is shown of the results.
LEMMA ShowsSees ==
  ASSUME NEW p, SpotFields(p), Spot!Style(p) \in Styles, NEW items, SpotListed(items)
  PROVE  Sees(Spot!Shows(p, items))
<1> DEFINE w == Spot!Shows(p, items)
<1>1. <<>> \in Seq({})
  OBVIOUS
<1>2. SpotListed(<<>>)
  BY <1>1 DEF SpotListed
<1>3. /\ w.kind \in {"expanded", "single", "list"} /\ w.items \in {<<>>, items} /\ w.style = Spot!Style(p) /\ w.start = p.start
  BY DEF Spot!Shows
<1>4. w = [kind |-> w.kind, mode |-> w.mode, query |-> w.query, items |-> w.items, style |-> w.style,
          start |-> w.start, selected |-> w.selected, action |-> w.action]
  BY DEF Spot!Shows
<1> HIDE DEF w
<1>5. Sees(w)
  BY <1>2, <1>3, <1>4 DEF Sees, Kinds, SpotFields
<1> QED BY <1>5 DEF w

\* A spotlight that is closed, opened, or acted upon.
LEMMA CloseKeeps ==
  ASSUME NEW p, SpotWhole(p), SpotFields(p)
  PROVE  SpotWhole(Spot!Close(p)) /\ SpotFields(Spot!Close(p)) /\ Spot!Close(p).shown = FALSE
<1> DEFINE q == Spot!Fresh(p, "applications", "none")
           t == FALSE
           r == [q EXCEPT !.shown = t]
<1>1. SpotWhole(q) /\ SpotFields(q)
  BY FreshFields DEF Spot!Modes
<1>2. Spot!Close(p) = r
  BY DEF Spot!Close
<1>3. t \in BOOLEAN /\ t = FALSE
  OBVIOUS
<1> HIDE DEF q, t
<1>4. SpotWhole(r)
  BY <1>1, OneWhole
<1>5. /\ r.search = q.search /\ r.selected = q.selected /\ r.action = q.action /\ r.display = q.display /\ r.mode = q.mode /\ r.base = q.base
      /\ r.start = q.start /\ r.end = q.end /\ r.closing = q.closing /\ r.shown = t /\ r.pending = q.pending
  BY <1>1 DEF SpotWhole
<1> HIDE DEF r
<1>6. SpotFields(r)
  BY <1>1, <1>3, <1>5 DEF SpotFields
<1> QED BY <1>2, <1>3, <1>4, <1>5, <1>6

\* Opening gives a whole spotlight with nothing waiting.
LEMMA OpenKeeps ==
  ASSUME NEW p, SpotWhole(p), SpotFields(p), NEW mode \in Spot!Modes, NEW style
  PROVE  /\ SpotWhole(Spot!Open(p, mode, style)) /\ SpotFields(Spot!Open(p, mode, style)) /\ Spot!Open(p, mode, style).shown = TRUE
         /\ Spot!Open(p, mode, style).closing = FALSE /\ Spot!Open(p, mode, style).pending = <<>>
<1> DEFINE f == Spot!Fresh(p, mode, style)
           q == Spot!Rewound(f)
           t == TRUE
           u == FALSE
           r == [q EXCEPT !.closing = u, !.shown = t]
<1>0. Spot!Open(p, mode, style) = r
  BY DEF Spot!Open
<1>1. SpotWhole(f) /\ SpotFields(f)
  BY FreshFields
<1> HIDE DEF f
<1>2. SpotWhole(q) /\ SpotFields(q) /\ q.pending = <<>>
  BY <1>1, RewoundFields
<1>3. t \in BOOLEAN /\ t = TRUE /\ u \in BOOLEAN /\ u = FALSE
  OBVIOUS
<1> HIDE DEF q, t, u
<1>4. SpotWhole(r)
  BY <1>2, ShutWhole
<1>5. /\ r.search = q.search /\ r.selected = q.selected /\ r.action = q.action /\ r.display = q.display /\ r.mode = q.mode /\ r.base = q.base
      /\ r.start = q.start /\ r.end = q.end /\ r.closing = u /\ r.shown = t /\ r.pending = q.pending
  BY <1>2 DEF SpotWhole
<1> HIDE DEF r
<1>6. SpotFields(r)
  BY <1>2, <1>3, <1>5 DEF SpotFields
<1> QED BY <1>0, <1>2, <1>3, <1>4, <1>5, <1>6

\* Taking what waits, and moving the selection, leave a whole spotlight.
LEMMA SettledKeeps ==
  ASSUME NEW p, SpotWhole(p), SpotFields(p), NEW n \in Nat
  PROVE  /\ SpotWhole([p EXCEPT !.pending = <<>>]) /\ SpotFields([p EXCEPT !.pending = <<>>])
         /\ [p EXCEPT !.pending = <<>>].pending = <<>> /\ [p EXCEPT !.pending = <<>>].closing = p.closing
         /\ [p EXCEPT !.pending = <<>>].shown = p.shown
         /\ SpotWhole([p EXCEPT !.selected = n]) /\ SpotFields([p EXCEPT !.selected = n])
         /\ [p EXCEPT !.selected = n].pending = p.pending /\ [p EXCEPT !.selected = n].closing = p.closing
         /\ [p EXCEPT !.selected = n].shown = p.shown
         /\ Makes(p, [p EXCEPT !.expanded = <<>>])
<1> DEFINE e == <<>>
           q == [p EXCEPT !.pending = e]
           r == [p EXCEPT !.selected = n]
           s == [p EXCEPT !.expanded = e]
<1>0. e = <<>>
  OBVIOUS
<1> HIDE DEF e
<1>1. SpotWhole(q) /\ SpotWhole(r) /\ SpotWhole(s)
  BY OneWhole
<1>2. /\ q.search = p.search /\ q.selected = p.selected /\ q.action = p.action /\ q.display = p.display /\ q.mode = p.mode /\ q.base = p.base
      /\ q.start = p.start /\ q.end = p.end /\ q.closing = p.closing /\ q.shown = p.shown /\ q.pending = e
  BY DEF SpotWhole
<1>3. /\ r.search = p.search /\ r.selected = n /\ r.action = p.action /\ r.display = p.display /\ r.mode = p.mode /\ r.base = p.base
      /\ r.start = p.start /\ r.end = p.end /\ r.closing = p.closing /\ r.shown = p.shown /\ r.pending = p.pending
  BY DEF SpotWhole
<1>4. /\ s.search = p.search /\ s.selected = p.selected /\ s.action = p.action /\ s.display = p.display /\ s.mode = p.mode /\ s.base = p.base
      /\ s.start = p.start /\ s.end = p.end /\ s.closing = p.closing /\ s.shown = p.shown /\ s.pending = p.pending
  BY DEF SpotWhole
<1> HIDE DEF q, r, s
<1>5. SpotFields(q) /\ SpotFields(r) /\ SpotFields(s)
  BY <1>2, <1>3, <1>4 DEF SpotFields
<1>6. Makes(p, s)
  BY <1>1, <1>4, <1>5 DEF Makes
<1> QED BY <1>0, <1>1, <1>2, <1>3, <1>5, <1>6 DEF q, r, s

\* A redraw is on its way.
Awaited == \E i \in DOMAIN inbox : inbox[i] = 0

\* What the spotlight and its window agree on.
Agree ==
  /\ seen.kind # "none" => spot.shown
  /\ inbox # <<>> => seen.kind # "none"
  /\ seen.kind # "none" /\ (spot.closing \/ spot.pending # <<>>) => Awaited
  /\ seen.kind # "none" /\ spot.pending # <<>> => Good(spot.pending, seen)

SpotTypes ==
  /\ SpotWhole(spot) /\ SpotFields(spot) /\ Sees(seen) /\ inbox \in Seq(Nat) /\ stale \in BOOLEAN
  /\ entries \in Disk /\ Lib(library)
SpotInv == SpotTypes /\ Agree /\ Spot!ActsOnWhatIsShown /\ CacheFits

\* The cache's invariants read the entries and the library only.
LEMMA Elsewhere ==
  ASSUME CacheFits, Lib(library), entries \in Disk, UNCHANGED <<entries, library>>
  PROVE  CacheFits' /\ Lib(library') /\ entries' \in Disk
BY DEF CacheFits

\* Nothing drawn is a legal view.
LEMMA NoOneSeen == Sees(Spot!Nothing) /\ Spot!Nothing.kind = "none"
<1>1. <<>> \in Seq({})
  OBVIOUS
<1>2. SpotListed(<<>>)
  BY <1>1 DEF SpotListed
<1>3. "list" \in Styles /\ "none" \in Kinds /\ 0 \in Nat
  BY DEF Styles, Kinds
<1> QED BY <1>2, <1>3 DEF Spot!Nothing, Sees

\* A key or a click: it leaves a message.
LEMMA PublishKeeps ==
  ASSUME SpotInv, seen.kind # "none", NEW p, Makes(spot, p), NEW messages \in Seq(Nat), messages # <<>>,
         (\E i \in DOMAIN messages : messages[i] = 0) \/ p = spot, Spot!Publish(p, messages)
  PROVE  SpotInv'
<1>1. /\ spot' = p /\ inbox' = inbox \o messages /\ UNCHANGED <<seen, stale, entries, library>>
  BY DEF Spot!Publish
<1>2. /\ inbox' \in Seq(Nat) /\ inbox' # <<>>
      /\ Awaited \/ (\E i \in DOMAIN messages : messages[i] = 0) => Awaited'
  <2>1. inbox \in Seq(Nat)
    BY DEF SpotInv, SpotTypes
  <2> DEFINE s == inbox \o messages
  <2>2. /\ s \in Seq(Nat) /\ Len(s) = Len(inbox) + Len(messages)
        /\ \A i \in 1..Len(s) : s[i] = IF i <= Len(inbox) THEN inbox[i] ELSE messages[i - Len(inbox)]
    BY <2>1, ConcatProperties
  <2>3. Len(messages) > 0 /\ Len(inbox) \in Nat /\ DOMAIN messages = 1..Len(messages) /\ DOMAIN inbox = 1..Len(inbox)
    BY <2>1
  <2> HIDE DEF s
  <2>4. DOMAIN s = 1..Len(s) /\ s # <<>>
    BY <2>2, <2>3
  <2>5. ASSUME NEW i \in DOMAIN messages, messages[i] = 0
        PROVE  \E j \in DOMAIN s : s[j] = 0
    <3>1. i + Len(inbox) \in 1..Len(s) /\ s[i + Len(inbox)] = messages[i]
      BY <2>2, <2>3, <2>5
    <3> QED BY <2>4, <2>5, <3>1
  <2>6. ASSUME NEW i \in DOMAIN inbox, inbox[i] = 0
        PROVE  \E j \in DOMAIN s : s[j] = 0
    <3>1. i \in 1..Len(s) /\ s[i] = inbox[i]
      BY <2>2, <2>3, <2>6
    <3> QED BY <2>4, <2>6, <3>1
  <2>7. inbox' = s
    BY <1>1 DEF s
  <2> QED BY <2>2, <2>4, <2>5, <2>6, <2>7 DEF Awaited
<1>3. SpotTypes'
  BY <1>1, <1>2 DEF SpotInv, SpotTypes, Makes
<1>4. Agree'
  <2>1. Good(p.pending, seen) => Good(p.pending, seen)'
    BY <1>1 DEF Good
  <2>2. Good(spot.pending, seen) /\ p.pending = spot.pending => Good(p.pending, seen)
    OBVIOUS
  <2>3. (seen.kind # "none" /\ spot'.pending # <<>>) => Good(spot'.pending, seen')
    BY <1>1, <2>1, <2>2 DEF SpotInv, Agree, Makes
  <2>4. (seen.kind # "none" /\ (spot'.closing \/ spot'.pending # <<>>)) => Awaited'
    BY <1>1, <1>2 DEF SpotInv, Agree
  <2>5. spot'.shown
    BY <1>1 DEF SpotInv, Agree, Makes
  <2> QED BY <1>1, <2>3, <2>4, <2>5 DEF Agree
<1>5. Spot!ActsOnWhatIsShown'
  BY <1>2 DEF Spot!ActsOnWhatIsShown
<1>6. CacheFits'
  BY <1>1 DEF SpotInv, CacheFits
<1> QED BY <1>3, <1>4, <1>5, <1>6 DEF SpotInv

\* An input on what is drawn keeps the spotlight's invariant.
LEMMA InputKeeps ==
  ASSUME SpotInv, seen.kind # "none", NEW p, Makes(spot, p), Spot!Input(p, 0)
  PROVE  SpotInv'
<1> DEFINE m == <<0>>
<1>1. m \in Seq(Nat) /\ m # <<>> /\ 1 \in DOMAIN m /\ m[1] = 0
  OBVIOUS
<1>2. Spot!Publish(p, m)
  BY DEF Spot!Input
<1> HIDE DEF m
<1> QED BY <1>1, <1>2, PublishKeeps

\* A click on a result keeps the spotlight's invariant.
LEMMA ClickResultKeeps == SpotInv /\ Spot!ClickResult => SpotInv'
<1> SUFFICES ASSUME SpotInv, Spot!ClickResult PROVE SpotInv'
  OBVIOUS
<1>1. seen.kind # "none" /\ SpotWhole(spot) /\ SpotFields(spot) /\ Sees(seen)
  BY DEF Spot!ClickResult, Spot!Keyed, SpotInv, SpotTypes
<1>2. PICK place \in Spot!Places :
        Spot!Publish(Spot!ClickTile(spot, place),
                IF seen.kind = "list" /\ seen.start + place < Spot!Results THEN <<0, seen.start + place + 1>> ELSE <<0>>)
  BY DEF Spot!ClickResult
<1> DEFINE m == IF seen.kind = "list" /\ seen.start + place < Spot!Results THEN <<0, seen.start + place + 1>> ELSE <<0>>
<1>3. place \in Nat
  <2>1. Page[seen.style] \in Nat
    BY <1>1, SpotlightAssumption DEF Sees
  <2> QED BY <2>1 DEF Spot!Places
<1>4. m \in Seq(Nat) /\ m # <<>> /\ 1 \in DOMAIN m /\ m[1] = 0
  <2> DEFINE n == seen.start + place + 1
  <2>1. n \in Nat
    BY <1>1, <1>3 DEF Sees
  <2>2. m = <<0, n>> \/ m = <<0>>
    OBVIOUS
  <2> HIDE DEF n, m
  <2>3. CASE m = <<0, n>>
    BY <2>1, <2>3
  <2>4. CASE m = <<0>>
    BY <2>4
  <2> QED BY <2>2, <2>3, <2>4
<1>5. Makes(spot, Spot!ClickTile(spot, place))
  BY <1>1, <1>3, ClickMakes
<1>6. Spot!Publish(Spot!ClickTile(spot, place), m)
  BY <1>2
<1> HIDE DEF m
<1> QED BY <1>1, <1>4, <1>5, <1>6, PublishKeeps

\* A right click keeps it.
LEMMA ClickRightKeeps == SpotInv /\ Spot!ClickRight => SpotInv'
<1> SUFFICES ASSUME SpotInv, Spot!ClickRight PROVE SpotInv'
  OBVIOUS
<1>1. seen.kind # "none" /\ SpotWhole(spot) /\ SpotFields(spot) /\ Sees(seen)
  BY DEF Spot!ClickRight, Spot!Keyed, SpotInv, SpotTypes
<1>2. PICK i \in 0..(Spot!Results - 1) : Spot!Input(spot, i + 1)
  BY DEF Spot!ClickRight
<1> DEFINE n == i + 1
           m == <<n>>
<1>3. n \in Nat
  OBVIOUS
<1>4. Spot!Publish(spot, m)
  BY <1>2 DEF Spot!Input
<1> HIDE DEF n
<1>5. m \in Seq(Nat) /\ m # <<>>
  BY <1>3
<1>6. Makes(spot, spot)
  BY <1>1 DEF Makes
<1> HIDE DEF m
<1> QED BY <1>1, <1>4, <1>5, <1>6, PublishKeeps

\* A key keeps it.
LEMMA KeysKeep == SpotInv /\ Spot!Key => SpotInv'
<1> SUFFICES ASSUME SpotInv, Spot!Key PROVE SpotInv'
  OBVIOUS
<1>0. SpotWhole(spot) /\ SpotFields(spot) /\ Sees(seen)
  BY DEF SpotInv, SpotTypes
<1>1. ASSUME Spot!PressEscape PROVE SpotInv'
  BY <1>0, <1>1, DismissMakes, InputKeeps DEF Spot!PressEscape, Spot!Keyed
<1>2. ASSUME Spot!PressEnter PROVE SpotInv'
  BY <1>0, <1>2, EnterMakes, InputKeeps DEF Spot!PressEnter, Spot!Keyed
<1>3. ASSUME Spot!PressTab PROVE SpotInv'
  BY <1>0, <1>3, NextActionMakes, InputKeeps DEF Spot!PressTab, Spot!Keyed
<1>4. ASSUME Spot!PressCtrlTab PROVE SpotInv'
  BY <1>0, <1>4, NextDisplayMakes, InputKeeps DEF Spot!PressCtrlTab, Spot!Keyed
<1>5. ASSUME Spot!PressUp PROVE SpotInv'
  BY <1>0, <1>5, ArrowsMake, InputKeeps DEF Spot!PressUp, Spot!Keyed
<1>6. ASSUME Spot!PressDown PROVE SpotInv'
  BY <1>0, <1>6, ArrowsMake, InputKeeps DEF Spot!PressDown, Spot!Keyed
<1>7. ASSUME Spot!PressBackspace PROVE SpotInv'
  <2> DEFINE query == IF spot.search = <<>> THEN <<>> ELSE Spot!Front(spot.search)
  <2>1. query \in Seq(Chars) /\ Len(query) <= MaxQuery
    <3> DEFINE s == spot.search
    <3>1. s \in Seq(Chars) /\ Len(s) <= MaxQuery
      BY <1>0 DEF SpotFields
    <3>2. query = IF s = <<>> THEN <<>> ELSE SubSeq(s, 1, Len(s) - 1)
      BY DEF Spot!Front
    <3> HIDE DEF s, query
    <3>3. CASE s = <<>>
      BY <3>1, <3>2, <3>3
    <3>4. CASE s # <<>>
      <4>1. Len(s) \in Nat /\ Len(s) > 0
        BY <3>1, <3>4
      <4>2. query = SubSeq(s, 1, Len(s) - 1)
        BY <3>2, <3>4
      <4>3. query \in Seq(Chars) /\ Len(query) = Len(s) - 1
        <5> DEFINE n == Len(s) - 1
        <5>1. 1 \in Int /\ n \in Int /\ n >= 0 /\ \A i \in 1..n : s[i] \in Chars
          BY <3>1, <4>1
        <5> HIDE DEF n
        <5>2. SubSeq(s, 1, n) \in Seq(Chars) /\ Len(SubSeq(s, 1, n)) = IF 1 <= n THEN n - 1 + 1 ELSE 0
          BY <5>1, SubSeqProperties
        <5>3. Len(SubSeq(s, 1, n)) = n
          BY <5>1, <5>2
        <5> QED BY <4>2, <5>2, <5>3 DEF n
      <4> QED BY <3>1, <4>1, <4>3, SpotlightAssumption
    <3> QED BY <3>3, <3>4
  <2>2. seen.kind # "none" /\ Spot!Input(Spot!Typed(spot, query), 0)
    BY <1>7 DEF Spot!PressBackspace, Spot!Keyed
  <2> HIDE DEF query
  <2> QED BY <1>0, <2>1, <2>2, TypedMakes, InputKeeps
<1>8. ASSUME Spot!PressCharacter PROVE SpotInv'
  <2>1. PICK c \in Chars : Spot!Input(Spot!Typed(spot, Append(spot.search, c)), 0)
    BY <1>8 DEF Spot!PressCharacter, Chars
  <2>2. spot.search \in Seq(Chars) /\ Len(spot.search) < MaxQuery /\ seen.kind # "none"
    BY <1>0, <1>8 DEF Spot!PressCharacter, SpotFields, Spot!Keyed
  <2>3. Append(spot.search, c) \in Seq(Chars) /\ Len(Append(spot.search, c)) <= MaxQuery
    BY <2>2, SpotlightAssumption
  <2> QED BY <1>0, <2>1, <2>2, <2>3, TypedMakes, InputKeeps
<1>9. ASSUME Spot!AnyOnExpanded PROVE SpotInv'
  <2>1. 0 \in Nat
    OBVIOUS
  <2>2. Makes(spot, [spot EXCEPT !.expanded = <<>>])
    BY <1>0, <2>1, SettledKeeps
  <2>3. seen.kind # "none" /\ Spot!Input([spot EXCEPT !.expanded = <<>>], 0)
    BY <1>9 DEF Spot!AnyOnExpanded
  <2> QED BY <2>2, <2>3, InputKeeps
<1> QED BY <1>1, <1>2, <1>3, <1>4, <1>5, <1>6, <1>7, <1>8, <1>9, ClickResultKeeps, ClickRightKeeps DEF Spot!Key

\* Drawing keeps it: what is drawn is what the spotlight then holds.
LEMMA DrawKeeps == SpotInv /\ Spot!Draw => SpotInv'
<1> SUFFICES ASSUME SpotInv, Spot!Draw PROVE SpotInv'
  OBVIOUS
<1> DEFINE p == Spot!Styled(spot)
           items == IF p.mode = "calculator" THEN Spot!Calculate(p.search) ELSE Spot!Generate(p.mode, p.search)
           n == Len(items)
           w == Spot!Windowed(p, n)
<1>0. /\ SpotWhole(spot) /\ SpotFields(spot) /\ Sees(seen) /\ inbox \in Seq(Nat) /\ entries \in Disk /\ Lib(library)
      /\ Agree /\ CacheFits
  BY DEF SpotInv, SpotTypes
<1>1. /\ inbox = <<>> /\ inbox' = <<>> /\ stale' = FALSE /\ UNCHANGED entries
      /\ \/ seen.kind = "none" /\ UNCHANGED <<spot, seen, library>>
         \/ seen.kind # "none" /\ p.expanded # <<>> /\ spot' = p /\ seen' = Spot!Shows(p, <<>>) /\ UNCHANGED library
         \/ /\ seen.kind # "none" /\ p.expanded = <<>>
            /\ seen' = Spot!Shows(w, items) /\ spot' = Spot!Switched(w) /\ library' = Spot!Generated(p.mode, p.search)
  BY DEF Spot!Draw
<1>2. SpotKept(spot, p) /\ Spot!Style(p) \in Styles
  BY <1>0, StyledKept
<1> HIDE DEF p
<1>3. SpotListed(items)
  <2>1. p.mode \in Spot!Modes
    BY <1>2 DEF SpotKept, SpotFields
  <2> QED BY <1>0, <2>1, ListedGenerate
<1> HIDE DEF items
<1>4. n \in Nat
  BY <1>3, ListedIs
<1> HIDE DEF n
<1>5. SpotKept(p, w) /\ Spot!Style(w) = Spot!Style(p) /\ w.expanded = p.expanded
  BY <1>2, <1>4, WindowedKept DEF SpotKept
<1> HIDE DEF w
<1>6. SpotKept(w, Spot!Switched(w)) /\ Spot!Switched(w).start = w.start /\ (w.expanded = <<>> => Spot!Switched(w).expanded = <<>>)
  BY <1>5, SwitchedKept DEF SpotKept
<1>7. SpotKept(spot, spot')
  <2>1. SpotKept(spot, spot)
    BY <1>0 DEF SpotKept
  <2>2. SpotKept(spot, Spot!Switched(w))
    BY <1>2, <1>5, <1>6, KeptOn
  <2> QED BY <1>1, <1>2, <2>1, <2>2
<1>8. Sees(seen')
  <2>1. SpotListed(<<>>)
    <3>1. <<>> \in Seq({})
      OBVIOUS
    <3> QED BY <3>1 DEF SpotListed
  <2>2. Sees(Spot!Shows(p, <<>>))
    BY <1>2, <2>1, ShowsSees DEF SpotKept
  <2>3. Sees(Spot!Shows(w, items))
    BY <1>2, <1>3, <1>5, ShowsSees DEF SpotKept
  <2> QED BY <1>0, <1>1, <2>2, <2>3
<1>9. CacheFits' /\ Lib(library')
  <2>1. p.mode \in Spot!Modes
    BY <1>2 DEF SpotKept, SpotFields
  <2>2. Lib(Spot!Generated(p.mode, p.search))
        /\ SpotFits(Spot!Generated(p.mode, p.search).cache["applications"], entries.version + Spot!Generated(p.mode, p.search).launches,
                Spot!Generated(p.mode, p.search).usage, entries.apps, entries.threads)
    BY <1>0, <2>1, GeneratedKeeps
  <2>3. CASE UNCHANGED library
    BY <1>0, <1>1, <2>3 DEF CacheFits
  <2>4. CASE library' = Spot!Generated(p.mode, p.search)
    BY <1>1, <2>2, <2>4 DEF CacheFits
  <2> QED BY <1>1, <2>3, <2>4
<1>10. SpotTypes'
  <2>1. FALSE \in BOOLEAN
    OBVIOUS
  <2> QED BY <1>0, <1>1, <1>7, <1>8, <1>9, <2>1 DEF SpotTypes, SpotKept
<1>11. seen.kind # "none" => ~spot.closing /\ spot.pending = <<>> /\ spot.shown
  BY <1>0, <1>1 DEF Agree, Awaited
<1>12. Agree'
  <2>1. seen'.kind # "none" => seen.kind # "none"
    BY <1>1
  <2> QED BY <1>1, <1>7, <1>11, <2>1 DEF Agree, SpotKept
<1>13. Spot!ActsOnWhatIsShown'
  <2>1. CASE seen.kind = "none"
    BY <1>1, <2>1 DEF Spot!ActsOnWhatIsShown
  <2>2. CASE seen.kind # "none" /\ p.expanded # <<>>
    <3>1. seen'.kind = "expanded"
      BY <1>1, <2>2 DEF Spot!Shows
    <3> QED BY <3>1 DEF Spot!ActsOnWhatIsShown
  <2>3. CASE seen.kind # "none" /\ p.expanded = <<>>
    <3>1. /\ seen' = Spot!Shows(w, items) /\ spot' = Spot!Switched(w)
      BY <1>1, <2>3
    <3>2. seen'.query = w.search /\ seen'.selected = w.selected /\ seen'.action = w.action /\ seen'.start = w.start
      BY <3>1 DEF Spot!Shows
    <3>3. /\ spot'.search = w.search /\ spot'.selected = w.selected /\ spot'.action = w.action /\ spot'.start = w.start
          /\ spot'.expanded = <<>>
      BY <1>5, <1>6, <2>3, <3>1 DEF SpotKept
    <3>4. ~spot'.closing
      BY <1>7, <1>11, <2>3 DEF SpotKept
    <3> QED BY <3>2, <3>3, <3>4 DEF Spot!ActsOnWhatIsShown
  <2> QED BY <2>1, <2>2, <2>3
<1> QED BY <1>9, <1>10, <1>12, <1>13 DEF SpotInv

\* What follows a message or a command, which leaves the window to be drawn.
LEMMA StaleActs == ASSUME stale' = TRUE PROVE Spot!ActsOnWhatIsShown'
BY DEF Spot!ActsOnWhatIsShown

\* A window that goes.
LEMMA VanishKeeps ==
  ASSUME SpotInv, SpotWhole(spot'), SpotFields(spot'), Spot!Vanish, stale' = TRUE, UNCHANGED entries, Lib(library'), CacheFits'
  PROVE  SpotInv'
<1>1. inbox' = <<>> /\ seen'.kind = "none" /\ Sees(seen')
  BY NoOneSeen DEF Spot!Vanish
<1>2. <<>> \in Seq(Nat) /\ TRUE \in BOOLEAN
  OBVIOUS
<1>3. SpotTypes'
  BY <1>1, <1>2 DEF SpotInv, SpotTypes
<1>4. Agree'
  BY <1>1 DEF Agree
<1> QED BY <1>3, <1>4, StaleActs DEF SpotInv

\* A command that leaves the spotlight whole keeps its invariant.
LEMMA BecomesKeeps ==
  ASSUME SpotInv, NEW p, SpotWhole(p), SpotFields(p), p.shown => ~p.closing /\ p.pending = <<>>, Spot!Becomes(p), UNCHANGED <<entries, library>>
  PROVE  SpotInv'
<1>0. CacheFits' /\ Lib(library') /\ entries' \in Disk
  BY Elsewhere DEF SpotInv, SpotTypes
<1>1. CASE ~p.shown
  <2>1. Spot!Vanish /\ spot' = p /\ stale' = TRUE
    BY <1>1 DEF Spot!Becomes
  <2> QED BY <1>0, <2>1, VanishKeeps
<1>2. CASE p.shown
  <2> DEFINE k == IF seen.kind = "none" THEN "blank" ELSE seen.kind
  <2>1. /\ spot' = p /\ stale' = TRUE /\ UNCHANGED inbox
        /\ seen' = [seen EXCEPT !.kind = k]
    BY <1>2 DEF Spot!Becomes
  <2>2. k \in Kinds /\ k # "none"
    BY DEF SpotInv, SpotTypes, Sees, Kinds
  <2> HIDE DEF k
  <2>3. Sees(seen') /\ seen'.kind = k
    <3>1. seen' = [kind |-> k, mode |-> seen.mode, query |-> seen.query, items |-> seen.items, style |-> seen.style,
          start |-> seen.start, selected |-> seen.selected, action |-> seen.action]
      BY <2>1 DEF SpotInv, SpotTypes, Sees
    <3>2. Sees(seen)
      BY DEF SpotInv, SpotTypes
    <3> QED BY <2>2, <3>1, <3>2 DEF Sees
  <2>4. SpotTypes'
    <3>1. TRUE \in BOOLEAN
      OBVIOUS
    <3> QED BY <1>0, <2>1, <2>3, <3>1 DEF SpotInv, SpotTypes
  <2>5. Agree'
    BY <1>2, <2>1, <2>2, <2>3 DEF Agree
  <2> QED BY <1>0, <2>1, <2>4, <2>5, StaleActs DEF SpotInv
<1> QED BY <1>1, <1>2

\* The commands that toggle, open and close keep it.
LEMMA CommandsKeep == SpotInv /\ (Spot!ToggleNamed \/ Spot!TogglePayload \/ Spot!OpenPayload \/ Spot!CloseNamed) => SpotInv'
<1> SUFFICES ASSUME SpotInv, Spot!ToggleNamed \/ Spot!TogglePayload \/ Spot!OpenPayload \/ Spot!CloseNamed PROVE SpotInv'
  OBVIOUS
<1>0. SpotWhole(spot) /\ SpotFields(spot)
  BY DEF SpotInv, SpotTypes
<1>1. ASSUME NEW mode \in Spot!Modes, NEW style, Spot!Becomes(Spot!Open(spot, mode, style)), UNCHANGED <<entries, library>>
      PROVE  SpotInv'
  <2> DEFINE q == Spot!Open(spot, mode, style)
  <2>1. SpotWhole(q) /\ SpotFields(q) /\ ~q.closing /\ q.pending = <<>>
    BY <1>0, OpenKeeps
  <2>2. Spot!Becomes(q) /\ UNCHANGED <<entries, library>>
    BY <1>1
  <2> HIDE DEF q
  <2> QED BY <2>1, <2>2, BecomesKeeps
<1>2. ASSUME Spot!Becomes(Spot!Close(spot)), UNCHANGED <<entries, library>>
      PROVE  SpotInv'
  <2> DEFINE q == Spot!Close(spot)
  <2>1. SpotWhole(q) /\ SpotFields(q) /\ ~q.shown
    BY <1>0, CloseKeeps
  <2>2. Spot!Becomes(q) /\ UNCHANGED <<entries, library>>
    BY <1>2
  <2> HIDE DEF q
  <2> QED BY <2>1, <2>2, BecomesKeeps
<1>3. \A r \in Spot!Requests : r[1] \in Spot!Modes
  BY DEF Spot!Requests, Spot!Modes
<1>4. ASSUME NEW mode \in Spot!Modes, NEW style, Spot!Toggle(mode, style) PROVE SpotInv'
  BY <1>1, <1>2, <1>4 DEF Spot!Toggle
<1>5. ASSUME Spot!ToggleNamed PROVE SpotInv'
  <2>1. "applications" \in Spot!Modes
    BY DEF Spot!Modes
  <2> QED BY <1>4, <1>5, <2>1 DEF Spot!ToggleNamed
<1>6. ASSUME Spot!TogglePayload PROVE SpotInv'
  <2>1. PICK r \in Spot!Requests : Spot!Toggle(r[1], r[2])
    BY <1>6 DEF Spot!TogglePayload
  <2> QED BY <1>3, <1>4, <2>1
<1>7. ASSUME Spot!OpenPayload PROVE SpotInv'
  <2>1. PICK r \in Spot!Requests : Spot!Becomes(Spot!Open(spot, r[1], r[2])) /\ UNCHANGED <<entries, library>>
    BY <1>7 DEF Spot!OpenPayload
  <2> QED BY <1>1, <1>3, <2>1
<1>8. ASSUME Spot!CloseNamed PROVE SpotInv'
  BY <1>2, <1>8 DEF Spot!CloseNamed
<1> QED BY <1>5, <1>6, <1>7, <1>8

\* Recording a launch leaves a cache that is stale by version, or fits.
LEMMA LaunchKeeps ==
  ASSUME SpotInv, NEW item, NEW title
  PROVE  LET q == Spot!RecordLaunch(item, title)
         IN  Lib(q) /\ SpotFits(q.cache["applications"], entries.version + q.launches, q.usage, entries.apps, entries.threads)
<1> DEFINE q == Spot!RecordLaunch(item, title)
           u == [library.usage EXCEPT ![item[2]] = @ + 1]
           l == library
<1>1. q = library \/ q = [cache_enabled |-> l.cache_enabled, usage |-> u, launches |-> l.launches + 1, copied |-> l.copied,
          rows |-> l.rows, fresh |-> l.fresh, cache |-> l.cache]
  <2> DEFINE r == [library EXCEPT !.usage = u]
  <2>1. q = library \/ q = [r EXCEPT !.launches = @ + 1]
    BY DEF Spot!RecordLaunch
  <2>2. r = [cache_enabled |-> l.cache_enabled, usage |-> u, launches |-> l.launches, copied |-> l.copied,
             rows |-> l.rows, fresh |-> l.fresh, cache |-> l.cache]
    <3>1. l = [cache_enabled |-> l.cache_enabled, usage |-> l.usage, launches |-> l.launches, copied |-> l.copied,
               rows |-> l.rows, fresh |-> l.fresh, cache |-> l.cache]
      BY DEF SpotInv, SpotTypes, Lib
    <3> HIDE DEF u
    <3> QED BY <3>1
  <2> HIDE DEF r, q, u
  <2>3. [r EXCEPT !.launches = @ + 1] = [cache_enabled |-> l.cache_enabled, usage |-> u, launches |-> l.launches + 1, copied |-> l.copied,
          rows |-> l.rows, fresh |-> l.fresh, cache |-> l.cache]
    BY <2>2
  <2> QED BY <2>1, <2>3
<1> HIDE DEF q, u
<1>2. CASE q = library
  BY <1>2 DEF q, SpotInv, SpotTypes, CacheFits
<1>3. CASE q # library
  <2>1. q = [cache_enabled |-> l.cache_enabled, usage |-> u, launches |-> l.launches + 1, copied |-> l.copied,
          rows |-> l.rows, fresh |-> l.fresh, cache |-> l.cache]
    BY <1>1, <1>3
  <2>2. Lib(q)
    BY <2>1 DEF SpotInv, SpotTypes, Lib
  <2>3. q.cache = l.cache /\ q.launches = l.launches + 1
    BY <2>1
  <2>4. "applications" \in Cached /\ l.cache["applications"].version \in Nat /\ entries.version + l.launches \in Nat /\ l.launches \in Nat /\ entries.version \in Nat
    <3>1. "applications" \in Cached
      BY DEF Cached, Spot!Modes
    <3>2. Lib(l) /\ entries \in Disk
      BY DEF SpotInv, SpotTypes
    <3>3. l.launches \in Nat /\ l.cache["applications"].version \in Nat
      BY <3>1, <3>2 DEF Lib
    <3>4. entries.version \in Nat
      BY <3>2 DEF Disk
    <3> QED BY <3>1, <3>3, <3>4
  <2>5. SpotFits(l.cache["applications"], entries.version + l.launches, l.usage, entries.apps, entries.threads)
    BY DEF SpotInv, CacheFits
  <2>6. SpotFits(q.cache["applications"], entries.version + q.launches, q.usage, entries.apps, entries.threads)
    BY <2>3, <2>4, <2>5 DEF SpotFits
  <2> QED BY <2>2, <2>6 DEF q
<1> QED BY <1>2, <1>3

\* Handling what waits on a redraw keeps the spotlight's invariant.
LEMMA RedrawKeeps == SpotInv /\ Spot!HandleRedraw => SpotInv'
<1> SUFFICES ASSUME SpotInv, Spot!HandleRedraw PROVE SpotInv'
  OBVIOUS
<1>0. SpotWhole(spot) /\ SpotFields(spot) /\ inbox \in Seq(Nat) /\ inbox # <<>> /\ stale' = TRUE /\ UNCHANGED entries /\ Head(inbox) = 0
  BY DEF SpotInv, SpotTypes, Spot!HandleRedraw
<1> DEFINE q == [spot EXCEPT !.pending = <<>>]
<1>1. SpotWhole(q) /\ SpotFields(q) /\ q.pending = <<>> /\ q.closing = spot.closing /\ q.shown = spot.shown
  <2>1. 0 \in Nat
    OBVIOUS
  <2> QED BY <1>0, <2>1, SettledKeeps
<1>2. CASE spot.closing
  <2>1. /\ spot' = Spot!Close(q) /\ Spot!Vanish
        /\ library' = library \/ library' = Spot!RecordLaunch(spot.pending[1], spot.pending[2])
    BY <1>2 DEF Spot!HandleRedraw
  <2> HIDE DEF q
  <2>2. SpotWhole(spot') /\ SpotFields(spot')
    BY <1>1, <2>1, CloseKeeps
  <2>3. Lib(library') /\ CacheFits'
    <3>1. CASE library' = library
      BY <1>0, <3>1, Elsewhere DEF SpotInv, SpotTypes
    <3>2. CASE library' = Spot!RecordLaunch(spot.pending[1], spot.pending[2])
      BY <1>0, <3>2, LaunchKeeps DEF CacheFits
    <3> QED BY <2>1, <3>1, <3>2
  <2> QED BY <1>0, <2>1, <2>2, <2>3, VanishKeeps
<1>3. CASE ~spot.closing
  <2>1. spot' = q /\ inbox' = Tail(inbox) /\ UNCHANGED <<seen, library>>
    BY <1>3 DEF Spot!HandleRedraw
  <2> HIDE DEF q
  <2>2. inbox' \in Seq(Nat) /\ (inbox' # <<>> => inbox # <<>>)
    BY <1>0, <2>1
  <2>3. SpotTypes'
    BY <1>0, <1>1, <2>1, <2>2 DEF SpotInv, SpotTypes
  <2>4. Agree'
    BY <1>1, <1>3, <2>1, <2>2 DEF SpotInv, Agree
  <2>5. CacheFits'
    BY <1>0, <2>1 DEF SpotInv, CacheFits
  <2> QED BY <1>0, <2>3, <2>4, <2>5, StaleActs DEF SpotInv
<1> QED BY <1>2, <1>3

\* Selecting keeps it.
LEMMA SelectKeeps == SpotInv /\ Spot!HandleSelect => SpotInv'
<1> SUFFICES ASSUME SpotInv, Spot!HandleSelect PROVE SpotInv'
  OBVIOUS
<1> DEFINE n == Head(inbox) - 1
           q == [spot EXCEPT !.selected = n]
<1>0. /\ SpotWhole(spot) /\ SpotFields(spot) /\ inbox \in Seq(Nat) /\ inbox # <<>> /\ stale' = TRUE /\ Head(inbox) > 0
      /\ spot' = q /\ inbox' = Tail(inbox) /\ UNCHANGED <<seen, entries, library>>
  BY DEF SpotInv, SpotTypes, Spot!HandleSelect
<1>1. n \in Nat
  BY <1>0
<1> HIDE DEF n
<1>2. SpotWhole(q) /\ SpotFields(q) /\ q.pending = spot.pending /\ q.closing = spot.closing /\ q.shown = spot.shown
  BY <1>0, <1>1, SettledKeeps
<1> HIDE DEF q
<1>3. inbox' \in Seq(Nat)
  BY <1>0
<1>4. Awaited => Awaited'
  <2>1. ASSUME NEW i \in DOMAIN inbox, inbox[i] = 0
        PROVE  Awaited'
    <3>1. i \in 1..Len(inbox) /\ inbox[1] > 0
      BY <1>0
    <3>2. i # 1
      BY <2>1, <3>1
    <3>3. i - 1 \in 1..(Len(inbox) - 1) /\ Len(inbox) \in Nat
      BY <1>0, <3>1, <3>2
    <3>4. Len(inbox') = Len(inbox) - 1 /\ DOMAIN inbox' = 1..(Len(inbox) - 1) /\ inbox'[i - 1] = inbox[i]
      BY <1>0, <3>3
    <3> QED BY <2>1, <3>3, <3>4 DEF Awaited
  <2> QED BY <2>1 DEF Awaited
<1>5. SpotTypes'
  BY <1>0, <1>2, <1>3 DEF SpotInv, SpotTypes
<1>6. Agree'
  <2>1. Good(spot.pending, seen) => Good(spot'.pending, seen')
    BY <1>0, <1>2
  <2> QED BY <1>0, <1>2, <1>4, <2>1 DEF SpotInv, Agree
<1>7. CacheFits'
  BY <1>0 DEF SpotInv, CacheFits
<1> QED BY <1>0, <1>5, <1>6, <1>7, StaleActs DEF SpotInv

\* Nothing but the library or the applications changes.
LEMMA AsideKeeps ==
  ASSUME SpotInv, UNCHANGED <<spot, inbox, seen>>, stale' = TRUE \/ stale' = stale, Lib(library'), entries' \in Disk, CacheFits'
  PROVE  SpotInv'
<1>1. SpotTypes'
  <2>1. TRUE \in BOOLEAN
    OBVIOUS
  <2> QED BY <2>1 DEF SpotInv, SpotTypes
<1>2. Agree'
  <2>1. Awaited => Awaited'
    BY DEF Awaited
  <2>2. Good(spot.pending, seen) => Good(spot'.pending, seen')
    OBVIOUS
  <2> QED BY <2>1, <2>2 DEF SpotInv, Agree
<1>3. Spot!ActsOnWhatIsShown'
  BY DEF SpotInv, Spot!ActsOnWhatIsShown
<1> QED BY <1>1, <1>2, <1>3 DEF SpotInv

\* A reload of the configuration, a copy and rows that expire keep it.
LEMMA LibraryKeeps == SpotInv /\ (Spot!ConfigReload \/ Spot!Copy \/ Spot!RowsExpire) => SpotInv'
<1> SUFFICES ASSUME SpotInv, Spot!ConfigReload \/ Spot!Copy \/ Spot!RowsExpire PROVE SpotInv'
  OBVIOUS
<1> DEFINE l == library
<1>1. PICK x, y, z : /\ UNCHANGED <<spot, inbox, seen, entries>> /\ (stale' = TRUE \/ stale' = stale) /\ y \in Nat
                     /\ library' = [cache_enabled |-> x, usage |-> l.usage, launches |-> l.launches, copied |-> y,
                                    rows |-> l.rows, fresh |-> z, cache |-> l.cache]
  <2>0. /\ l = [cache_enabled |-> l.cache_enabled, usage |-> l.usage, launches |-> l.launches, copied |-> l.copied,
                rows |-> l.rows, fresh |-> l.fresh, cache |-> l.cache]
        /\ l.copied \in Nat
    BY DEF SpotInv, SpotTypes, Lib
  <2>1. CASE Spot!ConfigReload
    <3>1. PICK c \in BOOLEAN : library' = [library EXCEPT !.cache_enabled = c]
      BY <2>1 DEF Spot!ConfigReload
    <3>2. library' = [cache_enabled |-> c, usage |-> l.usage, launches |-> l.launches, copied |-> l.copied,
                      rows |-> l.rows, fresh |-> l.fresh, cache |-> l.cache]
      BY <2>0, <3>1
    <3>3. UNCHANGED <<spot, inbox, seen, entries>> /\ stale' = TRUE
      BY <2>1 DEF Spot!ConfigReload
    <3> QED BY <2>0, <3>2, <3>3
  <2>2. CASE Spot!Copy
    <3> DEFINE y == l.copied + 1
    <3>1. library' = [library EXCEPT !.copied = y] /\ y \in Nat
      BY <2>0, <2>2 DEF Spot!Copy
    <3> HIDE DEF y
    <3>2. library' = [cache_enabled |-> l.cache_enabled, usage |-> l.usage, launches |-> l.launches, copied |-> y,
                      rows |-> l.rows, fresh |-> l.fresh, cache |-> l.cache]
      BY <2>0, <3>1
    <3>3. UNCHANGED <<spot, inbox, seen, entries, stale>>
      BY <2>2 DEF Spot!Copy
    <3> QED BY <3>1, <3>2, <3>3
  <2>3. CASE Spot!RowsExpire
    <3> DEFINE z == FALSE
    <3>1. library' = [library EXCEPT !.fresh = z]
      BY <2>3 DEF Spot!RowsExpire
    <3> HIDE DEF z
    <3>2. library' = [cache_enabled |-> l.cache_enabled, usage |-> l.usage, launches |-> l.launches, copied |-> l.copied,
                      rows |-> l.rows, fresh |-> z, cache |-> l.cache]
      BY <2>0, <3>1
    <3>3. UNCHANGED <<spot, inbox, seen, entries, stale>>
      BY <2>3 DEF Spot!RowsExpire
    <3> QED BY <2>0, <3>2, <3>3
  <2> QED BY <2>1, <2>2, <2>3
<1>2. /\ library'.launches = l.launches /\ library'.usage = l.usage /\ library'.cache = l.cache /\ library'.rows = l.rows
      /\ library'.copied = y /\ library'.fresh = z /\ library'.cache_enabled = x
  BY <1>1
<1>3. Lib(library')
  BY <1>1, <1>2 DEF SpotInv, SpotTypes, Lib
<1>4. CacheFits'
  BY <1>1, <1>2 DEF SpotInv, CacheFits
<1>5. entries' \in Disk
  BY <1>1 DEF SpotInv, SpotTypes
<1> QED BY <1>1, <1>3, <1>4, <1>5, AsideKeeps

\* Reloading the applications, and the thread that installs them, keep it.
LEMMA ThreadsKeep == SpotInv /\ (Spot!AppsReload \/ Spot!Reload \/ Spot!Install) => SpotInv'
<1> SUFFICES ASSUME SpotInv, Spot!AppsReload \/ Spot!Reload \/ Spot!Install PROVE SpotInv'
  OBVIOUS
<1> DEFINE c == library.cache["applications"]
<1>0. /\ entries \in Disk /\ DOMAIN entries.threads = 1..2 /\ entries.version \in Nat /\ library.launches \in Nat /\ c.version \in Nat
      /\ SpotFits(c, entries.version + library.launches, library.usage, entries.apps, entries.threads)
  BY DEF SpotInv, SpotTypes, CacheFits, Disk, Lib, Cached, Spot!Modes
<1>1. ASSUME UNCHANGED <<spot, inbox, seen, library>>, stale' = TRUE \/ stale' = stale, entries' \in Disk,
             SpotFits(c, entries'.version + library.launches, library.usage, entries'.apps, entries'.threads)
      PROVE  SpotInv'
  <2>1. CacheFits' /\ Lib(library')
    BY <1>1 DEF CacheFits, SpotInv, SpotTypes
  <2> QED BY <1>1, <2>1, AsideKeeps
<1>2. CASE Spot!AppsReload
  <2>1. PICK t \in 1..2 : /\ entries.threads[t].at = "none"
                          /\ entries' = [entries EXCEPT !.threads[t] = [at |-> "read", apps |-> entries.disk]]
    BY <1>0, <1>2 DEF Spot!AppsReload
  <2> DEFINE r == [at |-> "read", apps |-> entries.disk]
  <2>2. r \in Thread
    BY <1>0 DEF Thread, Disk
  <2> HIDE DEF r
  <2>3. entries' \in Disk /\ entries'.version = entries.version /\ entries'.apps = entries.apps
        /\ \A s \in 1..2 : s # t => entries'.threads[s] = entries.threads[s]
    BY <1>0, <2>1, <2>2 DEF Disk, r
  <2>4. (\E s \in 1..2 : entries.threads[s].at = "wrote") => \E s \in 1..2 : entries'.threads[s].at = "wrote"
    BY <2>1, <2>3
  <2>5. SpotFits(c, entries'.version + library.launches, library.usage, entries'.apps, entries'.threads)
    BY <1>0, <2>3, <2>4 DEF SpotFits
  <2>6. UNCHANGED <<spot, inbox, seen, library>> /\ stale' = TRUE
    BY <1>2 DEF Spot!AppsReload
  <2> QED BY <1>1, <2>3, <2>5, <2>6
<1>3. CASE Spot!Reload
  <2>1. PICK t \in 1..2 : Spot!ReloadStep(t)
    BY <1>0, <1>3 DEF Spot!Reload
  <2> DEFINE th == entries.threads[t]
             r == [at |-> "wrote", apps |-> {}]
  <2>2. th \in Thread /\ r \in Thread
    BY <1>0 DEF Thread, Disk
  <2>3. UNCHANGED <<spot, inbox, seen, stale, library>>
    BY <2>1 DEF Spot!ReloadStep
  <2>4. CASE th.at = "read"
    <3>1. entries' = [entries EXCEPT !.threads[t] = r, !.apps = th.apps]
      BY <2>1, <2>4 DEF Spot!ReloadStep
    <3>2. r.at = "wrote"
      OBVIOUS
    <3> HIDE DEF r
    <3>3. entries' \in Disk /\ entries'.version = entries.version /\ entries'.threads[t] = r
      BY <1>0, <2>2, <3>1 DEF Disk, Thread
    <3>4. SpotFits(c, entries'.version + library.launches, library.usage, entries'.apps, entries'.threads)
      BY <1>0, <3>2, <3>3 DEF SpotFits
    <3> QED BY <1>1, <2>3, <3>3, <3>4
  <2>5. CASE th.at = "wrote"
    <3>1. entries' = [entries EXCEPT !.threads[t].at = "none", !.version = @ + 1]
      BY <2>1, <2>5 DEF Spot!ReloadStep
    <3> DEFINE x == [th EXCEPT !.at = "none"]
               n == entries.version + 1
    <3>4. x \in Thread /\ n \in Nat
      BY <1>0, <2>2 DEF Thread
    <3>5. entries' = [entries EXCEPT !.threads[t] = x, !.version = n]
      BY <3>1
    <3> HIDE DEF x, n
    <3>6. entries' \in Disk /\ entries'.version = n
      BY <1>0, <3>4, <3>5 DEF Disk
    <3>2. entries' \in Disk /\ entries'.version = entries.version + 1
      BY <3>6 DEF n
    <3>3. SpotFits(c, entries'.version + library.launches, library.usage, entries'.apps, entries'.threads)
      BY <1>0, <3>2 DEF SpotFits
    <3> QED BY <1>1, <2>3, <3>2, <3>3
  <2>6. CASE th.at = "none"
    <3>1. entries' = entries
      BY <2>1, <2>6 DEF Spot!ReloadStep
    <3> QED BY <1>0, <1>1, <2>3, <3>1
  <2> QED BY <2>2, <2>4, <2>5, <2>6 DEF Thread
<1>4. CASE Spot!Install
  <2>1. PICK a \in App : entries' = [entries EXCEPT !.disk = IF a \in @ THEN @ \ {a} ELSE @ \cup {a}]
    BY <1>4 DEF Spot!Install
  <2>2. entries' \in Disk /\ entries'.version = entries.version /\ entries'.apps = entries.apps /\ entries'.threads = entries.threads
    BY <1>0, <2>1 DEF Disk
  <2>3. UNCHANGED <<spot, inbox, seen, stale, library>>
    BY <1>4 DEF Spot!Install
  <2> QED BY <1>0, <1>1, <2>2, <2>3
<1> QED BY <1>2, <1>3, <1>4

\* Losing the monitor keeps it.
LEMMA MonitorKeeps == SpotInv /\ Spot!MonitorLost => SpotInv'
<1> SUFFICES ASSUME SpotInv, Spot!MonitorLost PROVE SpotInv'
  OBVIOUS
<1>1. Spot!Vanish /\ stale' = TRUE /\ UNCHANGED <<spot, entries, library>>
  BY DEF Spot!MonitorLost
<1>2. SpotWhole(spot') /\ SpotFields(spot') /\ Lib(library') /\ CacheFits'
  BY <1>1, Elsewhere DEF SpotInv, SpotTypes
<1> QED BY <1>1, <1>2, VanishKeeps

\* The spotlight's invariant holds at the start.
LEMMA SpotStarts == Spot!Init => SpotInv
<1> SUFFICES ASSUME Spot!Init PROVE SpotInv
  OBVIOUS
<1>0. /\ inbox = <<>> /\ seen = Spot!Nothing /\ stale = FALSE
      /\ spot = [search |-> <<>>, selected |-> 0, action |-> 0, display |-> 0, requested |-> "none",
             expanded |-> <<>>, closing |-> FALSE, mode |-> "applications", base |-> "applications",
             pending |-> <<>>, start |-> 0, end |-> Page["list"], shown |-> FALSE]
      /\ entries = [disk |-> App, apps |-> {}, version |-> 0,
                threads |-> <<[at |-> "read", apps |-> App], [at |-> "none", apps |-> {}]>>]
  BY DEF Spot!Init
<1>1. SpotWhole(spot) /\ SpotFields(spot)
  <2>1. Page["list"] \in Nat
    BY SpotlightAssumption DEF Styles
  <2>2. /\ <<>> \in Seq(Chars) /\ Len(<<>>) = 0 /\ 0 \in 0..1 /\ "applications" \in Spot!Modes /\ FALSE \in BOOLEAN
        /\ 0 <= MaxQuery /\ 0 \in Nat
    BY SpotlightAssumption DEF Spot!Modes
  <2>3. SpotWhole(spot)
    BY <1>0 DEF SpotWhole
  <2>4. /\ spot.search = <<>> /\ spot.selected = 0 /\ spot.action = 0 /\ spot.display = 0 /\ spot.mode = "applications"
        /\ spot.base = "applications" /\ spot.start = 0 /\ spot.end = Page["list"] /\ spot.closing = FALSE /\ spot.shown = FALSE
    BY <1>0
  <2>5. Len(spot.search) <= MaxQuery /\ spot.search \in Seq(Chars)
    BY <2>2, <2>4
  <2>6. SpotFields(spot)
    BY <2>1, <2>2, <2>4, <2>5 DEF SpotFields
  <2> QED BY <2>3, <2>6
<1>2. entries \in Disk
  <2> DEFINE a == [at |-> "read", apps |-> App]
             b == [at |-> "none", apps |-> {}]
  <2>1. a \in Thread /\ b \in Thread
    BY DEF Thread
  <2>2. entries = [disk |-> App, apps |-> {}, version |-> 0, threads |-> <<a, b>>]
    BY <1>0
  <2> HIDE DEF a, b
  <2>3. <<a, b>> \in [1..2 -> Thread]
    BY <2>1
  <2> QED BY <2>2, <2>3 DEF Disk
<1>3. Lib(library) /\ library.cache["applications"].items = <<>>
  <2>1. PICK cache \in BOOLEAN :
       library = [cache_enabled |-> cache, usage |-> [a \in App |-> 0], launches |-> 0,
                  copied |-> 1, rows |-> 1, fresh |-> cache,
                  cache |-> [mode \in Spot!Modes \ {"calculator"} |->
                               CASE cache /\ mode = "commands" -> [version |-> 0, items |-> Spot!SearchCommands(<<>>)]
                                 [] cache /\ mode = "clipboard" -> [version |-> 1, items |-> Spot!SearchClipboard(<<>>, 1)]
                                 [] OTHER -> [version |-> 0, items |-> <<>>]]]
    BY DEF Spot!Init
  <2> DEFINE C(mode) == CASE cache /\ mode = "commands" -> [version |-> 0, items |-> Spot!SearchCommands(<<>>)]
                          [] cache /\ mode = "clipboard" -> [version |-> 1, items |-> Spot!SearchClipboard(<<>>, 1)]
                          [] OTHER -> [version |-> 0, items |-> <<>>]
             c == [mode \in Cached |-> C(mode)]
             u == [a \in App |-> 0]
  <2>2. library = [cache_enabled |-> cache, usage |-> u, launches |-> 0, copied |-> 1, rows |-> 1, fresh |-> cache, cache |-> c]
    BY <2>1 DEF Cached
  <2>3. SpotListed(<<>>) /\ SpotListed(Spot!SearchCommands(<<>>)) /\ SpotListed(Spot!SearchClipboard(<<>>, 1))
    <3>1. <<>> \in Seq({})
      OBVIOUS
    <3>2. SpotListed(<<>>)
      BY <3>1 DEF SpotListed
    <3>3. <<<<"command", 1>>, <<"command", 2>>>> \in Seq({<<"command", 1>>, <<"command", 2>>})
      OBVIOUS
    <3>4. SpotListed(<<<<"command", 1>>, <<"command", 2>>>>)
      BY <3>3 DEF SpotListed
    <3>5. SpotListed(Spot!SearchCommands(<<>>))
      BY <3>4 DEF Spot!SearchCommands
    <3> DEFINE G(i) == <<"clip", 1 + 1 - i>>
               Y == {G(i) : i \in 1..1}
    <3>7. Spot!SearchClipboard(<<>>, 1) \in {<<>>, [i \in 1..1 |-> G(i)]}
      BY DEF Spot!SearchClipboard
    <3> HIDE DEF G
    <3>6. [i \in 1..1 |-> G(i)] \in Seq(Y)
      OBVIOUS
    <3>8. SpotListed([i \in 1..1 |-> G(i)])
      <4> HIDE DEF Y
      <4> QED BY <3>6 DEF SpotListed
    <3> QED BY <3>2, <3>5, <3>7, <3>8
  <2>4. \A m : C(m).version \in {0, 1} /\ SpotListed(C(m).items)
    <3> TAKE m
    <3> DEFINE x == [version |-> 0, items |-> Spot!SearchCommands(<<>>)]
               y == [version |-> 1, items |-> Spot!SearchClipboard(<<>>, 1)]
               z == [version |-> 0, items |-> <<>>]
    <3>1. C(m) \in {x, y, z}
      OBVIOUS
    <3>2. /\ x.version = 0 /\ y.version = 1 /\ z.version = 0
          /\ x.items = Spot!SearchCommands(<<>>) /\ y.items = Spot!SearchClipboard(<<>>, 1) /\ z.items = <<>>
      OBVIOUS
    <3> HIDE DEF x, y, z, C
    <3> QED BY <2>3, <3>1, <3>2
  <2>5. C("applications").items = <<>>
    OBVIOUS
  <2> HIDE DEF C, u
  <2>6. c = [m \in Cached |-> c[m]] /\ \A m \in Cached : c[m] = C(m)
    OBVIOUS
  <2> HIDE DEF c
  <2>7. Lib(library)
    BY <2>2, <2>4, <2>6 DEF Lib
  <2>8. "applications" \in Cached
    BY DEF Cached, Spot!Modes
  <2> QED BY <2>2, <2>5, <2>6, <2>7, <2>8
<1>4. SpotTypes
  <2>1. <<>> \in Seq(Nat) /\ FALSE \in BOOLEAN
    OBVIOUS
  <2> QED BY <1>0, <1>1, <1>2, <1>3, <2>1, NoOneSeen DEF SpotTypes
<1>5. Agree /\ Spot!ActsOnWhatIsShown
  BY <1>0, NoOneSeen DEF Agree, Spot!ActsOnWhatIsShown
<1>6. CacheFits
  BY <1>3 DEF CacheFits, SpotFits
<1> QED BY <1>4, <1>5, <1>6 DEF SpotInv

\* Every step keeps the spotlight's invariant.
LEMMA SpotGoesOn == SpotInv /\ [Spot!Next]_(Spot!spotVars) => SpotInv'
<1> SUFFICES ASSUME SpotInv, [Spot!Next]_(Spot!spotVars) PROVE SpotInv'
  OBVIOUS
<1>1. CASE Spot!Next
  BY <1>1, KeysKeep, DrawKeeps, RedrawKeeps, SelectKeeps, CommandsKeep, LibraryKeeps, ThreadsKeep, MonitorKeeps DEF Spot!Next
<1>2. CASE UNCHANGED Spot!spotVars
  <2>1. UNCHANGED <<spot, inbox, seen, stale, entries, library>>
    BY <1>2 DEF Spot!spotVars
  <2>2. CacheFits' /\ Lib(library') /\ entries' \in Disk
    BY <2>1, Elsewhere DEF SpotInv, SpotTypes
  <2> QED BY <2>1, <2>2, AsideKeeps
<1> QED BY <1>1, <1>2

\* The spotlight's invariant gives what the runs check of it.
LEMMA SpotPromises == SpotInv => Spot!TypeOK /\ Spot!ActsOnWhatIsShown /\ Spot!CacheIsCurrent
<1> SUFFICES ASSUME SpotInv PROVE Spot!TypeOK /\ Spot!CacheIsCurrent
  BY DEF SpotInv
<1>1. Spot!TypeOK
  <2>1. SpotFields(spot) /\ Sees(seen) /\ entries \in Disk
    BY DEF SpotInv, SpotTypes
  <2>2. spot.search \in UNION {[1..n -> {"a", "/", "2+", "2"}] : n \in 0..MaxQuery}
    <3> DEFINE s == spot.search
               n == Len(s)
    <3>1. s \in Seq(Chars) /\ n <= MaxQuery
      BY <2>1 DEF SpotFields
    <3>2. n \in 0..MaxQuery /\ s \in [1..n -> Chars]
      BY <3>1, SpotlightAssumption
    <3> HIDE DEF n
    <3> QED BY <3>2 DEF Chars
  <2>3. entries.apps \subseteq App
    BY <2>1 DEF Disk
  <2> QED BY <2>1, <2>2, <2>3 DEF Spot!TypeOK, SpotFields, Sees, Kinds
<1>2. Spot!CacheIsCurrent
  <2>1. Spot!Version("applications") = entries.version + library.launches
    BY DEF Spot!Version
  <2>2. DOMAIN entries.threads = 1..2
    BY DEF SpotInv, SpotTypes, Disk
  <2> QED BY <2>1, <2>2, SearchIs DEF Spot!CacheIsCurrent, SpotInv, CacheFits, SpotFits
<1> QED BY <1>1, <1>2

\* Where two sequences are joined, the first comes first.
LEMMA JoinedFirst ==
  ASSUME NEW Xs, NEW s \in Seq(Xs), NEW t \in Seq(Xs), NEW k \in 1..Len(s)
  PROVE  (s \o t)[k] = s[k]
OBVIOUS

\* So where an element is added to two.
LEMMA PairJoined == \A x, y, z : (<<x, y>> \o <<z>>)[1] = x /\ (<<x, y>> \o <<z>>)[2] = y
<1> TAKE x, y, z
<1> DEFINE Xs == {x, y, z}
           s == <<x, y>>
           t == <<z>>
<1>1. s \in Seq(Xs) /\ t \in Seq(Xs)
  OBVIOUS
<1>2. Len(s) = 2 /\ s[1] = x /\ s[2] = y
  OBVIOUS
<1>3. 1 \in 1..Len(s) /\ 2 \in 1..Len(s)
  BY <1>2
<1> HIDE DEF s, t, Xs
<1>4. (s \o t)[1] = s[1]
  BY <1>1, <1>3, JoinedFirst
<1>5. (s \o t)[2] = s[2]
  BY <1>1, <1>3, JoinedFirst
<1> QED BY <1>2, <1>4, <1>5 DEF s, t

\* A step that runs something closes the spotlight, and runs an action of an item that was
\* drawn.
LEMMA RunsAsItClosesStep ==
  ASSUME SpotInv, [Spot!Next]_(Spot!spotVars), ran' # ran
  PROVE  /\ spot.shown /\ ~spot'.shown /\ seen'.kind = "none"
         /\ ran'[1] \in Spot!Range(seen.items) /\ ran'[2] \in Spot!Range(Spot!ActionDefs(ran'[1], seen.style))
<1>1. Spot!HandleRedraw
  BY DEF Spot!Next, Spot!spotVars, Spot!Key, Spot!PressEscape, Spot!PressEnter, Spot!PressTab, Spot!PressCtrlTab, Spot!PressUp, Spot!PressDown, Spot!PressBackspace, Spot!PressCharacter,
         Spot!ClickResult, Spot!ClickRight, Spot!AnyOnExpanded, Spot!Input, Spot!Publish, Spot!Draw, Spot!HandleSelect, Spot!ToggleNamed, Spot!TogglePayload, Spot!OpenPayload,
         Spot!CloseNamed, Spot!Toggle, Spot!ConfigReload, Spot!AppsReload, Spot!Reload, Spot!ReloadStep, Spot!Install, Spot!Copy, Spot!RowsExpire, Spot!MonitorLost
<1>2. /\ inbox # <<>> /\ spot.closing /\ spot.pending # <<>> /\ Spot!Vanish /\ spot' = Spot!Close([spot EXCEPT !.pending = <<>>])
      /\ ran' = Spot!Executed(spot)
  BY <1>1 DEF Spot!HandleRedraw
<1>3. seen.kind # "none" /\ spot.shown /\ Good(spot.pending, seen)
  BY <1>2 DEF SpotInv, Agree
<1>4. ~spot'.shown
  <2>1. 0 \in Nat
    OBVIOUS
  <2>2. SpotWhole([spot EXCEPT !.pending = <<>>]) /\ SpotFields([spot EXCEPT !.pending = <<>>])
    BY <2>1, SettledKeeps DEF SpotInv, SpotTypes
  <2> QED BY <1>2, <2>2, CloseKeeps
<1>5. seen'.kind = "none"
  BY <1>2, NoOneSeen DEF Spot!Vanish
<1>6. PICK i \in DOMAIN seen.items : \E d \in DOMAIN Spot!ActionDefs(seen.items[i], seen.style) :
        spot.pending = <<seen.items[i], Spot!ActionDefs(seen.items[i], seen.style)[d]>>
  BY <1>3 DEF Good
<1>7. PICK d \in DOMAIN Spot!ActionDefs(seen.items[i], seen.style) :
        spot.pending = <<seen.items[i], Spot!ActionDefs(seen.items[i], seen.style)[d]>>
  BY <1>6
<1> DEFINE x == seen.items[i]
           y == Spot!ActionDefs(seen.items[i], seen.style)[d]
           z == spot.search
<1>8. ran' = <<x, y>> \o <<z>>
  BY <1>2, <1>7 DEF Spot!Executed
<1>9. x \in Spot!Range(seen.items) /\ y \in Spot!Range(Spot!ActionDefs(x, seen.style))
  BY <1>6, <1>7 DEF Spot!Range
<1> HIDE DEF x, y, z
<1>11. ran'[1] = x /\ ran'[2] = y
  BY <1>8, PairJoined
<1> QED BY <1>3, <1>4, <1>5, <1>9, <1>11

\* A step of the arrows selects a result inside the window, or leaves the selection.
LEMMA ArrowsRevealStep ==
  ASSUME SpotInv, Spot!PressUp \/ Spot!PressDown
  PROVE  spot'.selected \in {spot.selected} \cup Spot!Results..spot.selected \cup spot'.start..(spot'.end - 1)
<1>1. SpotWhole(spot) /\ SpotFields(spot) /\ Sees(seen)
  BY DEF SpotInv, SpotTypes
<1>2. spot' = Spot!ArrowUp(spot) \/ spot' = Spot!ArrowDown(spot)
  BY DEF Spot!PressUp, Spot!PressDown, Spot!Input, Spot!Publish
<1> QED BY <1>1, <1>2, ArrowsMake

\* With no message and no drawing outstanding, what a key or a click acts on is what
\* the window shows; and a list of applications that is kept is the one a search
\* would give, unless a thread is between writing the applications and saying so.
THEOREM SpotlightAlways == Spot!Spec => [](Spot!TypeOK /\ Spot!ActsOnWhatIsShown /\ Spot!CacheIsCurrent)
<1>1. Spot!Init => SpotInv
  BY SpotStarts
<1>2. SpotInv /\ [Spot!Next]_(Spot!spotVars) => SpotInv'
  BY SpotGoesOn
<1>3. SpotInv => Spot!TypeOK /\ Spot!ActsOnWhatIsShown /\ Spot!CacheIsCurrent
  BY SpotPromises
<1> QED BY <1>1, <1>2, <1>3, PTL DEF Spot!Spec

\* The spotlight runs a result only as it closes, and it is one it showed.
THEOREM RunsAsItClosesAlways == Spot!Spec => Spot!RunsAsItCloses
<1>1. Spot!Init => SpotInv
  BY SpotStarts
<1>2. SpotInv /\ [Spot!Next]_(Spot!spotVars) => SpotInv'
  BY SpotGoesOn
<1>3. SpotInv /\ [Spot!Next]_(Spot!spotVars) =>
        [ran' # ran => /\ spot.shown /\ ~spot'.shown /\ seen'.kind = "none"
                       /\ ran'[1] \in Spot!Range(seen.items) /\ ran'[2] \in Spot!Range(Spot!ActionDefs(ran'[1], seen.style))]_(Spot!spotVars)
  BY RunsAsItClosesStep
<1> QED BY <1>1, <1>2, <1>3, PTL DEF Spot!Spec, Spot!RunsAsItCloses

\* The arrows move the selection by one result, or to where it can be seen.
THEOREM ArrowsRevealAlways == Spot!Spec => Spot!ArrowsReveal
<1>1. Spot!Init => SpotInv
  BY SpotStarts
<1>2. SpotInv /\ [Spot!Next]_(Spot!spotVars) => SpotInv'
  BY SpotGoesOn
<1>3. SpotInv => [Spot!PressUp \/ Spot!PressDown =>
         spot'.selected \in {spot.selected} \cup Spot!Results..spot.selected \cup spot'.start..(spot'.end - 1)]_(Spot!spotVars)
  BY ArrowsRevealStep
<1> QED BY <1>1, <1>2, <1>3, PTL DEF Spot!Spec, Spot!ArrowsReveal
=============================================================================
