------------------------------ MODULE Spotlight ------------------------------
(***************************************************************************)
(* The spotlight (crates/spotlight) and the list of applications it        *)
(* searches (crates/commons/src/desktop.rs).                               *)
(*                                                                         *)
(* A key or a click is handled against the results as they were drawn: it  *)
(* changes the shared state at once and leaves a message behind.  All the  *)
(* keys of a batch come before their messages, and these before the next   *)
(* drawing.  Commands come from outside; a thread reads the applications.  *)
(* Indices count from 0, as in the code.                                   *)
(***************************************************************************)
EXTENDS Integers, Sequences, FiniteSets, SequencesExt

CONSTANTS
  App,             \* numbers of the applications, in the order of their titles
  Named, Pathed,   \* those whose name holds a letter, whose command holds a "/"
  Page,            \* how many results a style shows
  MaxQuery,        \* bound: keys in the query
  MaxSpotEvents    \* bound: keys, clicks, commands and changes of the disk

VARIABLES
  spot,            \* the item and the state its event handlers share
  inbox,           \* their messages: 0 for a Redraw, i + 1 to select result i
  seen,            \* what the window shows
  stale,           \* it is to be drawn again
  entries,         \* the applications on the disk and as read, and the threads
  library,         \* caches of results, and what they are computed from
  ran,             \* the last action carried out: item, title, query
  spot_count

spotVars == <<spot, inbox, seen, stale, entries, library, ran, spot_count>>

Counted == spot_count < MaxSpotEvents /\ spot_count' = spot_count + 1
Letters == {<<"a">>, <<"a", "a">>}
\* The requests that are made: a mode and a style.
Requests == {<<"clipboard", "none">>, <<"notes", "none">>, <<"applications", "grid">>}
Sums == {<<"2+", "2">>}
Numbers == Sums \cup {<<"2">>, <<"2", "2">>}

----------------------------------------------------------------------------
(* Modes: what they find, how it may be shown.                              *)

Modes == {"applications", "clipboard", "commands", "calculator", "notes"}
Displays(mode) ==
  CASE mode = "applications" -> <<"list", "grid">> [] mode = "notes" -> <<"image-list">> [] OTHER -> <<"list">>

Before(a, b) == library.usage[a] > library.usage[b] \/ (library.usage[a] = library.usage[b] /\ a < b)
SearchApplications(query) ==
  LET Found == CASE query = <<>> -> entries.apps
                 [] query \in Letters -> entries.apps \cap Named
                 [] query = <<"/">> -> entries.apps \cap Pathed
                 [] OTHER -> {}
      Earlier(a) == {b \in Found : IF query = <<>> THEN Before(b, a) ELSE b < a}
  IN  [i \in 1..Cardinality(Found) |-> <<"app", CHOOSE a \in Found : Cardinality(Earlier(a)) = i - 1>>]
SearchCommands(query) ==
  IF query = <<>> \/ Head(query) = "/" \/ query \in Letters THEN <<<<"command", 1>>, <<"command", 2>>>> ELSE <<>>
Calculate(query) == IF query \in Numbers THEN <<<<"result", Len(query)>>>> ELSE <<>>
SearchClipboard(query, rows) == IF query \in Numbers THEN <<>> ELSE [i \in 1..rows |-> <<"clip", rows + 1 - i>>]

\* The history is read again when the last reading is a second old.
Rows == IF library.fresh THEN library.rows ELSE library.copied
Searched(mode, query) ==
  CASE mode = "applications" -> SearchApplications(query)
    [] mode = "commands" -> SearchCommands(query)
    [] mode = "clipboard" -> SearchClipboard(query, Rows)
    [] mode = "notes" -> <<<<"note", 1>>, <<"note", 2>>>>
    [] OTHER -> Calculate(query)

Version(mode) ==
  CASE mode = "applications" -> entries.version + library.launches
    [] mode = "clipboard" -> library.copied [] OTHER -> 0
Hit(mode, query) ==
  LET c == library.cache[mode]
  IN  library.cache_enabled /\ query = <<>> /\ c.version = Version(mode) /\ c.items # <<>>
Generate(mode, query) == IF Hit(mode, query) THEN library.cache[mode].items ELSE Searched(mode, query)

\* What generating leaves behind: the rows read, the results of the empty query.
Generated(mode, query) ==
  LET read == [library EXCEPT !.rows = IF mode = "clipboard" THEN Rows ELSE @,
                              !.fresh = @ \/ mode = "clipboard"]
      items == Searched(mode, query)
  IN  IF mode = "calculator" \/ Hit(mode, query) THEN library
      ELSE IF library.cache_enabled /\ query = <<>> /\ (items # <<>> \/ Version(mode) > 0)
           THEN [read EXCEPT !.cache[mode] = [version |-> Version(mode), items |-> items]]
           ELSE read

ActionDefs(item, display) ==
  CASE item[1] = "app" -> <<"Open", "Copy command">> [] item[1] = "command" -> <<"Execute">>
    [] item[1] = "note" /\ display = "image-list" -> <<"Expand", "Activate">> [] OTHER -> <<"Copy">>

----------------------------------------------------------------------------
(* Drawing, which changes the shared state too.                             *)

DisplayIndex(p) ==
  LET allowed == Displays(p.mode)
      asked == CHOOSE i \in 1..Len(allowed) : allowed[i] = p.requested \/ p.requested \notin Range(allowed)
      at == IF p.requested = "none" THEN p.display ELSE asked - 1
  IN  IF at >= Len(allowed) THEN 0 ELSE at
Styled(p) == [p EXCEPT !.display = DisplayIndex(p), !.requested = "none"]
Style(p) == Displays(p.mode)[p.display + 1]

Shows(p, items) ==
  [kind |-> IF p.expanded # <<>> THEN "expanded" ELSE IF p.mode = "calculator" THEN "single" ELSE "list",
   mode |-> p.mode, query |-> p.search, items |-> IF p.expanded # <<>> THEN <<>> ELSE items,
   style |-> Style(p), start |-> p.start, selected |-> p.selected, action |-> p.action]
Nothing == [kind |-> "none", mode |-> "applications", query |-> <<>>, items |-> <<>>,
            style |-> "list", start |-> 0, selected |-> 0, action |-> 0]

Least(a, b) == IF a < b THEN a ELSE b
RenderStart(p, n) ==
  LET page == Page[Style(p)] IN IF n <= page THEN 0 ELSE Least(p.start, n - page)
Windowed(p, n) ==
  IF p.mode = "calculator" THEN p
  ELSE [p EXCEPT !.start = RenderStart(p, n), !.end = Least(RenderStart(p, n) + Page[Style(p)], n)]

\* The query may belong to another mode; only some modes are left this way.
Triggered(query) == IF query \in Sums THEN "calculator" ELSE IF query # <<>> /\ Head(query) = "/" THEN "commands" ELSE "none"
InMode(p, mode) == IF p.mode = mode THEN p ELSE [p EXCEPT !.mode = mode, !.display = 0, !.expanded = <<>>]
Switched(p) ==
  IF p.mode # "applications" THEN p
  ELSE InMode(p, IF Triggered(p.search) = "none" THEN p.base ELSE Triggered(p.search))

Draw ==
  LET p == Styled(spot)
      items == IF p.mode = "calculator" THEN Calculate(p.search) ELSE Generate(p.mode, p.search)
  IN  /\ stale /\ inbox = <<>> /\ stale' = FALSE
      /\ CASE seen.kind = "none" -> UNCHANGED <<spot, seen, library>>
           [] seen.kind # "none" /\ p.expanded # <<>> -> spot' = p /\ seen' = Shows(p, <<>>) /\ UNCHANGED library
           [] OTHER -> /\ seen' = Shows(Windowed(p, Len(items)), items)
                       /\ spot' = Switched(Windowed(p, Len(items)))
                       /\ library' = Generated(p.mode, p.search)
      /\ UNCHANGED <<inbox, entries, ran, spot_count>>

----------------------------------------------------------------------------
(* Keys and clicks.                                                         *)

Fresh(p, mode, style) ==
  [p EXCEPT !.search = <<>>, !.selected = 0, !.action = 0, !.display = 0, !.requested = style,
            !.expanded = <<>>, !.mode = mode, !.base = mode]
Rewound(p) == [p EXCEPT !.start = 0, !.end = Page["list"], !.pending = <<>>]

Results == Len(seen.items)
Defs(i) == ActionDefs(seen.items[i + 1], seen.style)
Offers(p, i) == i < Results /\ p.action < Len(Defs(i))
Chosen(p, i) == <<seen.items[i + 1], Defs(i)[p.action + 1]>>
Pick(p, i) == IF Chosen(p, i)[2] = "Expand" THEN [p EXCEPT !.expanded = seen.items[i + 1]]
              ELSE [p EXCEPT !.pending = Chosen(p, i), !.closing = TRUE]

Dismiss(p) == [Rewound(Fresh(p, "applications", "none")) EXCEPT !.closing = TRUE]
Enter(p) == IF Offers(p, p.selected) THEN Pick(p, p.selected) ELSE [p EXCEPT !.closing = TRUE]
NextDisplay(p) ==
  [p EXCEPT !.display = (@ + 1) % Len(Displays(seen.mode)), !.action = 0, !.expanded = <<>>]
\* Mutant: the last action is not followed by the first.
WrongNextAction(p) == IF p.selected < Results THEN [p EXCEPT !.action = @ + 1] ELSE p

NextAction(p) ==
  IF p.selected < Results THEN [p EXCEPT !.action = (@ + 1) % Len(Defs(p.selected))] ELSE p

ScrollTarget(selected, p, page) ==
  IF selected < p.start THEN selected
  ELSE IF selected >= p.end THEN selected + 1 - Least(page, selected + 1) ELSE -1
Moved(p, selected) ==
  LET page == Page[seen.style]
      to == ScrollTarget(selected, p, page)
      q == [p EXCEPT !.selected = selected, !.action = 0]
  IN  IF to < 0 THEN q ELSE [q EXCEPT !.start = to, !.end = Least(to + page, Results)]
ArrowUp(p) == IF p.selected = 0 THEN p ELSE Moved(p, p.selected - 1)
ArrowDown(p) == IF p.selected + 1 >= Results THEN p ELSE Moved(p, p.selected + 1)
Typed(p, query) == [p EXCEPT !.search = query, !.selected = 0, !.action = 0]

\* Results that are drawn can be clicked, each at its place in the window.
Places == 0..(Page[seen.style] - 1)
ClickTile(p, place) ==
  LET i == p.start + place IN IF Offers(p, i) THEN Pick(p, i) ELSE p

Publish(p, messages) ==
  /\ Counted /\ ~stale /\ spot' = p /\ inbox' = inbox \o messages
  /\ UNCHANGED <<seen, stale, entries, library, ran>>
Input(p, message) == Publish(p, <<message>>)
Keyed == seen.kind \in {"list", "single"}

\* Escape, or a click beside the window.
PressEscape == Keyed /\ Input(Dismiss(spot), 0)
PressEnter == Keyed /\ Input(Enter(spot), 0)
PressTab == Keyed /\ Input(NextAction(spot), 0)
PressCtrlTab == Keyed /\ Len(Displays(seen.mode)) > 1 /\ Input(NextDisplay(spot), 0)
PressUp == Keyed /\ Input(ArrowUp(spot), 0)
PressDown == Keyed /\ Input(ArrowDown(spot), 0)
PressBackspace ==
  Keyed /\ Input(Typed(spot, IF spot.search = <<>> THEN <<>> ELSE Front(spot.search)), 0)
PressCharacter ==
  /\ Keyed /\ Len(spot.search) < MaxQuery
  /\ \E c \in {"a", "/", "2+", "2"} : Input(Typed(spot, Append(spot.search, c)), 0)
\* The window and the row that was drawn there both hear a click.
ClickResult ==
  /\ Keyed
  /\ \E place \in Places :
       LET drawn == seen.start + place
       IN  /\ spot.start + place < Results
           /\ Publish(ClickTile(spot, place),
                      IF seen.kind = "list" /\ drawn < Results THEN <<0, drawn + 1>> ELSE <<0>>)
ClickRight == Keyed /\ \E i \in 0..(Results - 1) : Input(spot, i + 1)
AnyOnExpanded == seen.kind = "expanded" /\ Input([spot EXCEPT !.expanded = <<>>], 0)

Key == PressEscape \/ PressEnter \/ PressTab \/ PressCtrlTab \/ PressUp \/ PressDown
       \/ PressBackspace \/ PressCharacter \/ ClickResult \/ ClickRight \/ AnyOnExpanded

----------------------------------------------------------------------------
(* Messages and commands.                                                   *)

Close(p) == [Fresh(p, "applications", "none") EXCEPT !.shown = FALSE]
Open(p, mode, style) == [Rewound(Fresh(p, mode, style)) EXCEPT !.closing = FALSE, !.shown = TRUE]

\* A window that goes takes the messages that are still on their way to it.
Vanish == seen' = Nothing /\ inbox' = <<>>
Becomes(p) ==
  /\ spot' = p /\ stale' = TRUE
  /\ IF p.shown THEN seen' = [seen EXCEPT !.kind = IF @ = "none" THEN "blank" ELSE @] /\ UNCHANGED inbox ELSE Vanish

\* An application that is started moves up in the list of the empty query.
RecordLaunch(item, title) ==
  IF title = "Open" THEN [library EXCEPT !.usage[item[2]] = @ + 1, !.launches = @ + 1] ELSE library
\* A command takes its arguments from the query as it is now.
Executed(p) == p.pending \o <<p.search>>
HandleRedraw ==
  /\ inbox # <<>> /\ Head(inbox) = 0 /\ stale' = TRUE
  /\ IF spot.closing
     THEN /\ spot' = Close([spot EXCEPT !.pending = <<>>]) /\ Vanish
          /\ IF spot.pending = <<>> THEN UNCHANGED <<ran, library>>
             ELSE /\ ran' = Executed(spot)
                  /\ library' = RecordLaunch(spot.pending[1], spot.pending[2])
     ELSE /\ spot' = [spot EXCEPT !.pending = <<>>] /\ inbox' = Tail(inbox)
          /\ UNCHANGED <<seen, ran, library>>
  /\ UNCHANGED <<entries, spot_count>>
HandleSelect ==
  /\ inbox # <<>> /\ Head(inbox) > 0
  /\ spot' = [spot EXCEPT !.selected = Head(inbox) - 1] /\ inbox' = Tail(inbox) /\ stale' = TRUE
  /\ UNCHANGED <<seen, entries, library, ran, spot_count>>

Toggle(mode, style) ==
  Counted /\ Becomes(IF spot.shown THEN Close(spot) ELSE Open(spot, mode, style))
  /\ UNCHANGED <<entries, library, ran>>
ToggleNamed == Toggle("applications", "none")
TogglePayload == \E r \in Requests : Toggle(r[1], r[2])
OpenPayload ==
  /\ Counted /\ \E r \in Requests : Becomes(Open(spot, r[1], r[2]))
  /\ UNCHANGED <<entries, library, ran>>
CloseNamed == Counted /\ Becomes(Close(spot)) /\ UNCHANGED <<entries, library, ran>>
ConfigReload ==
  /\ Counted /\ stale' = TRUE
  /\ \E cache \in BOOLEAN : library' = [library EXCEPT !.cache_enabled = cache]
  /\ UNCHANGED <<spot, inbox, seen, entries, ran>>

\* Each request to read the applications is a thread of its own, that reads the
\* disk at some time after it is started; what it has to write is all that tells.
AppsReload ==
  /\ Counted /\ stale' = TRUE
  /\ \E t \in DOMAIN entries.threads :
       /\ entries.threads[t].at = "none"
       /\ entries' = [entries EXCEPT !.threads[t] = [at |-> "read", apps |-> entries.disk]]
  /\ UNCHANGED <<spot, inbox, seen, library, ran>>
ReloadStep(t) ==
  LET th == entries.threads[t]
  IN  /\ entries' = CASE th.at = "read" -> [entries EXCEPT !.threads[t] = [at |-> "wrote", apps |-> {}], !.apps = th.apps]
                      [] th.at = "wrote" -> [entries EXCEPT !.threads[t].at = "none", !.version = @ + 1]
                      [] OTHER -> entries
      /\ entries' # entries /\ UNCHANGED <<spot, inbox, seen, stale, library, ran, spot_count>>
Reload == \E t \in DOMAIN entries.threads : ReloadStep(t)

Install ==
  /\ Counted /\ \E a \in App : entries' = [entries EXCEPT !.disk = IF a \in @ THEN @ \ {a} ELSE @ \cup {a}]
  /\ UNCHANGED <<spot, inbox, seen, stale, library, ran>>
Copy ==
  /\ Counted /\ library' = [library EXCEPT !.copied = @ + 1]
  /\ UNCHANGED <<spot, inbox, seen, stale, entries, ran>>
\* A second later; it makes a difference only once something was copied.
RowsExpire ==
  /\ library.fresh /\ library.rows # library.copied /\ library' = [library EXCEPT !.fresh = FALSE]
  /\ UNCHANGED <<spot, inbox, seen, stale, entries, ran, spot_count>>
\* The output goes, and the item is not told.
MonitorLost ==
  /\ Counted /\ seen.kind # "none" /\ Vanish /\ stale' = TRUE /\ UNCHANGED <<spot, entries, library, ran>>

Init ==
  /\ spot = [search |-> <<>>, selected |-> 0, action |-> 0, display |-> 0, requested |-> "none",
             expanded |-> <<>>, closing |-> FALSE, mode |-> "applications", base |-> "applications",
             pending |-> <<>>, start |-> 0, end |-> Page["list"], shown |-> FALSE]
  /\ inbox = <<>> /\ seen = Nothing /\ stale = FALSE /\ ran = <<>> /\ spot_count = 0
  /\ entries = [disk |-> App, apps |-> {}, version |-> 0,
                threads |-> <<[at |-> "read", apps |-> App], [at |-> "none", apps |-> {}]>>]
  /\ \E cache \in BOOLEAN :
       library = [cache_enabled |-> cache, usage |-> [a \in App |-> 0], launches |-> 0,
                  copied |-> 1, rows |-> 1, fresh |-> cache,
                  cache |-> [mode \in Modes \ {"calculator"} |->
                               CASE cache /\ mode = "commands" -> [version |-> 0, items |-> SearchCommands(<<>>)]
                                 [] cache /\ mode = "clipboard" -> [version |-> 1, items |-> SearchClipboard(<<>>, 1)]
                                 [] OTHER -> [version |-> 0, items |-> <<>>]]]

Next ==
  \/ Key \/ Draw \/ HandleRedraw \/ HandleSelect
  \/ ToggleNamed \/ TogglePayload \/ OpenPayload \/ CloseNamed \/ ConfigReload
  \/ AppsReload \/ Reload \/ Install \/ Copy \/ RowsExpire \/ MonitorLost
Spec == Init /\ [][Next]_spotVars

----------------------------------------------------------------------------
TypeOK ==
  /\ spot.search \in UNION {[1..n -> {"a", "/", "2+", "2"}] : n \in 0..MaxQuery}
  /\ spot.selected \in Nat /\ spot.action \in 0..1 /\ spot.display \in 0..1
  /\ spot.mode \in Modes /\ spot.base \in Modes /\ spot.start \in Nat /\ spot.end \in Nat
  /\ seen.kind \in {"none", "blank", "list", "single", "expanded"} /\ entries.apps \subseteq App

\* What a key or a click acts on is what the window shows: with no message and
\* no drawing outstanding, the shared state is the one that was drawn.
ActsOnWhatIsShown ==
  seen.kind \in {"list", "single"} /\ inbox = <<>> /\ ~stale =>
    /\ spot.search = seen.query /\ spot.selected = seen.selected /\ spot.action = seen.action
    /\ (seen.kind = "list" => spot.start = seen.start) /\ ~spot.closing /\ spot.expanded = <<>>

\* An action runs as the spotlight closes, is one of those drawn last, and runs
\* for the query it was offered for, or one that was typed since.
RunsAsItCloses ==
  [][ran' # ran => /\ spot.shown /\ ~spot'.shown /\ seen'.kind = "none"
                   /\ ran'[1] \in Range(seen.items) /\ ran'[2] \in Range(ActionDefs(ran'[1], seen.style))]_spotVars

\* A list that is kept is the one that a search would give, unless a thread is
\* between writing the applications and saying so.
CacheIsCurrent ==
  LET c == library.cache["applications"]
  IN  c.items # <<>> /\ c.version = Version("applications")
      /\ (\A t \in DOMAIN entries.threads : entries.threads[t].at # "wrote")
        => c.items = SearchApplications(<<>>)

\* An arrow brings the result it selects into the window, if there is one.
ArrowsReveal ==
  [][PressUp \/ PressDown =>
       spot'.selected \in {spot.selected} \cup Results..spot.selected \cup spot'.start..(spot'.end - 1)]_spotVars
=============================================================================
