---------------------------- MODULE EventFilters ----------------------------
(***************************************************************************)
(* The vocabulary of events: what a listener delivers (ListenerAction),    *)
(* what an item subscribes to (EventFilter), and the two ways the code     *)
(* decides that a filter wants an action: the hash lookup of the dispatch  *)
(* tables, and EventFilter::matches, which an item that looks at the       *)
(* action itself calls.                                                    *)
(*                                                                         *)
(* An action or filter is a record.  `name` is the event name (the command *)
(* name of an Ipc), `mask` the set of compositor areas, `bare` says that a *)
(* Payload carries no payload.  Fields a kind does not use hold NoName,    *)
(* {} and FALSE, so that records of different kinds can be compared.       *)
(***************************************************************************)
EXTENDS Integers

CONSTANTS
  Name,      \* event names
  Area,      \* compositor areas a CompositorEvent mask is made of
  NoName     \* the name field of a kind that has none

ASSUME NoNameAssumption == NoName \notin Name

----------------------------------------------------------------------------
FilterKind == {"Named", "Payload", "Ipc", "Compositor", "UpdateCompositor",
               "Tick", "Frame", "All", "StartUp"}

EventFilter == [kind : FilterKind, name : Name \cup {NoName}, mask : SUBSET Area]

NamedFilter(n)      == [kind |-> "Named",      name |-> n, mask |-> {}]
PayloadFilter(n)    == [kind |-> "Payload",    name |-> n, mask |-> {}]
IpcFilter(n)        == [kind |-> "Ipc",        name |-> n, mask |-> {}]
CompositorFilter(m) == [kind |-> "Compositor", name |-> NoName, mask |-> m]
PlainFilter(k)      == [kind |-> k, name |-> NoName, mask |-> {}]

AnAction(k, n, m, b) == [kind |-> k, name |-> n, mask |-> m, bare |-> b]

\* The commands an item sends to the compositor travel as ListenerActions too.
CommandKind == {"FocusWorkspace", "FocusWindow", "CloseWindow", "KillWindow",
                "FocusMonitor"}

ListenerAction ==
  {AnAction(k, n, {}, FALSE) : k \in {"Named", "Timer", "Signal", "Ipc"}, n \in Name}
    \cup {AnAction("Payload", n, {}, b) : n \in Name, b \in BOOLEAN}
    \cup {AnAction("UpdateCompositor", NoName, m, FALSE) : m \in SUBSET Area}
    \cup {AnAction(k, NoName, {}, FALSE) : k \in {"None", "Frame", "StartUp"} \cup CommandKind}

----------------------------------------------------------------------------
\* The one filter an action is looked up under in a subscription table.
FilterOf(a) ==
  CASE a.kind \in {"Named", "Timer", "Signal"} -> NamedFilter(a.name)
    [] a.kind = "Payload"          -> PayloadFilter(a.name)
    [] a.kind = "Ipc"              -> IpcFilter(a.name)
    [] a.kind = "UpdateCompositor" -> PlainFilter("UpdateCompositor")
    [] a.kind = "Frame"            -> PlainFilter("Frame")
    [] a.kind = "StartUp"          -> PlainFilter("StartUp")
    [] OTHER                       -> PlainFilter("Tick")

\* matching_items and check_deployables: the key of the action, All, and the
\* Named filter when the payload is bare.
LookedUp(f, a) ==
  \/ f = FilterOf(a)
  \/ f.kind = "All"
  \/ a.kind = "Payload" /\ a.bare /\ f = NamedFilter(a.name)

\* DesktopItems::update adds the compositor masks that meet a changed area.
Dispatched(f, a) ==
  \/ LookedUp(f, a)
  \/ a.kind = "UpdateCompositor" /\ f.kind = "Compositor" /\ f.mask \cap a.mask # {}

\* EventFilter::matches, arm by arm.
Matches(f, a) ==
  \/ f.kind = "UpdateCompositor" /\ a.kind = "UpdateCompositor"
  \/ f.kind = "Compositor" /\ a.kind = "UpdateCompositor" /\ a.mask \cap f.mask # {}
  \/ /\ f.kind = "Named" /\ f.name = a.name
     /\ \/ a.kind \in {"Named", "Timer", "Signal"}
        \/ a.kind = "Payload" /\ a.bare
  \/ f.kind = "Payload" /\ a.kind = "Payload" /\ f.name = a.name
  \/ f.kind = "Ipc" /\ a.kind = "Ipc" /\ f.name = a.name
  \/ f.kind = "Frame" /\ a.kind = "Frame"
  \/ f.kind = "All"
  \/ f.kind = "StartUp" /\ a.kind = "StartUp"

\* What update() takes for a request to wake an inactive OnDemand item.
ActivationEvent(a) == a.kind \in {"Named", "Payload", "Ipc"}
=============================================================================
