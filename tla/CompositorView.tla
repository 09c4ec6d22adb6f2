--------------------------- MODULE CompositorView ---------------------------
(***************************************************************************)
(* What the shell may rely on, whichever compositor it runs under: the     *)
(* trait Compositor and CompositorState (crates/compositor/src/lib.rs).    *)
(*                                                                         *)
(* The state a compositor shows falls into areas, those of the masks that  *)
(* update_state returns.  Whatever is not behind is as it really is, and   *)
(* has been announced.                                                     *)
(***************************************************************************)
CONSTANTS Area

VARIABLES
  world,   \* area -> what is so
  view,    \* area -> what state() says
  behind,  \* the areas of which news is under way
  untold   \* the areas that changed in state() and were in no mask since

viewVars == <<world, view, behind, untold>>

Differ(f, g) == {a \in Area : f[a] # g[a]}
Settled == \A a \in Area \ behind : view[a] = world[a] /\ a \notin untold

Init == view = world /\ behind = {} /\ untold = {}

\* Something happens, and word of it, at least, is sent.
WorldMoves ==
  /\ behind \cup Differ(world, world') \subseteq behind'
  /\ UNCHANGED <<view, untold>>

\* update_state, or a part of it: reads news, and announces some areas.
Update ==
  /\ world' = world /\ behind' \subseteq behind
  /\ untold' \subseteq untold \cup Differ(view, view')
  /\ Settled'

Next == WorldMoves \/ Update
Spec == Init /\ [][Next]_viewVars
=============================================================================
