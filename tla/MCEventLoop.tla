---------------------------- MODULE MCEventLoop ----------------------------
(* Small instances of EventLoop. *)
EXTENDS EventLoop

CONSTANTS second, alarm, pipe, pipe2, raw

MCKindOf ==
  [r \in Res |-> CASE r = second -> "interval"
                   [] r = alarm -> "oneshot"
                   [] r \in {pipe, pipe2} -> "signal"
                   [] r = raw -> "watch"]
=============================================================================
