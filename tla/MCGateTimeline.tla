--------------------------- MODULE MCGateTimeline ---------------------------
(***************************************************************************)
(* An instance of GateTimeline for TLC: one send at a time, a ring of      *)
(* three transitions, no pacing (a quota changes no latch transition).     *)
(***************************************************************************)
EXTENDS GateTimeline

Unpaced == [maxRpm |-> 0, maxHold |-> 1, drip |-> 1, latch |-> 2, offset |-> 0, guard |-> 1]

MCConfigs == {Unpaced}
MCHints == {[kind |-> "none", n |-> 0], [kind |-> "seconds", n |-> 0],
            [kind |-> "seconds", n |-> 3]}

(* Upstream's side is written and not read here. *)
WithoutUpstream == <<now, gateVars, file, ioFaults, requestVars, latchedTicks>>
=============================================================================
