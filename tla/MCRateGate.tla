----------------------------- MODULE MCRateGate -----------------------------
(***************************************************************************)
(* Instances of RateGate for TLC: a period of four ticks with a guard of   *)
(* one leaves two sendable ticks and two dead ones.                        *)
(***************************************************************************)
EXTENDS RateGate, TLC

Tight == [maxRpm |-> 1, maxHold |-> 0, drip |-> 2, latch |-> 3, offset |-> 0, guard |-> 1]
Unpaced == [maxRpm |-> 0, maxHold |-> 0, drip |-> 0, latch |-> 0, offset |-> -1, guard |-> 2]

MCConfigs == {Tight, Unpaced}

MCHints == {[kind |-> "none", n |-> 0], [kind |-> "minutes", n |-> 0]}

(* The ring is written by every transition and read by none, and only      *)
(* TypeOK speaks of it: two states that differ in it alone are one state.  *)
WithoutRing == <<now, params, bucketStart, bucketUsed, limitedUntil, nextDrip, waiters,
                 file, ioFaults, requestVars, upstreamVars>>

Symmetry == Permutations(Requests)
=============================================================================
