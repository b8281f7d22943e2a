----------------------------- MODULE MCLogDirs -----------------------------
(* A small instance of LogDirs: two hours, leftovers of two earlier hours. *)
EXTENDS LogDirs, TLC

Symmetry == Permutations(Requests)

MCOldDirs == {[at |-> 0, n |-> 1], [at |-> 2, n |-> 1]}
MCOldEntries == [payload : {TRUE}, error : BOOLEAN]

MCPolicies == {[days |-> 1, payload |-> 1, max |-> 0, keep |-> 0],
               [days |-> 2, payload |-> 1, max |-> 2, keep |-> 1]}
=============================================================================
