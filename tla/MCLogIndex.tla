----------------------------- MODULE MCLogIndex -----------------------------
(* A small instance of LogIndex: up to three lines from before, four more. *)
EXTENDS LogIndex

CONSTANTS o1, o2, o3

MCOldLines == <<o1, o2, o3>>
=============================================================================
