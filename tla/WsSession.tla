----------------------------- MODULE WsSession -----------------------------
(***************************************************************************)
(* The conversation kept for one WebSocket connection (`Session` of        *)
(* src/src/server/websocket.rs): what the last completed turn left, what   *)
(* the request being run has staged, and how a request is turned into the  *)
(* full conversation the upstream is sent.                                 *)
(*                                                                         *)
(* A conversation is the set of its items, each named for the message or   *)
(* the turn it comes from: a call that is met twice is one item, as        *)
(* `dedupe_items` makes it. An item that alone is over the size limit is   *)
(* `long`; otherwise the size is the number of items. A response has the   *)
(* number of the message it answers as its id, 0 being none.               *)
(***************************************************************************)
EXTENDS Integers, FiniteSets

CONSTANTS
  MaxMessages,    \* bound: messages a client sends
  MaxTranscript   \* MAX_TRANSCRIPT_BYTES, in items

ASSUME SessionAssumption == {MaxMessages, MaxTranscript} \subseteq Nat \ {0}

VARIABLES
  top,       \* last_top is there: some turn has completed
  items,     \* last_items
  output,    \* last_output
  lastId,    \* last_response_id
  replace,   \* replacement_needed
  staged     \* staged_items

sessionVars == <<top, items, output, lastId, replace, staged>>

Ids == 0 .. MaxMessages
Item == [kind : {"user", "long", "answer", "call", "result"}, of : Ids]
User(n) == [kind |-> "user", of |-> n]
Long(n) == [kind |-> "long", of |-> n]
Answer(n) == [kind |-> "answer", of |-> n]
Call(n) == [kind |-> "call", of |-> n]
Result(n) == [kind |-> "result", of |-> n]

(* What a text message may say. `warm` is a request not to generate.       *)
Inputs(n) == {{User(n)}, {User(n), Answer(n)}, {Long(n)}, {Result(lastId)}}
Said(n) == [type : {"create", "append", "other"}, prev : {0, lastId, n},
            input : Inputs(n), warm : BOOLEAN]

(* What a turn may have answered.                                          *)
Outputs(n) == {{Answer(n)}, {Call(n)}}

SessionInit ==
  /\ top = FALSE
  /\ items = {} /\ output = {} /\ staged = {}
  /\ lastId = 0
  /\ replace = FALSE

-----------------------------------------------------------------------------
(* `normalize` *)

Pending == {i.of : i \in {j \in output : j.kind = "call"}}

(* Mutant: a request that gives no output is taken for a new one.          *)
SatisfiesIfAny(input) ==
  (\E i \in input : i.kind = "result") => \A k \in Pending : Result(k) \in input

Satisfies(input) == \A k \in Pending : Result(k) \in input

HasTranscript(input) == \E i \in input : i.kind \in {"answer", "call"}
Unknown(r) == r.prev # 0 /\ r.prev # lastId
Plain(r) == r.type = "create" /\ r.prev = 0

(* The request is the whole conversation: it has answers in it, or no      *)
(* previous response where the conversation so far cannot be continued.    *)
Replaces(r) ==
  top /\ (HasTranscript(r.input) \/ (Plain(r) /\ (replace \/ ~Satisfies(r.input))))

Refuses(r) ==
  \/ r.type = "other"
  \/ ~top /\ (r.type = "append" \/ Unknown(r))
  \/ top /\ ~Replaces(r) /\ (Unknown(r) \/ ~Satisfies(r.input))

(* Mutant: the staged items of a turn that failed are built upon.          *)
MergedWithStaged(r) ==
  IF Replaces(r) \/ ~top THEN r.input ELSE items \cup output \cup staged \cup r.input

Merged(r) ==
  IF Replaces(r) \/ ~top THEN r.input ELSE items \cup output \cup r.input

Fits(its) == Cardinality(its) <= MaxTranscript /\ \A i \in its : i.kind # "long"

Sendable(r) == ~Refuses(r) /\ Fits(Merged(r))

(* `replacement` takes the demand back before `finish` looks at the size.  *)
DemandAfter(r) == replace /\ (Refuses(r) \/ ~Replaces(r))

NotSent(r) ==
  /\ ~Sendable(r)
  /\ replace' = DemandAfter(r)
  /\ UNCHANGED <<top, items, output, lastId, staged>>

Stage(r) ==
  /\ Sendable(r)
  /\ staged' = Merged(r)
  /\ replace' = DemandAfter(r)
  /\ UNCHANGED <<top, items, output, lastId>>

Commit(its, id, out) ==
  /\ top' = TRUE
  /\ items' = its /\ output' = out /\ lastId' = id
  /\ replace' = FALSE
  /\ staged' = {}

RequireReplacement ==
  /\ replace' = TRUE
  /\ UNCHANGED <<top, items, output, lastId, staged>>

-----------------------------------------------------------------------------
SessionTypeOK ==
  /\ {top, replace} \subseteq BOOLEAN
  /\ items \subseteq Item /\ output \subseteq Item /\ staged \subseteq Item
  /\ lastId \in Ids
=============================================================================
