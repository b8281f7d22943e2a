---------------------------- MODULE WsConnection ----------------------------
(***************************************************************************)
(* One WebSocket connection (`run_connection` and `run_turn` of            *)
(* src/src/server/websocket.rs): a reader task that hears the client while *)
(* a turn runs, a bounded queue of messages with a byte budget, and the    *)
(* loop that takes them one by one, turns requests into upstream turns and *)
(* keeps the conversation (WsSession).                                     *)
(*                                                                         *)
(* The reader and the loop run on different threads: what the loop does    *)
(* between two looks at shared state (`active_turn`, the two cancellation  *)
(* tokens, `queue_exceeded`, the queue) is a step of its own. What a       *)
(* queued text says is chosen when it is parsed: nothing depends on it     *)
(* before. A write fails when its client is gone or has not read for the   *)
(* write deadline, which may be at any time.                               *)
(***************************************************************************)
EXTENDS WsSession, Sequences

CONSTANTS
  QueueCapacity,  \* MESSAGE_QUEUE_CAPACITY
  MaxQueuedBytes  \* MAX_QUEUED_BYTES

ASSUME QueueAssumption == QueueCapacity \in Nat \ {0} /\ MaxQueuedBytes \in Nat

VARIABLES
  reader,    \* the reader task: where it stands, the message in its hand
  read,      \* messages read so far; a message is named by its number
  chan,      \* the queue
  bytes,     \* queued_bytes
  exceeded,  \* queue_exceeded
  gone,      \* connection_cancel
  active,    \* active_turn: the turn whose token is there, or 0
  loop,      \* the loop: where it stands, the message it has taken
  turn,      \* the turn in progress or the last one
  ended,     \* how the loop ended
  told,      \* answers written: to which message, and what
  owed       \* history: messages taken that call for an answer

readerVars == <<reader, read>>
queueVars == <<chan, bytes>>
signalVars == <<exceeded, gone>>
loopVars == <<active, loop, turn, ended, told, owed>>
vars == <<readerVars, queueVars, signalVars, loopVars, sessionVars>>

Kinds == {"text", "cancel", "pong", "close"}
Signals == {"read closed", "queue exceeded"}
Message == [kind : Kinds \cup Signals, n : Ids]
Nothing == [kind |-> "pong", n |-> 0]
Signal(s) == [kind |-> s, n |-> 0]

(* A pong has no payload, and a signal of the reader is not accounted.     *)
Size(m) == IF m.kind \in {"text", "cancel", "close"} THEN 1 ELSE 0

NoTurn == [n |-> 0, phase |-> "none", cancelled |-> FALSE, terminal |-> "none",
           output |-> {}, why |-> "none", demanded |-> FALSE, plain |-> FALSE,
           said |-> {}]
LoopAt(place) == loop' = [at |-> place, msg |-> IF place = "recv" THEN Nothing ELSE loop.msg]
Between(demanded) == [NoTurn EXCEPT !.demanded = demanded]
HasRoom == Len(chan) < QueueCapacity

-----------------------------------------------------------------------------
(* The reader *)

(* A cancel that meets a turn cancels it and goes no further.              *)
ReadsCancel ==
  /\ reader.at = "reading" /\ read < MaxMessages
  /\ active # 0
  /\ read' = read + 1
  /\ turn' = IF turn.n = active THEN [turn EXCEPT !.cancelled = TRUE] ELSE turn
  /\ UNCHANGED <<reader, queueVars, signalVars, active, loop, ended, told, owed, sessionVars>>

(* Anything else, such a cancel included when no turn is there, is counted *)
(* against the budget and queued.                                          *)
Reads(kind) ==
  LET m == [kind |-> kind, n |-> read + 1]
  IN  /\ reader.at = "reading" /\ read < MaxMessages
      /\ kind = "cancel" => active = 0
      /\ read' = read + 1
      /\ bytes' = bytes + Size(m)
      /\ reader' = [at |-> IF bytes' > MaxQueuedBytes THEN "exceeding" ELSE "sending", msg |-> m]
      /\ UNCHANGED <<chan, signalVars, loopVars, sessionVars>>

ReaderSends ==
  /\ reader.at = "sending"
  /\ loop.at # "ended" /\ HasRoom
  /\ chan' = Append(chan, reader.msg)
  /\ reader' = [at |-> "reading", msg |-> Nothing]
  /\ UNCHANGED <<read, bytes, signalVars, loopVars, sessionVars>>

ReaderFindsNobody ==
  /\ reader.at = "sending"
  /\ loop.at = "ended"
  /\ bytes' = bytes - Size(reader.msg)
  /\ reader' = [at |-> "gone", msg |-> Nothing]
  /\ UNCHANGED <<read, chan, signalVars, loopVars, sessionVars>>

Marks == exceeded' = TRUE /\ UNCHANGED gone
CancelsConnection == gone' = TRUE /\ UNCHANGED exceeded

(* Mutant: the connection is cancelled before the mark is set.             *)
OverflowsCancelFirst ==
  /\ \/ reader.at = "exceeding" /\ CancelsConnection /\ reader' = [reader EXCEPT !.at = "exceeded"]
     \/ reader.at = "exceeded" /\ Marks
        /\ reader' = [at |-> "leaving", msg |-> Signal("queue exceeded")]
  /\ UNCHANGED <<read, queueVars, loopVars, sessionVars>>

(* Over the budget: the mark is set, then the connection cancelled.        *)
Overflows ==
  /\ \/ reader.at = "exceeding" /\ Marks /\ reader' = [reader EXCEPT !.at = "exceeded"]
     \/ reader.at = "exceeded" /\ CancelsConnection
        /\ reader' = [at |-> "leaving", msg |-> Signal("queue exceeded")]
  /\ UNCHANGED <<read, queueVars, loopVars, sessionVars>>

(* The client has closed, the read failed, or nothing came in time.        *)
ReadEnds ==
  /\ reader.at = "reading"
  /\ gone' = TRUE
  /\ reader' = [at |-> "leaving", msg |-> Signal("read closed")]
  /\ UNCHANGED <<read, queueVars, exceeded, loopVars, sessionVars>>

ReaderLeaves ==
  /\ reader.at = "leaving"
  /\ HasRoom \/ loop.at = "ended"
  /\ chan' = IF loop.at = "ended" THEN chan ELSE Append(chan, reader.msg)
  /\ reader' = [at |-> "gone", msg |-> Nothing]
  /\ UNCHANGED <<read, bytes, signalVars, loopVars, sessionVars>>

-----------------------------------------------------------------------------
(* The loop between turns *)

End(how) ==
  /\ ended' = how
  /\ LoopAt("ended")

(* The session is the loop's own.                                          *)
SessionGoesWithLoop ==
  IF loop'.at = "ended"
  THEN top' = FALSE /\ items' = {} /\ output' = {} /\ lastId' = 0 /\ replace' = FALSE /\ staged' = {}
  ELSE UNCHANGED sessionVars

(* An answer: written, or the write fails and the connection ends.         *)
Tells(what, place) ==
  \/ told' = Append(told, [n |-> loop.msg.n, what |-> what]) /\ LoopAt(place) /\ UNCHANGED ended
  \/ End("write") /\ UNCHANGED told

(* Mutant: the bytes of a message taken stay in the budget.                *)
TakesUncounted ==
  /\ loop.at = "recv"
  /\ chan # <<>> /\ Head(chan).kind \in Kinds
  /\ chan' = Tail(chan)
  /\ loop' = [at |-> "hand", msg |-> Head(chan)]
  /\ owed' = IF Head(chan).kind \in {"text", "cancel"} THEN owed \cup {Head(chan).n} ELSE owed
  /\ UNCHANGED <<readerVars, bytes, signalVars, active, turn, ended, told, sessionVars>>

Takes ==
  /\ loop.at = "recv"
  /\ chan # <<>> /\ Head(chan).kind \in Kinds
  /\ chan' = Tail(chan)
  /\ bytes' = bytes - Size(Head(chan))
  /\ loop' = [at |-> "hand", msg |-> Head(chan)]
  /\ owed' = IF Head(chan).kind \in {"text", "cancel"} THEN owed \cup {Head(chan).n} ELSE owed
  /\ UNCHANGED <<readerVars, signalVars, active, turn, ended, told, sessionVars>>

TakesSignal ==
  /\ loop.at = "recv"
  /\ chan # <<>> /\ Head(chan).kind \in Signals
  /\ chan' = Tail(chan)
  /\ End(IF Head(chan).kind = "queue exceeded" THEN "1009" ELSE "read closed")
  /\ UNCHANGED <<readerVars, bytes, signalVars, active, turn, told, owed>>
  /\ SessionGoesWithLoop

(* The heartbeat of an idle connection; `recv` goes first.                 *)
HeartbeatFails ==
  /\ loop.at = "recv"
  /\ chan = <<>>
  /\ End("write")
  /\ UNCHANGED <<readerVars, queueVars, signalVars, active, turn, told, owed>>
  /\ SessionGoesWithLoop

HandlesControl ==
  /\ loop.at = "hand"
  /\ \/ loop.msg.kind = "pong" /\ LoopAt("recv") /\ UNCHANGED ended
     \/ loop.msg.kind = "close" /\ End("close frame")
  /\ UNCHANGED <<readerVars, queueVars, signalVars, active, turn, told, owed>>
  /\ SessionGoesWithLoop

(* A cancel that met no turn is a message of an unsupported type.          *)
RefusesCancel ==
  /\ loop.at = "hand"
  /\ loop.msg.kind = "cancel"
  /\ Tells("error", "recv")
  /\ UNCHANGED <<readerVars, queueVars, signalVars, active, turn, owed>>
  /\ SessionGoesWithLoop

RefusesText(r) ==
  /\ NotSent(r)
  /\ Tells("error", "recv")
  /\ turn' = Between(turn.demanded /\ Refuses(r))
  /\ UNCHANGED active

(* `prewarm`: answered here, and committed if it could be written.         *)
Prewarms(r) ==
  /\ Sendable(r) /\ r.warm
  /\ \/ /\ Commit(Merged(r), loop.msg.n, {})
        /\ told' = Append(told, [n |-> loop.msg.n, what |-> "completed"])
        /\ LoopAt("recv")
        /\ UNCHANGED ended
     \/ /\ End("write")
        /\ replace' = DemandAfter(r) /\ staged' = Merged(r)
        /\ UNCHANGED <<told, top, items, output, lastId>>
  /\ turn' = Between(FALSE)
  /\ UNCHANGED active

StartsTurn(r) ==
  /\ ~r.warm
  /\ Stage(r)
  /\ active' = loop.msg.n
  /\ turn' = [NoTurn EXCEPT !.n = loop.msg.n, !.phase = "fresh",
                            !.demanded = turn.demanded, !.plain = Plain(r), !.said = r.input]
  /\ LoopAt("turn")
  /\ UNCHANGED <<ended, told>>

HandlesText ==
  /\ loop.at = "hand"
  /\ loop.msg.kind = "text"
  /\ \E r \in Said(loop.msg.n) : RefusesText(r) \/ Prewarms(r) \/ StartsTurn(r)
  /\ UNCHANGED <<readerVars, queueVars, signalVars, owed>>

-----------------------------------------------------------------------------
(* A turn *)

Undisturbed == ~gone /\ ~turn.cancelled
During(phases) == loop.at = "turn" /\ turn.phase \in phases

Returns(terminal, out, why) ==
  /\ turn' = [turn EXCEPT !.phase = "over", !.terminal = terminal, !.output = out, !.why = why]
  /\ UNCHANGED <<readerVars, queueVars, signalVars, active, owed, sessionVars>>

(* Each select looks at the two tokens before the response.                *)
Opens ==
  /\ During({"fresh"})
  /\ Undisturbed
  /\ turn' = [turn EXCEPT !.phase = "opening"]
  /\ UNCHANGED <<readerVars, queueVars, signalVars, active, loop, ended, told, owed, sessionVars>>

Streams ==
  /\ During({"opening"})
  /\ Undisturbed
  /\ turn' = [turn EXCEPT !.phase = "streaming"]
  /\ UNCHANGED <<readerVars, queueVars, signalVars, active, loop, ended, told, owed, sessionVars>>

(* The event that ends the answer: completed, or failed (an `error` event  *)
(* is handled like `response.failed`).                                     *)
(* Several events may come in one frame, without a look at the tokens.     *)
Concludes(terminal, out) ==
  /\ During({"streaming"})
  /\ turn.terminal = "none"
  /\ turn' = [turn EXCEPT !.terminal = terminal, !.output = out]
  /\ told' = Append(told, [n |-> turn.n, what |-> IF terminal = "completed" THEN terminal ELSE "error"])
  /\ UNCHANGED <<readerVars, queueVars, signalVars, active, loop, ended, owed, sessionVars>>

(* No stream: busy (429), draining (503), or an error body.                *)
Declined ==
  /\ During({"opening"})
  /\ Undisturbed
  /\ \E terminal \in {"failed", "draining"} :
       /\ Returns(terminal, {}, "end")
       /\ told' = Append(told, [n |-> turn.n, what |-> "error"])
  /\ LoopAt("returned")
  /\ UNCHANGED ended

BodyEnds ==
  /\ During({"streaming"})
  /\ Undisturbed
  /\ Returns(turn.terminal, turn.output, "end")
  /\ LoopAt("returned")
  /\ UNCHANGED <<ended, told>>

(* A write of the turn fails, or an event is too big and closes with 1009. *)
Breaks ==
  /\ During({"opening", "streaming"})
  /\ \E how \in {"write", "1009"} :
       /\ ended' = how
       /\ how = "1009" => During({"streaming"})
  /\ Returns("broken", {}, "end")
  /\ LoopAt("returned")
  /\ UNCHANGED told

(* Mutant: a turn looks at its own token only, which is no child of the    *)
(* connection's.                                                           *)
CutByCancelOnly ==
  /\ During({"fresh", "opening", "streaming"})
  /\ turn.cancelled
  /\ Returns(turn.terminal, turn.output, "cancelled")
  /\ LoopAt("returned")
  /\ UNCHANGED <<ended, told>>

Cut ==
  /\ During({"fresh", "opening", "streaming"})
  /\ ~Undisturbed
  /\ Returns(turn.terminal, turn.output, IF gone THEN "gone" ELSE "cancelled")
  /\ LoopAt("returned")
  /\ UNCHANGED <<ended, told>>

-----------------------------------------------------------------------------
(* The loop after a turn *)

Clears ==
  /\ loop.at = "returned"
  /\ active' = 0
  /\ LoopAt("checking")
  /\ UNCHANGED <<readerVars, queueVars, signalVars, turn, ended, told, owed, sessionVars>>

Checks ==
  /\ loop.at = "checking"
  /\ \/ exceeded /\ End("1009")
     \/ ~exceeded /\ turn.terminal = "broken" /\ LoopAt("ended") /\ UNCHANGED ended
     \/ ~exceeded /\ turn.terminal # "broken" /\ LoopAt("settling") /\ UNCHANGED ended
  /\ UNCHANGED <<readerVars, queueVars, signalVars, active, turn, told, owed>>
  /\ SessionGoesWithLoop

(* Mutant: a cancelled turn is told so whatever it has answered.           *)
SettlesCancelled ==
  /\ loop.at = "settling"
  /\ ~gone /\ (turn.terminal = "none" \/ turn.cancelled)
  /\ RequireReplacement
  /\ turn' = Between(TRUE)
  /\ Tells("error", "recv")
  /\ UNCHANGED <<readerVars, queueVars, signalVars, active, owed>>

(* A turn that was cut or broke off without an answer of its own gets one, *)
(* unless the connection is over.                                          *)
SettlesUnanswered ==
  /\ loop.at = "settling"
  /\ turn.terminal = "none"
  /\ RequireReplacement
  /\ \/ gone /\ End("silent") /\ UNCHANGED <<told, turn>>
     \/ /\ ~gone
        /\ Tells("error", "recv")
        /\ turn' = Between(TRUE)
  /\ UNCHANGED <<readerVars, queueVars, signalVars, active, owed>>

SettlesCompleted ==
  /\ loop.at = "settling"
  /\ turn.terminal = "completed"
  /\ Commit(staged, turn.n, turn.output)
  /\ turn' = Between(FALSE)
  /\ LoopAt("recv")
  /\ UNCHANGED <<readerVars, queueVars, signalVars, active, ended, told, owed>>

SettlesFailed ==
  /\ loop.at = "settling"
  /\ turn.terminal = "failed"
  /\ RequireReplacement
  /\ turn' = Between(TRUE)
  /\ LoopAt("recv")
  /\ UNCHANGED <<readerVars, queueVars, signalVars, active, ended, told, owed>>

SettlesDraining ==
  /\ loop.at = "settling"
  /\ turn.terminal = "draining"
  /\ End("draining")
  /\ UNCHANGED <<readerVars, queueVars, signalVars, active, turn, told, owed>>
  /\ SessionGoesWithLoop

-----------------------------------------------------------------------------
Init ==
  /\ SessionInit
  /\ reader = [at |-> "reading", msg |-> Nothing] /\ read = 0
  /\ chan = <<>> /\ bytes = 0
  /\ exceeded = FALSE /\ gone = FALSE
  /\ active = 0
  /\ loop = [at |-> "recv", msg |-> Nothing]
  /\ turn = NoTurn
  /\ ended = "no"
  /\ told = <<>> /\ owed = {}

Hearing == ReaderSends \/ ReaderFindsNobody \/ Overflows \/ ReaderLeaves
Settling == \/ Clears \/ Checks \/ SettlesUnanswered \/ SettlesCompleted
            \/ SettlesFailed \/ SettlesDraining
Looping == Takes \/ TakesSignal \/ HandlesControl \/ RefusesCancel \/ HandlesText \/ Settling
Answering == \/ Opens \/ Streams \/ Declined \/ BodyEnds \/ Breaks
             \/ Concludes("failed", {})
             \/ \E out \in Outputs(turn.n) : Concludes("completed", out)

Next ==
  \/ ReadsCancel \/ (\E k \in Kinds : Reads(k)) \/ ReadEnds
  \/ Hearing
  \/ Looping \/ HeartbeatFails
  \/ Answering
  \/ Cut

(* Tasks that can run do run. Nobody owes a message, and the upstream owes *)
(* no answer: it may be silent for ever.                                   *)
Fairness == WF_vars(Hearing) /\ WF_vars(Looping) /\ WF_vars(Cut)

Spec == Init /\ [][Next]_vars /\ Fairness

-----------------------------------------------------------------------------
(* Properties *)

TypeOK ==
  /\ SessionTypeOK
  /\ reader.at \in {"reading", "sending", "exceeding", "exceeded", "leaving", "gone"}
  /\ reader.msg \in Message
  /\ read \in Ids /\ bytes \in Nat
  /\ chan \in Seq(Message) /\ Len(chan) <= QueueCapacity
  /\ {exceeded, gone} \subseteq BOOLEAN
  /\ active \in Ids /\ turn.n \in Ids
  /\ loop.at \in {"recv", "hand", "turn", "returned", "checking", "settling", "ended"}
  /\ loop.msg \in Message

TurnRuns == loop.at \in {"turn", "returned", "checking", "settling"}

Answered == {told[i].n : i \in DOMAIN told}

(* Each message that calls for an answer gets one and one only, in the     *)
(* order of the messages: a turn cut after its terminal event is not told  *)
(* again, one cut before it is told by the loop, and the next message is   *)
(* not looked at before.                                                   *)
OneAnswerEach ==
  /\ \A i, j \in DOMAIN told : i < j => told[i].n < told[j].n
  /\ Answered \subseteq owed
  /\ loop.at = "recv" => Answered = owed

(* The budget holds exactly the bytes that wait in the queue or in the     *)
(* reader's hand, whichever of the two tasks moved them last, and what     *)
(* waits in the queue is within its limit.                                 *)
InQueue == LET sized == {i \in DOMAIN chan : Size(chan[i]) = 1} IN Cardinality(sized)
InHand == IF reader.at \in {"sending", "exceeding", "exceeded"} THEN Size(reader.msg) ELSE 0
BudgetIsExact ==
  loop.at # "ended" /\ ~exceeded =>
    bytes = InQueue + InHand /\ InQueue <= MaxQueuedBytes

(* A connection cut because its queue is over the limit is closed with the *)
(* code 1009: the turn that is cut finds the mark, set before the cancel.  *)
OverflowIsTold ==
  ended = "silent" /\ turn.why = "gone" => ~exceeded /\ reader.at # "exceeded"

(* What a turn that did not complete was asked is not part of any later    *)
(* request, unless the client says it again: the upstream is sent the      *)
(* messages of completed turns and those of the request itself.            *)
Completed == {told[i].n : i \in {j \in DOMAIN told : told[j].what = "completed"}}
FailedTurnIsForgotten ==
  loop.at = "turn" =>
    \A i \in staged \ turn.said : i.kind # "result" => i.of \in Completed

(* In a request the upstream is sent, each call the server has put there   *)
(* has its result.                                                         *)
CallsAreAnswered ==
  loop.at = "turn" =>
    \A i \in staged : i.kind = "call" => Result(i.of) \in staged

(* tests/websocket_surface.rs:815: after a turn that did not complete the  *)
(* client sends the whole conversation, and it is taken as it is, however  *)
(* many requests were refused in between. One refused for its size is the  *)
(* exception: it takes the demand with it (websocket.rs:918).              *)
ReplacementReplaces ==
  loop.at = "turn" /\ top /\ turn.demanded /\ turn.plain => staged = turn.said

(* What the upstream is sent is whole: the results of its calls are in it, *)
(* and a replacement is all of it.                                         *)
RequestsAreWhole == CallsAreAnswered /\ ReplacementReplaces

(* A connection whose client has left, or that is cut, ends, also when the *)
(* upstream never answers: its slot among MAX_CONNECTIONS is given back.   *)
GoneIsNoticed == gone ~> loop.at = "ended"
=============================================================================
