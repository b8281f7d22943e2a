---------------------------- MODULE UpstreamStream ----------------------------
(***************************************************************************)
(* The stream owner of src/src/upstream/retry.rs: one client request from  *)
(* the connect phase (`Adapter::stream`) through the stream it returns     *)
(* (`DevinStream`), its pre-content resend, its watchdogs and its end.     *)
(*                                                                         *)
(* Three parties interleave: the consumer, which calls `recv` and          *)
(* `try_recv`, may drop a pending `recv`, cancel the lineage or drop the   *)
(* stream; the connect task, which runs beside it when a resend is armed;  *)
(* and upstream, which delivers frames at any moment.  One tick of the     *)
(* clock is five seconds of the code.                                      *)
(*                                                                         *)
(* Admission is the gate's (RateGate) and appears here as the three        *)
(* answers of `Gate::wait`; whether a newer credential exists is the token *)
(* store's.                                                                *)
(***************************************************************************)
EXTENDS Integers, Sequences, SequencesExt, FiniteSets

CONSTANTS
  MaxConnectAttempts,    \* MAX_CONNECT_ATTEMPTS
  StallTimeout,          \* STALL_TIMEOUT
  NoProgressTimeout,     \* NO_PROGRESS_TIMEOUT
  TailGrace,             \* TAIL_GRACE
  StartHoldTimeout,      \* START_HOLD_TIMEOUT
  KeepaliveInterval,     \* KEEPALIVE_INTERVAL of the SSE body
  MaxFrames,             \* bound: data frames upstream delivers to one request,
                         \* beside any number of liveness frames
  BufferCap              \* bound: frames received and not yet read

ASSUME TimersAssumption ==
  /\ {MaxConnectAttempts, KeepaliveInterval, StartHoldTimeout} \subseteq Nat \ {0}
  /\ {TailGrace, StallTimeout, NoProgressTimeout} \subseteq Nat \ {0}
  /\ KeepaliveInterval < TailGrace
  /\ TailGrace < StallTimeout
  /\ StallTimeout < NoProgressTimeout
ASSUME BoundsAssumption == MaxFrames \in Nat /\ BufferCap \in Nat \ {0}

VARIABLES
  pc,        \* where the consumer is
  reader,    \* who consumes: the SSE body, or a loop that collects the answer
  cancel,    \* the lineage token has fired
  conn,      \* the `get_chat_message_with_retry` in progress
  ds,        \* the DevinStream
  wire,      \* what upstream has delivered and nobody has read
  frames,    \* data frames delivered so far, liveness frames apart
  beat,      \* ticks until the reader's heartbeat makes it drop its poll
  stage,     \* stage of the first failure in the request's record
  seen,      \* events the consumer received, in order
  sends,     \* requests put on the wire in the present round of connecting
  decoded,   \* content events the decoders have produced
  rejected,  \* the gate has rejected a send of this request
  silence,   \* ticks a consumer waited since the last frame
  resumed    \* the wait was entered anew since the last frame

consumerVars == <<pc, reader, cancel, beat, seen>>
historyVars == <<sends, decoded, rejected, silence, resumed>>
vars == <<consumerVars, conn, ds, wire, frames, stage, historyVars>>

DataFrames == {"quiet", "content", "pattern", "stop", "limit", "refused"}
Failures == {"transport", "unauthenticated", "refusal"}
EndRecords == {"eof"} \cup Failures
Watchdogs == {"stalled", "no progress"}

(* What a resend is armed for: the cause it would otherwise have ended     *)
(* with, or "continue" for the empty end_turn, which has no cause.         *)
Causes == Failures \cup Watchdogs
Pending == {"none", "continue"} \cup Causes

Over == {"ended", "failed", "dropped"}
Disarmed == -1
Floor(timer) == IF timer <= 0 THEN timer ELSE timer - 1

-----------------------------------------------------------------------------
(* The decoder, as far as the owner can tell its states apart *)

Event == [kind : {"start", "content", "done", "error"}, send : Nat,
          cause : {"none", "cancelled", "incomplete"} \cup Causes]

NewDecoder == [finished |-> FALSE, stop |-> "none", content |-> FALSE, pattern |-> FALSE]

(* Text that completes a stop sequence closes the output; later frames     *)
(* only update usage, stop reasons included.                               *)
Decoded(d, f) ==
  IF d.finished \/ d.pattern THEN d
  ELSE CASE f = "quiet"   -> d
         [] f = "content" -> [d EXCEPT !.content = TRUE]
         [] f = "pattern" -> [d EXCEPT !.content = TRUE, !.pattern = TRUE]
         [] OTHER         -> [d EXCEPT !.stop = f]

ContentOf(s, f) ==
  IF f \in {"content", "pattern"} /\ ~s.decoder.finished /\ ~s.decoder.pattern
  THEN <<[kind |-> "content", send |-> s.attempt, cause |-> "none"]>>
  ELSE <<>>

EndsWell(d) == d.pattern \/ d.stop \in {"stop", "limit"}

(* `ResponseDecoder::finish`: "Repeated calls return empty."               *)
FinishOf(s, err) ==
  LET ending(kind, cause) == <<[kind |-> kind, send |-> s.attempt, cause |-> cause]>>
  IN  CASE s.decoder.finished  -> <<>>
        [] ~s.decoder.finished /\ err # "none" -> ending("error", err)
        [] ~s.decoder.finished /\ err = "none" /\ EndsWell(s.decoder) -> ending("done", "none")
        [] OTHER -> ending("error", "incomplete")

EmptyEndTurn(d) == ~d.finished /\ d.stop = "stop" /\ ~d.content

-----------------------------------------------------------------------------
(* The methods of DevinStream that touch nothing else *)

(* `release` and the push that follows it: the withheld start goes ahead   *)
(* of the first events, unless they are an error.                          *)
Release(s, events) ==
  LET start == [kind |-> "start", send |-> s.attempt, cause |-> "none"]
      withheld == IF s.pendingStart /\ events # <<>> /\ Head(events).kind # "error"
                  THEN <<start>> ELSE <<>>
  IN  [s EXCEPT !.pendingStart = @ /\ events = <<>>,
                !.queue = @ \o withheld \o events]

(* Mutant: the last events replace what is queued. *)
FinishReplacing(s, err) ==
  [Release([s EXCEPT !.queue = <<>>], FinishOf(s, err))
     EXCEPT !.decoder.finished = TRUE, !.finished = TRUE]

(* The decoder is finished, its last events are queued, nothing is read    *)
(* any more.                                                               *)
Finish(s, err) ==
  [Release(s, FinishOf(s, err)) EXCEPT !.decoder.finished = TRUE, !.finished = TRUE]

(* Both watchdogs are set anew before any later poll can wait on them.     *)
Parked(s) == [s EXCEPT !.stall = Disarmed, !.progress = Disarmed]

KillAttempt(s) == [s EXCEPT !.open = FALSE, !.pending = "none"]

(* Mutant: every frame feeds the progress watchdog. *)
AbsorbFeeding(s, f) ==
  LET events == ContentOf(s, f)
      fed == [s EXCEPT !.confirmed = TRUE, !.decoder = Decoded(@, f),
                       !.produced = @ \/ events # <<>>, !.progress = NoProgressTimeout]
  IN  [Release(fed, events) EXCEPT !.finished = s.decoder.finished]

Absorb(s, f) ==
  LET events == ContentOf(s, f)
      fed == [s EXCEPT !.confirmed = TRUE,
                       !.decoder = Decoded(@, f),
                       !.produced = @ \/ events # <<>>,
                       !.progress = IF events # <<>> THEN NoProgressTimeout ELSE @]
  IN  [Release(fed, events) EXCEPT !.finished = s.decoder.finished]

Adopt(s) ==
  [s EXCEPT !.retried = TRUE, !.open = TRUE, !.pending = "none", !.decoder = NewDecoder,
            !.started = FALSE, !.pendingStart = FALSE, !.finished = FALSE,
            !.queue = <<>>, !.confirmed = FALSE, !.progress = NoProgressTimeout]

(* Mutant: nor does an earlier resend. *)
MayReopenAgain(s) == ~s.produced /\ s.pending = "none"

(* The first three bars of `arm_reopen`. *)
MayReopen(s) == ~s.retried /\ ~s.produced /\ s.pending = "none"

Replayable(cause) == cause \in Watchdogs \cup {"transport", "unauthenticated"}

NoConn == [at |-> "none", try |-> 0, err |-> "none"]
Connecting == [at |-> "gate", try |-> 0, err |-> "none"]

StageOf(cause) == IF cause \in Watchdogs \cup {"transport"}
                  THEN "devin_transport" ELSE "devin_connect"

(* `write_error` keeps the first failure; a cancellation is not recorded.  *)
WriteError(s) == stage' = IF stage = "none" THEN s ELSE stage

RecordUpstreamFailure(cause) ==
  IF cause = "none" THEN UNCHANGED stage ELSE WriteError(StageOf(cause))

(* `arm_reopen` once it has decided: the old exchange is dropped before    *)
(* the resend connects in a task of its own.                               *)
ArmReopen(s, resend) ==
  /\ ds' = [s EXCEPT !.open = FALSE, !.pending = resend, !.attempt = @ + 1]
  /\ conn' = Connecting
  /\ wire' = <<>>
  /\ UNCHANGED stage

(* `finish_end`, and the tails of the watchdog arms. *)
FinishEnd(s, cause) ==
  /\ ds' = Finish(s, cause)
  /\ RecordUpstreamFailure(cause)
  /\ UNCHANGED <<conn, wire>>

(* The turn that ended empty is finished and released, and its events      *)
(* dropped, before the continuation is sent.                               *)
Discarded(s) == [Finish(s, "none") EXCEPT !.queue = s.queue, !.finished = s.finished]

ResendFor(s, cause) ==
  IF cause = "none"
  THEN IF EmptyEndTurn(s.decoder) THEN "continue" ELSE "none"
  ELSE IF Replayable(cause) THEN cause ELSE "none"

(* `resolve_end`; cause "none" is a clean end.  `available` is what        *)
(* `arm_reopen` learns from outside: that a newer token exists, where one  *)
(* is needed, and that the request could be built again.                   *)
ResolveEnd(s, cause, available) ==
  LET resend == ResendFor(s, cause)
  IN  IF available /\ MayReopen(s) /\ resend # "none"
      THEN ArmReopen(IF resend = "continue" THEN Discarded(s) ELSE s, resend)
      ELSE FinishEnd(s, cause)

-----------------------------------------------------------------------------
NewStream ==
  [open |-> FALSE, pending |-> "none", attempt |-> 1, decoder |-> NewDecoder,
   started |-> FALSE, pendingStart |-> FALSE, startReleased |-> FALSE,
   hold |-> Disarmed, finished |-> FALSE, queue |-> <<>>, produced |-> FALSE,
   confirmed |-> FALSE, retried |-> FALSE, stall |-> Disarmed, progress |-> Disarmed]

Init ==
  /\ pc = "connecting"
  /\ \/ reader = "sse" /\ beat = KeepaliveInterval
     \/ reader = "collector" /\ beat \in {Disarmed, KeepaliveInterval}
  /\ cancel = FALSE
  /\ conn = Connecting
  /\ ds = NewStream
  /\ wire = <<>> /\ frames = 0
  /\ stage = "none"
  /\ seen = <<>> /\ sends = 0 /\ decoded = 0 /\ rejected = FALSE
  /\ silence = 0 /\ resumed = FALSE

-----------------------------------------------------------------------------
(* get_chat_message_with_retry: backoff, admission, recheck, send *)

ConnLeavesRest ==
  UNCHANGED <<consumerVars, ds, wire, frames, decoded, silence, resumed>>

ConnFails(err) == conn' = [conn EXCEPT !.at = "failed", !.err = err]

(* Backoff, admission and the call itself all answer to the token. *)
ConnCancelled ==
  /\ conn.at \in {"backoff", "gate", "admitted", "sent"} /\ cancel
  /\ ConnFails("cancelled")
  /\ UNCHANGED <<stage, sends, rejected>> /\ ConnLeavesRest

BackoffOver ==
  /\ conn.at = "backoff"
  /\ conn' = [conn EXCEPT !.at = "gate"]
  /\ UNCHANGED <<stage, sends, rejected>> /\ ConnLeavesRest

GateAdmits ==
  /\ conn.at = "gate" /\ ~cancel
  /\ conn' = [conn EXCEPT !.at = "admitted"]
  /\ UNCHANGED <<stage, sends, rejected>> /\ ConnLeavesRest

(* Mutant: the rejection is left to the outer layers. *)
GateRejectsUnrecorded ==
  /\ conn.at = "gate" /\ ~cancel
  /\ ConnFails("rejected")
  /\ rejected' = TRUE
  /\ UNCHANGED <<stage, sends>> /\ ConnLeavesRest

(* A local rejection is recorded where it happens. *)
GateRejects ==
  /\ conn.at = "gate" /\ ~cancel
  /\ ConnFails("rejected")
  /\ rejected' = TRUE
  /\ WriteError("rate_gate")
  /\ UNCHANGED sends /\ ConnLeavesRest

Send ==
  /\ conn.at = "admitted" /\ ~cancel
  /\ conn' = [conn EXCEPT !.at = "sent"]
  /\ sends' = sends + 1
  /\ UNCHANGED <<stage, rejected>> /\ ConnLeavesRest

UpstreamOpens ==
  /\ conn.at = "sent"
  /\ conn' = [conn EXCEPT !.at = "opened"]
  /\ UNCHANGED <<stage, sends, rejected>> /\ ConnLeavesRest

(* Only a transport break is tried again, and only so often. *)
UpstreamFails(err) ==
  /\ conn.at = "sent"
  /\ IF err = "transport" /\ conn.try + 1 < MaxConnectAttempts
     THEN conn' = [conn EXCEPT !.at = "backoff", !.try = @ + 1]
     ELSE ConnFails(err)
  /\ UNCHANGED <<stage, sends, rejected>> /\ ConnLeavesRest

-----------------------------------------------------------------------------
(* Adapter::stream around it *)

OpenLeavesRest ==
  /\ sends' = 0
  /\ UNCHANGED <<reader, cancel, beat, seen, wire, frames, decoded, rejected, silence, resumed>>

StreamOpens ==
  /\ pc = "connecting" /\ conn.at = "opened"
  /\ pc' = "idle"
  /\ ds' = [ds EXCEPT !.open = TRUE]
  /\ conn' = NoConn
  /\ UNCHANGED stage /\ OpenLeavesRest

(* Credential self-heal: the request is rebuilt with the newer token and   *)
(* goes through the connect phase once more.                               *)
ConnectRepairs ==
  /\ pc = "connecting" /\ conn.at = "failed"
  /\ conn.err = "unauthenticated" /\ ds.attempt = 1
  /\ ds' = [ds EXCEPT !.attempt = @ + 1]
  /\ conn' = Connecting
  /\ UNCHANGED <<pc, stage>> /\ OpenLeavesRest

(* Also an unauthenticated failure for which no newer token exists. *)
StreamFails ==
  /\ pc = "connecting" /\ conn.at = "failed"
  /\ pc' = "failed"
  /\ conn' = NoConn
  /\ IF cancel \/ conn.err = "cancelled" THEN UNCHANGED stage ELSE WriteError(StageOf(conn.err))
  /\ UNCHANGED ds /\ OpenLeavesRest

-----------------------------------------------------------------------------
(* recv and try_recv.  The body of a poll is synchronous, so the watchdogs *)
(* stand still between "head" and "wait"; cancellation and arrivals do not. *)

RecvLeavesRest ==
  UNCHANGED <<reader, cancel, frames, sends, rejected>>

Receives(event) == seen' = Append(seen, event)

RecvCall ==
  /\ pc = "idle"
  /\ pc' = "head"
  /\ ds' = IF ds.queue = <<>> /\ ~ds.finished
           THEN [ds EXCEPT !.stall = StallTimeout, !.progress = NoProgressTimeout]
           ELSE ds
  /\ UNCHANGED <<conn, wire, stage, beat, seen, decoded, silence, resumed>>
  /\ RecvLeavesRest

Looping == pc = "head" /\ ds.queue = <<>> /\ ~ds.finished

(* The attempt is killed and the decoder ended with the cancellation.      *)
EndCancelled ==
  /\ pc' = "head"
  /\ ds' = Finish(KillAttempt(ds), "cancelled")
  /\ conn' = NoConn /\ wire' = <<>>
  /\ UNCHANGED <<stage, beat, seen, decoded, silence, resumed>>
  /\ RecvLeavesRest

HeadCancelled == Looping /\ cancel /\ EndCancelled

(* Mutant: a retried stream starts again for the client. *)
HeadStartsAgain ==
  /\ Looping /\ ~cancel /\ ~ds.started
  /\ ds' = [ds EXCEPT !.started = TRUE, !.pendingStart = TRUE, !.hold = StartHoldTimeout]
  /\ UNCHANGED <<pc, conn, wire, stage, beat, seen, decoded, silence, resumed>>
  /\ RecvLeavesRest

HeadStarts ==
  /\ Looping /\ ~cancel /\ ~ds.started
  /\ ds' = [ds EXCEPT !.started = TRUE, !.pendingStart = ~ds.startReleased,
                      !.hold = IF ds.startReleased THEN @ ELSE StartHoldTimeout]
  /\ UNCHANGED <<pc, conn, wire, stage, beat, seen, decoded, silence, resumed>>
  /\ RecvLeavesRest

(* Mutant: the tail is waited for as long as any frame. *)
HeadWaitsInFull ==
  /\ Looping /\ ~cancel /\ ds.started
  /\ pc' = "wait"
  /\ ds' = [ds EXCEPT !.stall = StallTimeout]
  /\ UNCHANGED <<conn, wire, stage, beat, seen, decoded, silence, resumed>>
  /\ RecvLeavesRest

HeadWaits ==
  /\ Looping /\ ~cancel /\ ds.started
  /\ pc' = "wait"
  /\ ds' = [ds EXCEPT !.stall = IF ds.decoder.stop # "none" THEN TailGrace ELSE StallTimeout]
  /\ UNCHANGED <<conn, wire, stage, beat, seen, decoded, silence, resumed>>
  /\ RecvLeavesRest

(* A frame is read: in the wait, or by the drain of `recv` or `try_recv`.  *)
Readable == ds.open /\ ds.pending = "none" /\ wire # <<>>

AbsorbFrame ==
  /\ Head(wire) \in DataFrames
  /\ ds' = Absorb(ds, Head(wire))
  /\ wire' = Tail(wire)
  /\ decoded' = decoded + Len(ContentOf(ds, Head(wire)))
  /\ UNCHANGED <<conn, stage>>

ReadEnd(available) ==
  /\ Head(wire) \in EndRecords
  /\ ResolveEnd(ds, IF Head(wire) = "eof" THEN "none" ELSE Head(wire), available)
  /\ UNCHANGED decoded

ReadLeavesRest == /\ silence' = 0 /\ resumed' = FALSE
                  /\ UNCHANGED <<beat, seen>> /\ RecvLeavesRest

TakeFrame ==
  /\ pc \in {"wait", "drain", "try"} /\ Readable /\ ~ds.finished
  /\ AbsorbFrame
  /\ pc' = IF pc = "wait" THEN "drain" ELSE pc
  /\ ReadLeavesRest

TakeEnd ==
  /\ pc \in {"wait", "drain", "try"} /\ Readable /\ ~ds.finished
  /\ \E available \in BOOLEAN : ReadEnd(available)
  /\ pc' = IF pc = "try" THEN "pop" ELSE "head"
  /\ ReadLeavesRest

DrainStops ==
  /\ pc \in {"drain", "try"} /\ (~Readable \/ ds.finished)
  /\ pc' = IF pc = "try" THEN "pop" ELSE "head"
  /\ UNCHANGED <<conn, ds, wire, stage, beat, seen, decoded, silence, resumed>>
  /\ RecvLeavesRest

(* The arms below the frame arm of a biased select, in its order.          *)
Quiet == pc = "wait" /\ ds.pending = "none" /\ ~Readable

ReopenReturned == pc = "wait" /\ ds.pending # "none" /\ conn.at \in {"opened", "failed"}

ArmLeavesRest == UNCHANGED <<beat, seen, decoded>> /\ RecvLeavesRest

FinishReopen ==
  /\ ReopenReturned
  /\ pc' = "head"
  /\ IF conn.at = "opened"
     THEN ds' = Adopt(ds) /\ UNCHANGED stage
     ELSE LET cause == IF ds.pending = "continue" THEN "none" ELSE ds.pending
              failed == [ds EXCEPT !.pending = "none", !.retried = TRUE]
          IN  ds' = Finish(failed, cause) /\ RecordUpstreamFailure(cause)
  /\ conn' = NoConn
  /\ silence' = 0 /\ resumed' = FALSE /\ sends' = 0
  /\ UNCHANGED <<wire, beat, seen, decoded, reader, cancel, frames, rejected>>

HoldFires ==
  /\ Quiet /\ ds.hold = 0
  /\ pc' = "head"
  /\ ds' = IF ds.pendingStart
           THEN [ds EXCEPT !.hold = Disarmed, !.pendingStart = FALSE, !.startReleased = TRUE,
                   !.queue = Append(@, [kind |-> "start", send |-> ds.attempt, cause |-> "none"])]
           ELSE [ds EXCEPT !.hold = Disarmed]
  /\ resumed' = (resumed \/ ~ds.pendingStart)
  /\ UNCHANGED <<conn, wire, stage, silence>> /\ ArmLeavesRest

(* After a stop reason only the transport's tail is missing.               *)
StallFires ==
  /\ Quiet /\ ds.hold # 0 /\ ds.stall = 0
  /\ pc' = "head"
  /\ \E available \in BOOLEAN :
       ResolveEnd([ds EXCEPT !.open = FALSE],
                  IF ds.decoder.stop # "none" THEN "none" ELSE "stalled", available)
  /\ UNCHANGED <<silence, resumed>> /\ ArmLeavesRest

ProgressFires ==
  /\ Quiet /\ ds.hold # 0 /\ ds.stall # 0 /\ ds.progress = 0
  /\ pc' = "head"
  /\ \E available \in BOOLEAN :
       ResolveEnd([ds EXCEPT !.open = FALSE], "no progress", available)
  /\ UNCHANGED <<silence, resumed>> /\ ArmLeavesRest

TimerDue == Quiet /\ 0 \in {ds.hold, ds.stall, ds.progress}

WaitCancelled ==
  /\ pc = "wait" /\ cancel
  /\ ~Readable /\ ~ReopenReturned /\ ~TimerDue
  /\ EndCancelled

(* The loop is left: the terminal kill, then one event or the end.         *)
RecvReturns ==
  /\ pc = "head" /\ (ds.queue # <<>> \/ ds.finished)
  /\ LET left == Parked(IF ds.finished THEN KillAttempt(ds) ELSE ds)
     IN  IF ds.queue # <<>>
         THEN /\ Receives(Head(ds.queue))
              /\ ds' = [left EXCEPT !.queue = Tail(@)]
              /\ pc' = "idle"
         ELSE /\ ds' = left
              /\ pc' = "ended"
              /\ UNCHANGED seen
  /\ conn' = IF ds.finished THEN NoConn ELSE conn
  /\ wire' = IF ds.finished THEN <<>> ELSE wire
  /\ silence' = 0 /\ resumed' = FALSE
  /\ UNCHANGED <<stage, beat, decoded>> /\ RecvLeavesRest

TryRecv ==
  /\ pc = "idle" /\ (ds.queue # <<>> \/ (~ds.finished /\ ds.started /\ ds.pending = "none"))
  /\ pc' = IF ds.queue # <<>> THEN "pop" ELSE "try"
  /\ UNCHANGED <<conn, ds, wire, stage, beat, seen, decoded, silence, resumed>>
  /\ RecvLeavesRest

TryReturns ==
  /\ pc = "pop"
  /\ pc' = "idle"
  /\ IF ds.queue = <<>> THEN ds' = Parked(ds) /\ UNCHANGED seen
     ELSE Receives(Head(ds.queue)) /\ ds' = [Parked(ds) EXCEPT !.queue = Tail(@)]
  /\ UNCHANGED <<conn, wire, stage, beat, decoded, silence, resumed>>
  /\ RecvLeavesRest

(* The SSE body answers every heartbeat by dropping the poll it selects    *)
(* on; the JSON body drops its first collection once.                      *)
PollDropped ==
  /\ pc = "wait" /\ beat = 0
  /\ pc' = "idle"
  /\ beat' = IF reader = "sse" THEN KeepaliveInterval ELSE Disarmed
  /\ resumed' = TRUE
  /\ ds' = Parked(ds)
  /\ UNCHANGED <<conn, wire, stage, seen, decoded, silence>>
  /\ RecvLeavesRest

-----------------------------------------------------------------------------
(* The consumer's other moves, upstream's, and the clock *)

Cancel ==
  /\ pc \notin Over /\ ~cancel
  /\ cancel' = TRUE
  /\ UNCHANGED <<pc, reader, beat, seen, conn, ds, wire, frames, stage, historyVars>>

(* The owner is dropped between or during polls; so may be the handler     *)
(* that is still connecting.                                               *)
DropStream ==
  /\ pc \in {"connecting", "idle", "wait"}
  /\ pc' = "dropped"
  /\ ds' = NewStream /\ conn' = NoConn /\ wire' = <<>>
  /\ beat' = Disarmed
  /\ UNCHANGED <<reader, cancel, seen, frames, stage, historyVars>>

(* Liveness frames, which say nothing, come at least a tick apart.         *)
UpstreamDelivers(f) ==
  /\ ds.open /\ Len(wire) < BufferCap
  /\ \A i \in DOMAIN wire : wire[i] \in DataFrames
  /\ IF f = "quiet" THEN silence > 0 ELSE f \in DataFrames => frames < MaxFrames
  /\ ~ds.finished
  /\ wire' = Append(wire, f)
  /\ frames' = IF f \in DataFrames \ {"quiet"} THEN frames + 1 ELSE frames
  /\ UNCHANGED <<consumerVars, conn, ds, stage, historyVars>>

(* What a wait may last when the watch starts over once for the hold and   *)
(* once for a heartbeat; the counter stops one past it.                    *)
SilenceLimit == StallTimeout + StartHoldTimeout + KeepaliveInterval

Urgent ==
  \/ pc \notin {"connecting", "idle", "wait"}
  \/ Readable /\ pc = "wait"
  \/ ReopenReturned \/ TimerDue
  \/ pc = "wait" /\ (cancel \/ beat = 0)

Tick ==
  /\ ~Urgent /\ pc # "connecting"
  /\ ds' = IF Quiet
           THEN [ds EXCEPT !.hold = Floor(@), !.stall = Floor(@), !.progress = Floor(@)]
           ELSE [ds EXCEPT !.hold = Floor(@)]
  /\ beat' = Floor(beat)
  /\ silence' = IF Quiet /\ silence <= SilenceLimit THEN silence + 1 ELSE silence
  /\ UNCHANGED <<pc, reader, cancel, seen, conn, wire, frames, stage,
                 sends, decoded, rejected, resumed>>

-----------------------------------------------------------------------------
ConnStep == ConnCancelled \/ BackoffOver \/ GateAdmits \/ GateRejects \/ Send

UpstreamAnswers == UpstreamOpens \/ \E err \in Failures : UpstreamFails(err)

ConnectPhase == StreamOpens \/ ConnectRepairs \/ StreamFails

Poll == \/ HeadCancelled \/ HeadStarts \/ HeadWaits
        \/ TakeFrame \/ TakeEnd \/ DrainStops
        \/ FinishReopen \/ HoldFires \/ StallFires \/ ProgressFires \/ WaitCancelled
        \/ RecvReturns \/ TryReturns

RequestOver == pc \in Over /\ UNCHANGED vars

Next == \/ ConnStep \/ UpstreamAnswers \/ ConnectPhase
        \/ RecvCall \/ TryRecv \/ Poll \/ PollDropped
        \/ Cancel \/ DropStream
        \/ \E f \in DataFrames \cup EndRecords : UpstreamDelivers(f)
        \/ Tick
        \/ RequestOver

(* Tasks are scheduled, time passes, and a consumer that wants the answer  *)
(* calls `recv` whenever `try_recv` has nothing.  Upstream answers a call  *)
(* it received (the code puts no bound of its own on it) and owes nothing  *)
(* on an open stream.                                                      *)
Fairness == /\ WF_vars(ConnStep) /\ WF_vars(UpstreamAnswers) /\ WF_vars(ConnectPhase)
            /\ WF_vars(Poll) /\ WF_vars(PollDropped)
            /\ SF_vars(RecvCall) /\ WF_vars(Tick)

Spec == Init /\ [][Next]_vars /\ Fairness

-----------------------------------------------------------------------------
(* Every variable has its type; the fields of DevinStream are those of     *)
(* retry.rs:314-372.                                                       *)
Timer(limit) == {Disarmed} \cup 0..limit

Stream ==
  [open : BOOLEAN, pending : Pending, attempt : Nat,
   decoder : [finished : BOOLEAN, stop : {"none", "stop", "limit", "refused"},
              content : BOOLEAN, pattern : BOOLEAN],
   started : BOOLEAN, pendingStart : BOOLEAN, startReleased : BOOLEAN,
   hold : Timer(StartHoldTimeout), finished : BOOLEAN, queue : Seq(Event),
   produced : BOOLEAN, confirmed : BOOLEAN, retried : BOOLEAN,
   stall : Timer(StallTimeout), progress : Timer(NoProgressTimeout)]

TypeOK ==
  /\ pc \in {"connecting", "idle", "head", "wait", "drain", "try", "pop"} \cup Over
  /\ reader \in {"sse", "collector"}
  /\ cancel \in BOOLEAN /\ rejected \in BOOLEAN
  /\ conn \in [at : {"none", "backoff", "gate", "admitted", "sent", "opened", "failed"},
               try : 0..(MaxConnectAttempts - 1),
               err : {"none", "cancelled", "rejected"} \cup Failures]
  /\ ds \in Stream
  /\ wire \in Seq(DataFrames \cup EndRecords)
  /\ frames \in 0..MaxFrames
  /\ beat \in Timer(KeepaliveInterval)
  /\ stage \in {"none", "rate_gate", "devin_connect", "devin_transport"}
  /\ seen \in Seq(Event)
  /\ sends \in Nat /\ decoded \in Nat
  /\ silence \in 0..(SilenceLimit + 1)
  /\ resumed \in BOOLEAN

(* What the consumer has been given, and what waits for it. *)
Told == seen \o ds.queue
Terminal(event) == event.kind \in {"done", "error"}

(* Where the content is in a sequence of events.                           *)
ContentAt(told) == {i \in DOMAIN told : told[i].kind = "content"}

(* retry.rs:792-816 clears the queue and retry.rs:781-786 kills attempts:  *)
(* no content event that was decoded is lost to either.                    *)
NothingLost == pc # "dropped" => decoded = Cardinality(ContentAt(Told))

(* retry.rs:17-26: the retry limits nest, so a request costs at most three *)
(* rounds of connect attempts, the second of which needs a repair or a     *)
(* resend and the third both.                                              *)
SendsBounded ==
  /\ sends <= MaxConnectAttempts
  /\ ds.attempt <= IF pc = "connecting" \/ (ds.open /\ ~ds.retried) THEN 2 ELSE 3

(* retry.rs:115-124, 887-890: a request never holds two upstream exchanges,*)
(* and a resend in flight is one that `recv` will collect.                 *)
OneExchange ==
  /\ ds.open => conn.at = "none"
  /\ pc # "connecting" => (conn.at # "none" <=> ds.pending # "none")

(* retry.rs:17-26, 115-124: whatever fails, is repaired, continued or      *)
(* cancelled, the exchanges of a request are one at a time and few.        *)
ExchangesBounded == SendsBounded /\ OneExchange

(* retry.rs:929-954, 1072-1085: the record blames the gate exactly when    *)
(* the gate rejected, and otherwise what the client was told: upstream's   *)
(* failure, or nobody for a cancellation.                                  *)
BlameIsRight ==
  /\ rejected <=> stage = "rate_gate"
  /\ \A i \in DOMAIN Told : Told[i].kind = "error" =>
       stage \in {"rate_gate", IF Told[i].cause \in Causes THEN StageOf(Told[i].cause)
                               ELSE "none"}

(* retry.rs:68-87: while the consumer waits, upstream is silent for no     *)
(* longer than the stall timeout (the tail grace after a stop reason); a   *)
(* wait that is entered anew once, for the hold or for the JSON body's   *)
(* heartbeat, adds that much.                                              *)
PatienceBounded ==
  /\ ~resumed => silence <= IF ds.decoder.stop # "none" THEN TailGrace ELSE StallTimeout
  /\ reader # "sse" => silence <= SilenceLimit

(* retry.rs:68-70 without the reservation: whoever reads, a silent         *)
(* upstream is given up.                                                   *)
SilenceBounded == silence <= SilenceLimit

(* retry.rs:312-313: `recv` returns `Ok(None)` after the terminal event.   *)
EndIsTold == pc = "ended" => seen # <<>> /\ Terminal(Last(seen))

(* retry.rs:67-98: a request whose reader keeps its polls ends, whatever    *)
(* upstream sends or does not send once the stream is open.                *)
StreamEnds == reader # "sse" => <>(pc \in Over)

(* retry.rs:17-28, 343-346, 911-927: whatever is sent again, the client    *)
(* sees the one answer of OneAnswer: one start, the content of one send,   *)
(* nothing after its terminal event and no end without one where there was *)
(* content; and after that content nothing is put on the wire.             *)
Given == [i \in DOMAIN seen |-> [kind |-> seen[i].kind, send |-> seen[i].send]]
Promise == INSTANCE OneAnswer WITH
  answer <- Given,
  source <- IF ds.produced THEN ds.attempt ELSE 0,
  asked <- ds.attempt,
  calling <- conn.at = "sent",
  over <- pc \in Over
KeepsPromise == Promise!Spec
=============================================================================
