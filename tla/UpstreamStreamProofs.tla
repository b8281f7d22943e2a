------------------------ MODULE UpstreamStreamProofs ------------------------
(***************************************************************************)
(* What holds of UpstreamStream for every value of its timers and bounds:  *)
(* its safety properties, and that it implements OneAnswer.                *)
(***************************************************************************)
EXTENDS UpstreamStream, FiniteSetTheorems, SequenceTheorems, TLAPS

Live == pc \notin Over
Limit == IF ds.decoder.stop # "none" THEN TailGrace ELSE StallTimeout

(* Where the owner stands, what it holds. A stream that is not finished    *)
(* reads or has a resend in flight.                                        *)
Places ==
  /\ pc = "connecting" => /\ ds = [NewStream EXCEPT !.attempt = ds.attempt]
                          /\ seen = <<>>
  /\ ~Live => conn.at = "none"
  /\ Live /\ pc # "connecting" /\ ~ds.finished /\ ds.pending = "none" => ds.open
  /\ ds.open => ds.pending = "none"
  /\ ds.finished => ds.pending = "none"
  /\ pc = "wait" => ~ds.finished /\ ds.queue = <<>> /\ ds.started /\ ds.stall >= 0
  /\ pc \in {"drain", "try"} => ~ds.finished /\ ds.pending = "none" /\ ds.started
  /\ ds.open /\ ~ds.finished => ~ds.decoder.finished
  /\ ds.pending # "none" => ~ds.produced
  /\ ds.pending = "continue" => ds.decoder.finished

(* The rounds of connecting and the attempts that are left.                *)
Rounds ==
  /\ conn.at \in {"backoff", "gate", "admitted"} => sends = conn.try
  /\ conn.at \in {"sent", "opened"} => sends = conn.try + 1
  /\ conn.at = "failed" => sends <= conn.try + 1
  /\ conn.at = "none" /\ ~ds.finished /\ Live => sends = 0
  /\ ds.attempt >= 1
  /\ pc = "connecting" => ds.attempt <= 2
  /\ ~ds.retried /\ ds.pending = "none" /\ ~ds.finished => ds.attempt <= 2

(* What the client has been told or is about to be.                        *)
Tellable(told, queue, produced, finished, attempt) ==
  /\ \A i \in DOMAIN told :
       /\ told[i].kind = "start" => i = 1
       /\ Terminal(told[i]) => i = Len(told) /\ finished
       /\ told[i].kind = "content" => produced
       /\ told[i].kind \in {"content", "done"} => told[i].send = attempt
  /\ told # <<>> => told[1].kind \in {"start", "error"}
  /\ \A i \in DOMAIN queue : queue[i].send = attempt
  /\ finished /\ produced => told # <<>> /\ Terminal(told[Len(told)])

Grammar == Live => Tellable(Told, ds.queue, ds.produced, ds.finished, ds.attempt)

(* The start is told once, and before any content.                         *)
Starts ==
  Live =>
    /\ ds.produced => ds.started /\ ~ds.pendingStart /\ Told # <<>>
    /\ ~ds.produced /\ ~ds.finished => (ds.startReleased <=> Told # <<>>)
    /\ ds.open /\ ds.started /\ ~ds.produced /\ ~ds.finished => (ds.pendingStart <=> Told = <<>>)
    /\ ~ds.produced /\ ~ds.finished /\ ds.queue # <<>> => pc = "head"

(* A failure is recorded once, by the gate or with the end of the stream.  *)
Recorded ==
  Live /\ stage # "none" =>
    \/ ds.finished
    \/ conn.at = "failed" /\ conn.err = "rejected" /\ stage = "rate_gate"

(* Nobody reads from upstream: an event can be had, or the end.            *)
Returning == pc = "head" /\ (ds.queue # <<>> \/ ds.finished)
Between == Live /\ pc # "wait" /\ ds.pending = "none" /\ ~Returning

(* The wait is counted by every timer that runs.                           *)
Watches ==
  /\ Live /\ ~ds.started => silence = 0
  /\ ds.hold >= 0 => silence + ds.hold <= StartHoldTimeout
  /\ ~resumed /\ Between => silence = 0
  /\ ~resumed /\ pc = "wait" /\ ds.pending = "none" => silence + ds.stall <= Limit
  /\ reader = "collector" =>
       /\ beat >= 0 => silence + beat <= KeepaliveInterval
       /\ Between => silence <= StartHoldTimeout + KeepaliveInterval
       /\ pc = "wait" /\ ds.pending = "none" => silence + ds.stall <= SilenceLimit

-----------------------------------------------------------------------------
(* The operators on the DevinStream, by what they leave in its fields.     *)
Ends == {"none", "cancelled"} \cup Causes

LEMMA FinishOfIs ==
  ASSUME NEW s \in Stream, NEW err \in Ends
  PROVE  /\ s.decoder.finished => FinishOf(s, err) = <<>>
         /\ ~s.decoder.finished => \E e \in Event :
              /\ FinishOf(s, err) = <<e>> /\ e.send = s.attempt
              /\ \/ e.kind = "done" /\ err = "none" /\ EndsWell(s.decoder)
                 \/ e.kind = "error" /\ e.cause = (IF err = "none" THEN "incomplete" ELSE err)
<1> DEFINE ending(kind, cause) == [kind |-> kind, send |-> s.attempt, cause |-> cause]
<1>1. s.attempt \in Nat
  BY DEF Stream
<1>2. CASE s.decoder.finished
  BY <1>2 DEF FinishOf
<1>3. CASE ~s.decoder.finished /\ err # "none"
  <2>1. FinishOf(s, err) = <<ending("error", err)>>
    BY <1>3 DEF FinishOf
  <2>2. ending("error", err) \in Event
    BY <1>1, <1>3 DEF Event, Ends
  <2> QED BY <1>3, <2>1, <2>2
<1>4. CASE ~s.decoder.finished /\ err = "none" /\ EndsWell(s.decoder)
  <2>1. FinishOf(s, err) = <<ending("done", "none")>>
    BY <1>4 DEF FinishOf
  <2>2. ending("done", "none") \in Event
    BY <1>1 DEF Event
  <2> QED BY <1>4, <2>1, <2>2
<1>5. CASE ~s.decoder.finished /\ err = "none" /\ ~EndsWell(s.decoder)
  <2>1. FinishOf(s, err) = <<ending("error", "incomplete")>>
    BY <1>5 DEF FinishOf
  <2>2. ending("error", "incomplete") \in Event
    BY <1>1 DEF Event
  <2> QED BY <1>5, <2>1, <2>2
<1> QED BY <1>2, <1>3, <1>4, <1>5

LEMMA FinishOfTyped ==
  ASSUME NEW s \in Stream, NEW err \in Ends
  PROVE  FinishOf(s, err) \in Seq(Event)
<1>1. CASE s.decoder.finished
  <2>1. FinishOf(s, err) = <<>>
    BY <1>1, FinishOfIs
  <2> QED BY <2>1
<1>2. CASE ~s.decoder.finished
  <2>1. PICK e \in Event : FinishOf(s, err) = <<e>>
    BY <1>2, FinishOfIs
  <2> QED BY <2>1
<1> QED BY <1>1, <1>2

(* What `release` puts before the events.                                  *)
Withheld(s, events) ==
  IF s.pendingStart /\ events # <<>> /\ Head(events).kind # "error"
  THEN <<[kind |-> "start", send |-> s.attempt, cause |-> "none"]>> ELSE <<>>

LEMMA ReleaseIs ==
  ASSUME NEW s \in Stream, NEW events \in Seq(Event)
  PROVE  Release(s, events) =
           [s EXCEPT !.pendingStart = s.pendingStart /\ events = <<>>,
                     !.queue = s.queue \o Withheld(s, events) \o events]
BY DEF Release, Withheld

LEMMA FinishIs ==
  ASSUME NEW s \in Stream, NEW err \in Ends
  PROVE  Finish(s, err) =
           [s EXCEPT !.pendingStart = s.pendingStart /\ FinishOf(s, err) = <<>>,
                     !.queue = s.queue \o Withheld(s, FinishOf(s, err)) \o FinishOf(s, err),
                     !.decoder = [s.decoder EXCEPT !.finished = TRUE],
                     !.finished = TRUE]
<1>1. FinishOf(s, err) \in Seq(Event)
  BY FinishOfTyped
<1>2. Release(s, FinishOf(s, err)) =
        [s EXCEPT !.pendingStart = s.pendingStart /\ FinishOf(s, err) = <<>>,
                  !.queue = s.queue \o Withheld(s, FinishOf(s, err)) \o FinishOf(s, err)]
  BY <1>1, ReleaseIs
<1> QED BY <1>2 DEF Finish, Stream

LEMMA WithheldIs ==
  ASSUME NEW s \in Stream, NEW events \in Seq(Event)
  PROVE  /\ Withheld(s, events) \in Seq(Event)
         /\ Withheld(s, events) = <<>> \/ Withheld(s, events) =
              <<[kind |-> "start", send |-> s.attempt, cause |-> "none"]>>
<1>1. [kind |-> "start", send |-> s.attempt, cause |-> "none"] \in Event
  BY DEF Stream, Event
<1> QED BY <1>1 DEF Withheld

LEMMA FinishTyped ==
  ASSUME NEW s \in Stream, NEW err \in Ends
  PROVE  Finish(s, err) \in Stream
<1>1. FinishOf(s, err) \in Seq(Event) /\ Withheld(s, FinishOf(s, err)) \in Seq(Event)
  BY FinishOfTyped, WithheldIs
<1>2. s.queue \o Withheld(s, FinishOf(s, err)) \o FinishOf(s, err) \in Seq(Event)
  BY <1>1 DEF Stream
<1>3. s.pendingStart \in BOOLEAN
  BY DEF Stream
<1> DEFINE queue == s.queue \o Withheld(s, FinishOf(s, err)) \o FinishOf(s, err)
           pending == s.pendingStart /\ FinishOf(s, err) = <<>>
           decoder == [s.decoder EXCEPT !.finished = TRUE]
<1>4. Finish(s, err) = [s EXCEPT !.pendingStart = pending, !.queue = queue,
                                !.decoder = decoder, !.finished = TRUE]
  BY FinishIs
<1>5. pending \in BOOLEAN /\ queue \in Seq(Event)
  BY <1>2
<1>6. decoder \in [finished : BOOLEAN, stop : {"none", "stop", "limit", "refused"},
                   content : BOOLEAN, pattern : BOOLEAN]
  BY DEF Stream
<1> HIDE DEF queue, pending, decoder
<1> QED BY <1>4, <1>5, <1>6 DEF Stream

(* The content of a frame, and what reading it leaves.                     *)
LEMMA ContentOfIs ==
  ASSUME NEW s \in Stream, NEW f \in DataFrames
  PROVE  \/ ContentOf(s, f) = <<>>
         \/ ContentOf(s, f) = <<[kind |-> "content", send |-> s.attempt, cause |-> "none"]>>
BY DEF ContentOf

LEMMA ContentOfTyped ==
  ASSUME NEW s \in Stream, NEW f \in DataFrames
  PROVE  ContentOf(s, f) \in Seq(Event)
<1>1. [kind |-> "content", send |-> s.attempt, cause |-> "none"] \in Event
  BY DEF Stream, Event
<1>2. CASE ContentOf(s, f) = <<>>
  BY <1>2
<1>3. CASE ContentOf(s, f) # <<>>
  <2>1. ContentOf(s, f) = <<[kind |-> "content", send |-> s.attempt, cause |-> "none"]>>
    BY <1>3, ContentOfIs
  <2> QED BY <1>1, <2>1
<1> QED BY <1>2, <1>3

LEMMA DecodedIs ==
  ASSUME NEW s \in Stream, NEW f \in DataFrames
  PROVE  /\ Decoded(s.decoder, f) \in [finished : BOOLEAN,
              stop : {"none", "stop", "limit", "refused"},
              content : BOOLEAN, pattern : BOOLEAN]
         /\ Decoded(s.decoder, f).finished = s.decoder.finished
BY DEF Decoded, Stream, DataFrames

LEMMA AbsorbIs ==
  ASSUME NEW s \in Stream, NEW f \in DataFrames
  PROVE  Absorb(s, f) =
           [s EXCEPT !.confirmed = TRUE, !.decoder = Decoded(s.decoder, f),
                     !.produced = s.produced \/ ContentOf(s, f) # <<>>,
                     !.progress = IF ContentOf(s, f) # <<>> THEN NoProgressTimeout ELSE s.progress,
                     !.pendingStart = s.pendingStart /\ ContentOf(s, f) = <<>>,
                     !.queue = s.queue \o Withheld(s, ContentOf(s, f)) \o ContentOf(s, f),
                     !.finished = s.decoder.finished]
<1> DEFINE events == ContentOf(s, f)
           fed == [s EXCEPT !.confirmed = TRUE, !.decoder = Decoded(@, f),
                            !.produced = @ \/ events # <<>>,
                            !.progress = IF events # <<>> THEN NoProgressTimeout ELSE @]
<1>1. Absorb(s, f) = [Release(fed, events) EXCEPT !.finished = s.decoder.finished]
  BY DEF Absorb
<1>2. Release(fed, events) =
        [fed EXCEPT !.pendingStart = fed.pendingStart /\ events = <<>>,
                    !.queue = fed.queue \o Withheld(fed, events) \o events]
  BY DEF Release, Withheld
<1>3. Withheld(fed, events) = Withheld(s, events)
  BY DEF Withheld, Stream
<1>4. fed.pendingStart = s.pendingStart /\ fed.queue = s.queue
  BY DEF Stream
<1> QED BY <1>1, <1>2, <1>3, <1>4, ZenonT(30) DEF Stream

LEMMA AbsorbTyped ==
  ASSUME NEW s \in Stream, NEW f \in DataFrames
  PROVE  Absorb(s, f) \in Stream
<1> DEFINE events == ContentOf(s, f)
<1>1. events \in Seq(Event) /\ Withheld(s, events) \in Seq(Event)
  BY ContentOfTyped, WithheldIs
<1>2. s.queue \o Withheld(s, events) \o events \in Seq(Event)
  <2> HIDE DEF events
  <2> QED BY <1>1 DEF Stream
<1>3. (s.pendingStart /\ events = <<>>) \in BOOLEAN /\ (s.produced \/ events # <<>>) \in BOOLEAN
  OBVIOUS
<1>4. Decoded(s.decoder, f) \in [finished : BOOLEAN,
        stop : {"none", "stop", "limit", "refused"}, content : BOOLEAN, pattern : BOOLEAN]
  BY DecodedIs
<1>5. NoProgressTimeout \in Timer(NoProgressTimeout)
  BY TimersAssumption DEF Timer
<1> DEFINE queue == s.queue \o Withheld(s, events) \o events
           pending == s.pendingStart /\ events = <<>>
           produced == s.produced \/ events # <<>>
           progress == IF events # <<>> THEN NoProgressTimeout ELSE s.progress
           decoder == Decoded(s.decoder, f)
<1>6. Absorb(s, f) = [s EXCEPT !.confirmed = TRUE, !.decoder = decoder, !.produced = produced,
                               !.progress = progress, !.pendingStart = pending,
                               !.queue = queue, !.finished = s.decoder.finished]
  BY AbsorbIs
<1>7. progress \in Timer(NoProgressTimeout)
  BY <1>5 DEF Stream
<1> HIDE DEF events, queue, pending, produced, progress, decoder
<1> QED BY <1>2, <1>3, <1>4, <1>6, <1>7, ZenonT(30) DEF Stream, queue, pending, produced, decoder

(* `resolve_end` arms a resend or finishes.                                *)
Armed(s, resend) ==
  [s EXCEPT !.open = FALSE, !.pending = resend, !.attempt = s.attempt + 1]

LEMMA DiscardedIs ==
  ASSUME NEW s \in Stream
  PROVE  Discarded(s) =
           [s EXCEPT !.pendingStart = s.pendingStart /\ FinishOf(s, "none") = <<>>,
                     !.decoder = [s.decoder EXCEPT !.finished = TRUE]]
<1>1. "none" \in Ends
  BY DEF Ends
<1> DEFINE pending == s.pendingStart /\ FinishOf(s, "none") = <<>>
           queue == s.queue \o Withheld(s, FinishOf(s, "none")) \o FinishOf(s, "none")
           decoder == [s.decoder EXCEPT !.finished = TRUE]
<1>2. Finish(s, "none") = [s EXCEPT !.pendingStart = pending, !.queue = queue,
                                    !.decoder = decoder, !.finished = TRUE]
  BY <1>1, FinishIs
<1> HIDE DEF pending, queue, decoder
<1>3. Discarded(s) = [s EXCEPT !.pendingStart = pending, !.decoder = decoder]
  BY <1>2 DEF Discarded, Stream
<1> QED BY <1>3 DEF pending, decoder

LEMMA DiscardedTyped ==
  ASSUME NEW s \in Stream
  PROVE  Discarded(s) \in Stream
<1> DEFINE pending == s.pendingStart /\ FinishOf(s, "none") = <<>>
           decoder == [s.decoder EXCEPT !.finished = TRUE]
<1>1. Discarded(s) = [s EXCEPT !.pendingStart = pending, !.decoder = decoder]
  BY DiscardedIs
<1>2. decoder \in [finished : BOOLEAN, stop : {"none", "stop", "limit", "refused"},
                   content : BOOLEAN, pattern : BOOLEAN]
  BY DEF Stream
<1>3. pending \in BOOLEAN
  OBVIOUS
<1> HIDE DEF pending, decoder
<1> QED BY <1>1, <1>2, <1>3 DEF Stream

LEMMA ResolveEndIs ==
  ASSUME NEW s \in Stream, NEW cause \in {"none"} \cup Causes, NEW available \in BOOLEAN,
         ResolveEnd(s, cause, available)
  PROVE  \/ /\ MayReopen(s)
            /\ conn' = Connecting /\ wire' = <<>> /\ stage' = stage
            /\ \/ /\ cause = "none" /\ EmptyEndTurn(s.decoder)
                  /\ ds' = Armed(Discarded(s), "continue")
               \/ cause \in Causes /\ ds' = Armed(s, cause)
         \/ /\ ds' = Finish(s, cause) /\ RecordUpstreamFailure(cause)
            /\ UNCHANGED <<conn, wire>>
<1> DEFINE resend == ResendFor(s, cause)
<1>1. CASE available /\ MayReopen(s) /\ resend # "none" /\ cause = "none"
  <2>1. resend = "continue" /\ EmptyEndTurn(s.decoder)
    BY <1>1 DEF ResendFor
  <2>2. ArmReopen(Discarded(s), "continue")
    BY <1>1, <2>1 DEF ResolveEnd
  <2> QED BY <1>1, <2>1, <2>2 DEF ArmReopen, Armed
<1>2. CASE available /\ MayReopen(s) /\ resend # "none" /\ cause # "none"
  <2>1. resend = cause /\ cause \in Causes
    BY <1>2 DEF ResendFor
  <2>2. cause # "continue"
    BY <2>1 DEF Causes, Failures, Watchdogs
  <2>3. ArmReopen(s, cause)
    BY <1>2, <2>1, <2>2 DEF ResolveEnd
  <2> QED BY <1>2, <2>1, <2>3 DEF ArmReopen, Armed
<1>3. CASE ~(available /\ MayReopen(s) /\ resend # "none")
  <2>1. FinishEnd(s, cause)
    BY <1>3 DEF ResolveEnd
  <2> QED BY <2>1 DEF FinishEnd
<1> QED BY <1>1, <1>2, <1>3

LEMMA ArmedTyped ==
  ASSUME NEW s \in Stream, NEW resend \in Pending
  PROVE  Armed(s, resend) \in Stream
<1>1. s.attempt + 1 \in Nat
  BY DEF Stream
<1> DEFINE next == s.attempt + 1
<1> HIDE DEF next
<1>2. next \in Nat /\ Armed(s, resend) = [s EXCEPT !.open = FALSE, !.pending = resend, !.attempt = next]
  BY <1>1 DEF Armed, next
<1> QED BY <1>2 DEF Stream

Stages == {"none", "rate_gate", "devin_connect", "devin_transport"}

LEMMA RecordTyped ==
  ASSUME NEW cause, RecordUpstreamFailure(cause), stage \in Stages
  PROVE  stage' \in Stages
BY DEF RecordUpstreamFailure, WriteError, StageOf, Stages

Conn == [at : {"none", "backoff", "gate", "admitted", "sent", "opened", "failed"},
         try : 0..(MaxConnectAttempts - 1),
         err : {"none", "cancelled", "rejected"} \cup Failures]

LEMMA ConnTyped == NoConn \in Conn /\ Connecting \in Conn /\ NewStream \in Stream
<1>1. 0 \in 0 .. (MaxConnectAttempts - 1)
  BY TimersAssumption
<1>2. NewDecoder \in [finished : BOOLEAN, stop : {"none", "stop", "limit", "refused"},
                      content : BOOLEAN, pattern : BOOLEAN]
  BY DEF NewDecoder
<1>3. <<>> \in Seq(Event)
  OBVIOUS
<1> QED BY <1>1, <1>2, <1>3 DEF NoConn, Connecting, Conn, NewStream, Stream, Pending, Timer, Disarmed

LEMMA ResolveEndTyped ==
  ASSUME NEW s \in Stream, NEW cause \in {"none"} \cup Causes, NEW available \in BOOLEAN,
         ResolveEnd(s, cause, available),
         conn \in Conn, wire \in Seq(DataFrames \cup EndRecords), stage \in Stages
  PROVE  /\ ds' \in Stream /\ conn' \in Conn /\ stage' \in Stages
         /\ wire' \in Seq(DataFrames \cup EndRecords)
<1>1. CASE ds' = Armed(Discarded(s), "continue") /\ conn' = Connecting /\ wire' = <<>>
           /\ stage' = stage
  BY <1>1, DiscardedTyped, ArmedTyped, ConnTyped DEF Pending
<1>2. CASE cause \in Causes /\ ds' = Armed(s, cause) /\ conn' = Connecting /\ wire' = <<>>
           /\ stage' = stage
  BY <1>2, ArmedTyped, ConnTyped DEF Pending
<1>3. CASE ds' = Finish(s, cause) /\ RecordUpstreamFailure(cause) /\ UNCHANGED <<conn, wire>>
  <2>1. cause \in Ends
    BY DEF Ends
  <2> QED BY <1>3, <2>1, FinishTyped, RecordTyped
<1> QED BY <1>1, <1>2, <1>3, ResolveEndIs

-----------------------------------------------------------------------------
(* Types *)

Frames == Seq(DataFrames \cup EndRecords)

(* The steps of the connect task touch nothing of the stream.              *)
LEMMA ConnMoves ==
  ASSUME TypeOK, ConnStep \/ UpstreamAnswers
  PROVE  /\ conn.at \notin {"none", "opened", "failed"} /\ conn'.at # "none"
         /\ conn' \in Conn
         /\ UNCHANGED <<pc, reader, cancel, beat, seen, ds, wire, frames, decoded,
                        silence, resumed>>
         /\ sends' \in Nat /\ rejected' \in BOOLEAN /\ stage' \in Stages
<1> USE DEF ConnLeavesRest, consumerVars, Conn, TypeOK, ConnFails, Stages
<1>1. CASE ConnCancelled
  BY <1>1 DEF ConnCancelled
<1>2. CASE BackoffOver
  BY <1>2 DEF BackoffOver
<1>3. CASE GateAdmits
  BY <1>3 DEF GateAdmits
<1>4. CASE GateRejects
  BY <1>4 DEF GateRejects, WriteError
<1>5. CASE Send
  BY <1>5 DEF Send
<1>6. CASE UpstreamOpens
  BY <1>6 DEF UpstreamOpens
<1>7. ASSUME NEW err \in Failures, UpstreamFails(err)
      PROVE  /\ conn.at = "sent" /\ conn'.at # "none" /\ conn' \in Conn
             /\ UNCHANGED <<pc, reader, cancel, beat, seen, ds, wire, frames, decoded,
                            silence, resumed, sends, rejected, stage>>
  <2>1. CASE err = "transport" /\ conn.try + 1 < MaxConnectAttempts
    <3>1. conn.try + 1 \in 0 .. (MaxConnectAttempts - 1)
      BY <2>1, TimersAssumption
    <3> QED BY <1>7, <2>1, <3>1 DEF UpstreamFails
  <2>2. CASE ~(err = "transport" /\ conn.try + 1 < MaxConnectAttempts)
    BY <1>7, <2>2 DEF UpstreamFails
  <2> QED BY <2>1, <2>2
<1> QED BY <1>1, <1>2, <1>3, <1>4, <1>5, <1>6, <1>7 DEF ConnStep, UpstreamAnswers

LEMMA TypesOfInit == Init => TypeOK
<1>1. /\ StallTimeout \in Nat /\ StartHoldTimeout \in Nat /\ KeepaliveInterval \in Nat
      /\ SilenceLimit \in Nat
  BY TimersAssumption DEF SilenceLimit
<1>2. {Disarmed, KeepaliveInterval} \subseteq Timer(KeepaliveInterval)
  BY <1>1 DEF Timer
<1>3. <<>> \in Seq(Event) /\ <<>> \in Frames
  BY DEF Frames
<1>4. ASSUME Init PROVE TypeOK
  <2>1. beat \in Timer(KeepaliveInterval) /\ reader \in {"sse", "collector"}
    BY <1>2, <1>4 DEF Init
  <2>2. 0 \in 0 .. MaxFrames /\ 0 \in 0 .. (SilenceLimit + 1) /\ 0 \in Nat
    BY <1>1, BoundsAssumption
  <2>3. ds \in Stream /\ conn \in Conn
    BY <1>4, ConnTyped DEF Init
  <2> QED BY <1>3, <1>4, <2>1, <2>2, <2>3 DEF Init, TypeOK, Conn, Frames
<1> QED BY <1>4

(* A queue that has an event gives it to the client.                       *)
LEMMA QueueGives ==
  ASSUME NEW queue \in Seq(Event), queue # <<>>
  PROVE  /\ Head(queue) \in Event /\ Tail(queue) \in Seq(Event)
         /\ seen \in Seq(Event) => Append(seen, Head(queue)) \in Seq(Event)
OBVIOUS

LEMMA ParkedTyped ==
  ASSUME NEW s \in Stream
  PROVE  Parked(s) \in Stream /\ KillAttempt(s) \in Stream /\ Adopt(s) \in Stream
<1>1. NewDecoder \in [finished : BOOLEAN, stop : {"none", "stop", "limit", "refused"},
                      content : BOOLEAN, pattern : BOOLEAN]
  BY DEF NewDecoder
<1>2. <<>> \in Seq(Event)
  OBVIOUS
<1>3. /\ Disarmed \in Timer(StallTimeout) /\ Disarmed \in Timer(NoProgressTimeout)
      /\ NoProgressTimeout \in Timer(NoProgressTimeout)
  BY TimersAssumption DEF Timer
<1> QED BY <1>1, <1>2, <1>3, ZenonT(30) DEF Parked, KillAttempt, Adopt, Stream, Pending

LEMMA FloorTyped ==
  ASSUME NEW limit \in Nat, NEW timer \in Timer(limit)
  PROVE  /\ Floor(timer) \in Timer(limit)
         /\ timer > 0 => Floor(timer) = timer - 1
         /\ timer <= 0 => Floor(timer) = timer
BY DEF Floor, Timer, Disarmed

LEMMA TypesOfPhase ==
  ASSUME TypeOK, ConnectPhase
  PROVE  TypeOK'
<1> USE DEF OpenLeavesRest, TypeOK, Conn, Stages
<1>1. CASE StreamOpens
  <2>1. ds' \in Stream
    BY <1>1 DEF StreamOpens, Stream
  <2> QED BY <1>1, <2>1, ConnTyped DEF StreamOpens
<1>2. CASE ConnectRepairs
  <2>1. ds.attempt + 1 \in Nat
    BY DEF Stream
  <2>2. ds' \in Stream
    BY <1>2, <2>1 DEF ConnectRepairs, Stream
  <2> QED BY <1>2, <2>2, ConnTyped DEF ConnectRepairs
<1>3. CASE StreamFails
  <2>1. stage' \in Stages
    BY <1>3 DEF StreamFails, WriteError, StageOf
  <2> QED BY <1>3, <2>1, ConnTyped DEF StreamFails, Over
<1> QED BY <1>1, <1>2, <1>3 DEF ConnectPhase

LEMMA TypesOfHead ==
  ASSUME TypeOK, RecvCall \/ HeadCancelled \/ HeadStarts \/ HeadWaits \/ WaitCancelled
  PROVE  TypeOK'
<1> USE DEF RecvLeavesRest, TypeOK, Conn, Stages
<1>1. /\ StallTimeout \in Timer(StallTimeout) /\ NoProgressTimeout \in Timer(NoProgressTimeout)
      /\ TailGrace \in Timer(StallTimeout) /\ StartHoldTimeout \in Timer(StartHoldTimeout)
  BY TimersAssumption DEF Timer
<1>2. CASE RecvCall
  <2>1. ds' \in Stream
    BY <1>1, <1>2 DEF RecvCall, Stream
  <2> QED BY <1>2, <2>1 DEF RecvCall
<1>3. CASE EndCancelled
  <2>1. KillAttempt(ds) \in Stream /\ "cancelled" \in Ends
    BY ParkedTyped DEF Ends
  <2>2. ds' \in Stream
    BY <1>3, <2>1, FinishTyped DEF EndCancelled
  <2>3. <<>> \in Frames
    BY DEF Frames
  <2> QED BY <1>3, <2>2, <2>3, ConnTyped DEF EndCancelled, Frames
<1>4. CASE HeadStarts
  <2>1. (~ds.startReleased) \in BOOLEAN
    OBVIOUS
  <2>2. ds' \in Stream
    BY <1>1, <1>4, <2>1 DEF HeadStarts, Stream
  <2> QED BY <1>4, <2>2 DEF HeadStarts
<1>5. CASE HeadWaits
  <2>1. ds' \in Stream
    BY <1>1, <1>5 DEF HeadWaits, Stream
  <2> QED BY <1>5, <2>1 DEF HeadWaits
<1> QED BY <1>2, <1>3, <1>4, <1>5 DEF HeadCancelled, WaitCancelled

LEMMA TypesOfReading ==
  ASSUME TypeOK, TakeFrame \/ TakeEnd \/ DrainStops
  PROVE  TypeOK'
<1> USE DEF RecvLeavesRest, ReadLeavesRest, TypeOK, Conn, Stages
<1>1. 0 \in 0 .. (SilenceLimit + 1)
  BY TimersAssumption DEF SilenceLimit
<1>2. CASE TakeFrame
  <2>1. ds' \in Stream
    BY <1>2, AbsorbTyped DEF TakeFrame, AbsorbFrame
  <2>2. wire' \in Frames
    BY <1>2 DEF TakeFrame, AbsorbFrame, Readable, Frames
  <2>3. decoded' \in Nat
    <3>1. Len(ContentOf(ds, Head(wire))) \in Nat
      BY <1>2, ContentOfTyped DEF TakeFrame, AbsorbFrame
    <3> QED BY <1>2, <3>1 DEF TakeFrame, AbsorbFrame
  <2> QED BY <1>1, <1>2, <2>1, <2>2, <2>3, ZenonT(30) DEF TakeFrame, AbsorbFrame, Frames
<1>3. CASE TakeEnd
  <2>1. PICK available \in BOOLEAN : ReadEnd(available)
    BY <1>3 DEF TakeEnd
  <2> DEFINE cause == IF Head(wire) = "eof" THEN "none" ELSE Head(wire)
  <2>2. cause \in {"none"} \cup Causes
    BY <2>1 DEF ReadEnd, EndRecords, Causes
  <2>3. ResolveEnd(ds, cause, available) /\ decoded' = decoded
    BY <2>1 DEF ReadEnd
  <2>4. /\ ds' \in Stream /\ conn' \in Conn /\ stage' \in Stages
        /\ wire' \in Frames
    <3> HIDE DEF cause
    <3> QED BY <2>2, <2>3, ResolveEndTyped DEF Frames
  <2> QED BY <1>1, <1>3, <2>3, <2>4 DEF TakeEnd, Frames
<1>4. CASE DrainStops
  BY <1>4 DEF DrainStops
<1> QED BY <1>2, <1>3, <1>4

LEMMA TypesOfArms ==
  ASSUME TypeOK, FinishReopen \/ HoldFires \/ StallFires \/ ProgressFires
  PROVE  TypeOK'
<1> USE DEF RecvLeavesRest, ArmLeavesRest, TypeOK, Conn, Stages
<1>1. 0 \in 0 .. (SilenceLimit + 1)
  BY TimersAssumption DEF SilenceLimit
<1>2. CASE FinishReopen /\ conn.at = "opened"
  <2>1. ds' \in Stream /\ stage' = stage
    BY <1>2, ParkedTyped DEF FinishReopen
  <2> QED BY <1>1, <1>2, <2>1, ConnTyped DEF FinishReopen
<1>3. CASE FinishReopen /\ conn.at # "opened"
  <2> DEFINE cause == IF ds.pending = "continue" THEN "none" ELSE ds.pending
             failed == [ds EXCEPT !.pending = "none", !.retried = TRUE]
  <2>1. ds' = Finish(failed, cause) /\ RecordUpstreamFailure(cause)
    BY <1>3 DEF FinishReopen
  <2>2. failed \in Stream
    BY DEF Stream, Pending
  <2>3. cause \in Ends
    BY DEF Ends, Stream, Pending
  <2> HIDE DEF cause, failed
  <2>4. ds' \in Stream /\ stage' \in Stages
    BY <2>1, <2>2, <2>3, FinishTyped, RecordTyped
  <2>5. /\ pc' = "head" /\ conn' = NoConn /\ silence' = 0 /\ resumed' = FALSE /\ sends' = 0
        /\ UNCHANGED <<wire, beat, seen, decoded, reader, cancel, frames, rejected>>
    BY <1>3 DEF FinishReopen
  <2> QED BY <1>1, <2>4, <2>5, ConnTyped
<1>4. CASE HoldFires
  <2> DEFINE start == [kind |-> "start", send |-> ds.attempt, cause |-> "none"]
  <2>1. start \in Event
    BY DEF Event, Stream
  <2>2. Append(ds.queue, start) \in Seq(Event) /\ Disarmed \in Timer(StartHoldTimeout)
    BY <2>1 DEF Stream, Timer
  <2>3. ds' \in Stream
    BY <1>4, <2>2, ZenonT(30) DEF HoldFires, Stream
  <2>4. resumed' \in BOOLEAN
    BY <1>4 DEF HoldFires
  <2>5. /\ pc' = "head" /\ UNCHANGED <<conn, wire, stage, silence, beat, seen, decoded>>
        /\ UNCHANGED <<reader, cancel, frames, sends, rejected>>
    BY <1>4 DEF HoldFires
  <2> QED BY <2>3, <2>4, <2>5
<1>5. ASSUME NEW cause \in {"none"} \cup Causes, NEW available \in BOOLEAN,
             ResolveEnd([ds EXCEPT !.open = FALSE], cause, available)
      PROVE  /\ ds' \in Stream /\ conn' \in Conn /\ stage' \in Stages
             /\ wire' \in Frames
  <2>1. [ds EXCEPT !.open = FALSE] \in Stream
    BY DEF Stream
  <2> QED BY <1>5, <2>1, ResolveEndTyped DEF Frames
<1>6. CASE StallFires
  <2>1. {"none", "stalled"} \subseteq {"none"} \cup Causes
    BY DEF Causes, Watchdogs
  <2>2. /\ ds' \in Stream /\ conn' \in Conn /\ stage' \in Stages /\ wire' \in Frames
    BY <1>5, <1>6, <2>1 DEF StallFires
  <2>3. /\ pc' = "head" /\ UNCHANGED <<silence, resumed, beat, seen, decoded>>
        /\ UNCHANGED <<reader, cancel, frames, sends, rejected>>
    BY <1>6 DEF StallFires
  <2> QED BY <2>2, <2>3 DEF Frames
<1>7. CASE ProgressFires
  <2>1. "no progress" \in {"none"} \cup Causes
    BY DEF Causes, Watchdogs
  <2>2. /\ ds' \in Stream /\ conn' \in Conn /\ stage' \in Stages /\ wire' \in Frames
    BY <1>5, <1>7, <2>1 DEF ProgressFires
  <2>3. /\ pc' = "head" /\ UNCHANGED <<silence, resumed, beat, seen, decoded>>
        /\ UNCHANGED <<reader, cancel, frames, sends, rejected>>
    BY <1>7 DEF ProgressFires
  <2> QED BY <2>2, <2>3 DEF Frames
<1> QED BY <1>2, <1>3, <1>4, <1>6, <1>7

LEMMA TypesOfReturns ==
  ASSUME TypeOK, RecvReturns \/ TryRecv \/ TryReturns \/ PollDropped
  PROVE  TypeOK'
<1> USE DEF RecvLeavesRest, TypeOK, Conn, Stages
<1>1. 0 \in 0 .. (SilenceLimit + 1)
  BY TimersAssumption DEF SilenceLimit
<1>2. <<>> \in Frames /\ ds.queue \in Seq(Event)
  BY DEF Frames, Stream
<1>3. CASE RecvReturns
  <2> DEFINE left == Parked(IF ds.finished THEN KillAttempt(ds) ELSE ds)
  <2>1. left \in Stream /\ left.queue = ds.queue
    <3>1. KillAttempt(ds) \in Stream /\ KillAttempt(ds).queue = ds.queue
      BY ParkedTyped DEF KillAttempt, Stream
    <3> QED BY <3>1, ParkedTyped, ZenonT(30) DEF Parked, Stream
  <2>2. /\ conn' \in Conn /\ wire' \in Frames /\ silence' = 0 /\ resumed' = FALSE
        /\ UNCHANGED <<stage, beat, decoded, reader, cancel, frames, sends, rejected>>
    BY <1>2, <1>3, ConnTyped DEF RecvReturns, Frames
  <2> HIDE DEF left
  <2>3. CASE ds.queue # <<>>
    <3>1. /\ seen' = Append(seen, Head(ds.queue)) /\ pc' = "idle"
          /\ ds' = [left EXCEPT !.queue = Tail(left.queue)]
      BY <1>3, <2>3 DEF RecvReturns, Receives, left
    <3>2. seen' \in Seq(Event) /\ ds' \in Stream
      BY <1>2, <2>1, <2>3, <3>1, QueueGives DEF Stream
    <3> QED BY <1>1, <2>2, <3>1, <3>2 DEF Frames
  <2>4. CASE ds.queue = <<>>
    <3>1. seen' = seen /\ pc' = "ended" /\ ds' = left
      BY <1>3, <2>4 DEF RecvReturns, left
    <3> QED BY <1>1, <2>1, <2>2, <3>1 DEF Frames, Over
  <2> QED BY <2>3, <2>4
<1>4. CASE TryRecv
  BY <1>4 DEF TryRecv
<1>5. CASE TryReturns
  <2>1. /\ pc' = "idle"
        /\ UNCHANGED <<conn, wire, stage, beat, decoded, silence, resumed>>
        /\ UNCHANGED <<reader, cancel, frames, sends, rejected>>
    BY <1>5 DEF TryReturns
  <2>2. Parked(ds) \in Stream
    BY ParkedTyped
  <2>3. ds' \in Stream /\ seen' \in Seq(Event)
    <3>1. CASE ds.queue = <<>>
      BY <1>5, <2>2, <3>1 DEF TryReturns
    <3>2. CASE ds.queue # <<>>
      <4>1. /\ seen' = Append(seen, Head(ds.queue))
            /\ ds' = [Parked(ds) EXCEPT !.queue = Tail(Parked(ds).queue)]
        BY <1>5, <3>2 DEF TryReturns, Receives
      <4>2. Parked(ds).queue = ds.queue
        BY DEF Parked, Stream
      <4> QED BY <1>2, <2>2, <3>2, <4>1, <4>2, QueueGives DEF Stream
    <3> QED BY <3>1, <3>2
  <2> QED BY <2>1, <2>3
<1>6. CASE PollDropped
  <2>1. beat' \in Timer(KeepaliveInterval)
    BY <1>6, TimersAssumption DEF PollDropped, Timer
  <2> QED BY <1>6, <2>1, ParkedTyped DEF PollDropped
<1> QED BY <1>3, <1>4, <1>5, <1>6

LEMMA TypesOfOthers ==
  ASSUME TypeOK,
         \/ Cancel \/ DropStream \/ Tick
         \/ \E f \in DataFrames \cup EndRecords : UpstreamDelivers(f)
  PROVE  TypeOK'
<1> USE DEF TypeOK, Conn, Stages, consumerVars, historyVars
<1>1. CASE Cancel
  BY <1>1 DEF Cancel
<1>2. CASE DropStream
  <2>1. <<>> \in Frames /\ Disarmed \in Timer(KeepaliveInterval)
    BY DEF Frames, Timer
  <2> QED BY <1>2, <2>1, ConnTyped DEF DropStream, Over, Frames
<1>3. CASE Tick
  <2>1. /\ Floor(ds.hold) \in Timer(StartHoldTimeout) /\ Floor(ds.stall) \in Timer(StallTimeout)
        /\ Floor(ds.progress) \in Timer(NoProgressTimeout)
        /\ Floor(beat) \in Timer(KeepaliveInterval)
    BY TimersAssumption, FloorTyped DEF Stream
  <2>2. ds' \in Stream
    BY <1>3, <2>1 DEF Tick, Stream
  <2>3. silence' \in 0 .. (SilenceLimit + 1)
    BY <1>3, TimersAssumption, SMTT(30) DEF Tick, SilenceLimit
  <2> QED BY <1>3, <2>1, <2>2, <2>3 DEF Tick
<1>4. ASSUME NEW f \in DataFrames \cup EndRecords, UpstreamDelivers(f)
      PROVE  TypeOK'
  <2>1. wire' \in Frames
    BY <1>4 DEF UpstreamDelivers, Frames
  <2>2. frames' \in 0 .. MaxFrames
    <3>1. CASE f \in DataFrames \ {"quiet"}
      BY <1>4, <3>1, BoundsAssumption DEF UpstreamDelivers
    <3>2. CASE f \notin DataFrames \ {"quiet"}
      BY <1>4, <3>2 DEF UpstreamDelivers
    <3> QED BY <3>1, <3>2
  <2> QED BY <1>4, <2>1, <2>2 DEF UpstreamDelivers, Frames
<1> QED BY <1>1, <1>2, <1>3, <1>4

(* The parts of a step: the connect task, and what the others do.          *)
Connects == ConnStep \/ UpstreamAnswers
Returns == RecvReturns \/ TryRecv \/ TryReturns \/ PollDropped
Reads == TakeFrame \/ TakeEnd \/ DrainStops
Heads == RecvCall \/ HeadCancelled \/ HeadStarts \/ HeadWaits \/ WaitCancelled
Arms == FinishReopen \/ HoldFires \/ StallFires \/ ProgressFires
Rest == \/ Cancel \/ DropStream \/ Tick
        \/ \E f \in DataFrames \cup EndRecords : UpstreamDelivers(f)

LEMMA StepIs ==
  ASSUME [Next]_vars
  PROVE  \/ Connects \/ ConnectPhase \/ Heads \/ Reads \/ Arms \/ Returns \/ Rest
         \/ UNCHANGED vars
BY DEF Next, Poll, Connects, Returns, Reads, Heads, Arms, Rest, RequestOver

LEMMA TypesOfNext == TypeOK /\ [Next]_vars => TypeOK'
<1> SUFFICES ASSUME TypeOK, [Next]_vars PROVE TypeOK'
  OBVIOUS
<1>1. CASE Connects
  BY <1>1, ConnMoves DEF Connects, TypeOK, Conn, Stages
<1>2. CASE ConnectPhase
  BY <1>2, TypesOfPhase
<1>3. CASE Heads
  BY <1>3, TypesOfHead DEF Heads
<1>4. CASE Reads
  BY <1>4, TypesOfReading DEF Reads
<1>5. CASE Arms
  BY <1>5, TypesOfArms DEF Arms
<1>6. CASE Returns
  BY <1>6, TypesOfReturns DEF Returns
<1>7. CASE Rest
  BY <1>7, TypesOfOthers DEF Rest
<1>8. CASE UNCHANGED vars
  BY <1>8 DEF vars, consumerVars, historyVars, TypeOK
<1> QED BY <1>1, <1>2, <1>3, <1>4, <1>5, <1>6, <1>7, <1>8, StepIs

(* The fields of DevinStream and of the request stay in their types        *)
(* (retry.rs:314-372), for every value of the timers and bounds.           *)
THEOREM TypeCorrect == Spec => []TypeOK
BY TypesOfInit, TypesOfNext, PTL DEF Spec

-----------------------------------------------------------------------------
(* The fields of what an operator leaves                                   *)

LEMMA FinishFields ==
  ASSUME NEW s \in Stream, NEW err \in Ends
  PROVE  /\ Finish(s, err).finished = TRUE /\ Finish(s, err).decoder.finished = TRUE
         /\ Finish(s, err).decoder.stop = s.decoder.stop
         /\ Finish(s, err).open = s.open /\ Finish(s, err).pending = s.pending
         /\ Finish(s, err).attempt = s.attempt /\ Finish(s, err).started = s.started
         /\ Finish(s, err).startReleased = s.startReleased
         /\ Finish(s, err).hold = s.hold /\ Finish(s, err).stall = s.stall
         /\ Finish(s, err).produced = s.produced /\ Finish(s, err).retried = s.retried
         /\ Finish(s, err).pendingStart = (s.pendingStart /\ FinishOf(s, err) = <<>>)
         /\ Finish(s, err).queue =
              s.queue \o Withheld(s, FinishOf(s, err)) \o FinishOf(s, err)
<1> DEFINE queue == s.queue \o Withheld(s, FinishOf(s, err)) \o FinishOf(s, err)
           pending == s.pendingStart /\ FinishOf(s, err) = <<>>
           decoder == [s.decoder EXCEPT !.finished = TRUE]
<1>1. Finish(s, err) = [s EXCEPT !.pendingStart = pending, !.queue = queue,
                                !.decoder = decoder, !.finished = TRUE]
  BY FinishIs
<1>2. decoder.finished = TRUE /\ decoder.stop = s.decoder.stop
  BY DEF Stream
<1> HIDE DEF queue, pending, decoder
<1>3. /\ Finish(s, err).finished = TRUE /\ Finish(s, err).decoder = decoder
      /\ Finish(s, err).open = s.open /\ Finish(s, err).pending = s.pending
      /\ Finish(s, err).attempt = s.attempt /\ Finish(s, err).started = s.started
      /\ Finish(s, err).startReleased = s.startReleased
      /\ Finish(s, err).hold = s.hold /\ Finish(s, err).stall = s.stall
      /\ Finish(s, err).produced = s.produced /\ Finish(s, err).retried = s.retried
      /\ Finish(s, err).pendingStart = pending
      /\ Finish(s, err).queue = queue
  BY <1>1 DEF Stream
<1> QED BY <1>2, <1>3 DEF queue, pending

LEMMA ArmedFields ==
  ASSUME NEW s \in Stream, NEW resend \in Pending
  PROVE  /\ Armed(s, resend).open = FALSE /\ Armed(s, resend).pending = resend
         /\ Armed(s, resend).attempt = s.attempt + 1
         /\ Armed(s, resend).decoder = s.decoder /\ Armed(s, resend).finished = s.finished
         /\ Armed(s, resend).started = s.started
         /\ Armed(s, resend).pendingStart = s.pendingStart
         /\ Armed(s, resend).startReleased = s.startReleased
         /\ Armed(s, resend).hold = s.hold /\ Armed(s, resend).stall = s.stall
         /\ Armed(s, resend).produced = s.produced /\ Armed(s, resend).retried = s.retried
         /\ Armed(s, resend).queue = s.queue
BY DEF Armed, Stream

LEMMA DiscardedFields ==
  ASSUME NEW s \in Stream
  PROVE  /\ Discarded(s).decoder.finished = TRUE
         /\ Discarded(s).decoder.stop = s.decoder.stop
         /\ Discarded(s).finished = s.finished /\ Discarded(s).attempt = s.attempt
         /\ Discarded(s).open = s.open /\ Discarded(s).pending = s.pending
         /\ Discarded(s).started = s.started
         /\ Discarded(s).startReleased = s.startReleased
         /\ Discarded(s).hold = s.hold /\ Discarded(s).stall = s.stall
         /\ Discarded(s).produced = s.produced /\ Discarded(s).retried = s.retried
         /\ Discarded(s).queue = s.queue
<1> DEFINE pending == s.pendingStart /\ FinishOf(s, "none") = <<>>
           decoder == [s.decoder EXCEPT !.finished = TRUE]
<1>1. Discarded(s) = [s EXCEPT !.pendingStart = pending, !.decoder = decoder]
  BY DiscardedIs
<1>2. decoder.finished = TRUE /\ decoder.stop = s.decoder.stop
  BY DEF Stream
<1> HIDE DEF pending, decoder
<1> QED BY <1>1, <1>2 DEF Stream

(* A step that arms a resend, and one that finishes, as the invariants see *)
(* them; `s` is the stream as the watchdogs may have closed it.            *)
Resends(s) ==
  /\ ~s.retried /\ ~s.produced /\ s.pending = "none"
  /\ ds'.open = FALSE /\ ds'.pending \in {"continue"} \cup Causes
  /\ ds'.pending = "continue" => ds'.decoder.finished
  /\ ds'.attempt = s.attempt + 1
  /\ ds'.finished = s.finished /\ ds'.queue = s.queue
  /\ ds'.startReleased = s.startReleased
  /\ conn' = Connecting /\ wire' = <<>> /\ stage' = stage

Finishes(s, cause) ==
  /\ ds' = Finish(s, cause) /\ RecordUpstreamFailure(cause)
  /\ UNCHANGED <<conn, wire>>

Keeps(s) ==
  /\ ds'.decoder.stop = s.decoder.stop /\ ds'.started = s.started
  /\ ds'.hold = s.hold /\ ds'.stall = s.stall
  /\ ds'.produced = s.produced /\ ds'.retried = s.retried

LEMMA ResolveEndFields ==
  ASSUME NEW s \in Stream, NEW cause \in {"none"} \cup Causes, NEW available \in BOOLEAN,
         ResolveEnd(s, cause, available)
  PROVE  Keeps(s) /\ (Resends(s) \/ Finishes(s, cause))
<1>1. cause \in Ends
  BY DEF Ends
<1>2. CASE ds' = Finish(s, cause) /\ RecordUpstreamFailure(cause) /\ UNCHANGED <<conn, wire>>
  BY <1>1, <1>2, FinishFields DEF Finishes, Keeps
<1>3. CASE /\ MayReopen(s)
           /\ conn' = Connecting /\ wire' = <<>> /\ stage' = stage
           /\ ds' = Armed(Discarded(s), "continue")
  <2>1. "continue" \in Pending /\ Discarded(s) \in Stream
    BY DiscardedTyped DEF Pending
  <2>2. /\ ds'.open = FALSE /\ ds'.pending = "continue"
        /\ ds'.attempt = Discarded(s).attempt + 1
        /\ ds'.decoder = Discarded(s).decoder /\ ds'.finished = Discarded(s).finished
        /\ ds'.started = Discarded(s).started
        /\ ds'.startReleased = Discarded(s).startReleased
        /\ ds'.hold = Discarded(s).hold /\ ds'.stall = Discarded(s).stall
        /\ ds'.produced = Discarded(s).produced /\ ds'.retried = Discarded(s).retried
        /\ ds'.queue = Discarded(s).queue
    <3> DEFINE d == Discarded(s)
    <3> HIDE DEF d
    <3>1. d \in Stream /\ ds' = Armed(d, "continue")
      BY <1>3, <2>1 DEF d
    <3>2. /\ ds'.open = FALSE /\ ds'.pending = "continue"
          /\ ds'.attempt = d.attempt + 1
          /\ ds'.decoder = d.decoder /\ ds'.finished = d.finished
          /\ ds'.started = d.started
          /\ ds'.startReleased = d.startReleased
          /\ ds'.hold = d.hold /\ ds'.stall = d.stall
          /\ ds'.produced = d.produced /\ ds'.retried = d.retried
          /\ ds'.queue = d.queue
      BY <2>1, <3>1, ArmedFields
    <3> QED BY <3>2 DEF d
  <2>3. Keeps(s)
    <3>1. ds'.decoder.stop = s.decoder.stop
      <4>1. Discarded(s).decoder.stop = s.decoder.stop
        BY DiscardedFields
      <4>2. ds'.decoder = Discarded(s).decoder
        BY <2>2
      <4> QED BY <4>1, <4>2
    <3>2. /\ ds'.started = s.started /\ ds'.hold = s.hold /\ ds'.stall = s.stall
          /\ ds'.produced = s.produced /\ ds'.retried = s.retried
      BY <2>2, DiscardedFields
    <3> QED BY <3>1, <3>2 DEF Keeps
  <2>4. Resends(s)
    BY <1>3, <2>2, DiscardedFields DEF MayReopen, Resends
  <2> QED BY <2>3, <2>4
<1>4. CASE /\ MayReopen(s)
           /\ conn' = Connecting /\ wire' = <<>> /\ stage' = stage
           /\ cause \in Causes /\ ds' = Armed(s, cause)
  <2>1. cause \in Pending /\ cause # "continue"
    BY <1>4 DEF Pending, Causes, Failures, Watchdogs
  <2> QED BY <1>4, <2>1, ArmedFields DEF MayReopen, Resends, Keeps
<1> QED BY <1>2, <1>3, <1>4, ResolveEndIs

(* The three places where an end is resolved.                              *)
Ending == TakeEnd \/ StallFires \/ ProgressFires

Closing(s) == s \in {ds, [ds EXCEPT !.open = FALSE]}

LEMMA EndingIs ==
  ASSUME TypeOK, Ending
  PROVE  \E s \in Stream, cause \in {"none"} \cup Causes :
           /\ Closing(s) /\ Keeps(s)
           /\ Resends(s) \/ Finishes(s, cause)
           /\ pc \in {"wait", "drain", "try"} /\ pc' \in {"head", "pop"}
           /\ pc = "try" <=> pc' = "pop"
           /\ ds.pending = "none"
           /\ pc = "wait" \/ ~ds.finished
           /\ \/ silence' = 0 /\ resumed' = FALSE
              \/ UNCHANGED <<silence, resumed>> /\ pc = "wait"
           /\ UNCHANGED <<reader, cancel, frames, sends, rejected, beat, seen, decoded>>
<1> DEFINE closed == [ds EXCEPT !.open = FALSE]
<1>1. ds \in Stream /\ closed \in Stream
  BY DEF TypeOK, Stream
<1>2. Closing(ds) /\ Closing(closed)
  BY DEF Closing
<1>3. CASE TakeEnd
  <2>1. PICK available \in BOOLEAN : ReadEnd(available)
    BY <1>3 DEF TakeEnd
  <2> DEFINE cause == IF Head(wire) = "eof" THEN "none" ELSE Head(wire)
  <2>2. cause \in {"none"} \cup Causes
    BY <2>1 DEF ReadEnd, EndRecords, Causes
  <2>3. ResolveEnd(ds, cause, available) /\ decoded' = decoded
    BY <2>1 DEF ReadEnd
  <2> HIDE DEF cause
  <2>4. Keeps(ds) /\ (Resends(ds) \/ Finishes(ds, cause))
    BY <1>1, <2>2, <2>3, ResolveEndFields
  <2>5. /\ pc \in {"wait", "drain", "try"} /\ pc' \in {"head", "pop"}
        /\ pc = "try" <=> pc' = "pop"
        /\ ds.pending = "none" /\ ~ds.finished
        /\ silence' = 0 /\ resumed' = FALSE
        /\ UNCHANGED <<reader, cancel, frames, sends, rejected, beat, seen>>
    BY <1>3 DEF TakeEnd, Readable, ReadLeavesRest, RecvLeavesRest
  <2> QED BY <1>1, <1>2, <2>2, <2>3, <2>4, <2>5
<1>4. CASE StallFires
  <2> DEFINE cause == IF ds.decoder.stop # "none" THEN "none" ELSE "stalled"
  <2>1. PICK available \in BOOLEAN : ResolveEnd(closed, cause, available)
    BY <1>4 DEF StallFires
  <2>2. cause \in {"none"} \cup Causes /\ (cause # "none" \/ ds.decoder.stop # "none")
    BY DEF Causes, Watchdogs
  <2> HIDE DEF cause, closed
  <2>3. Keeps(closed) /\ (Resends(closed) \/ Finishes(closed, cause))
    BY <1>1, <2>1, <2>2, ResolveEndFields
  <2>4. /\ pc = "wait" /\ pc' = "head" /\ ds.pending = "none"
        /\ UNCHANGED <<silence, resumed>>
        /\ UNCHANGED <<reader, cancel, frames, sends, rejected, beat, seen, decoded>>
    BY <1>4 DEF StallFires, Quiet, ArmLeavesRest, RecvLeavesRest
  <2> QED BY <1>1, <1>2, <2>2, <2>3, <2>4
<1>5. CASE ProgressFires
  <2>1. PICK available \in BOOLEAN : ResolveEnd(closed, "no progress", available)
    BY <1>5 DEF ProgressFires
  <2>2. "no progress" \in {"none"} \cup Causes /\ "no progress" # "none"
    BY DEF Causes, Watchdogs
  <2> HIDE DEF closed
  <2>3. Keeps(closed) /\ (Resends(closed) \/ Finishes(closed, "no progress"))
    BY <1>1, <2>1, <2>2, ResolveEndFields
  <2>4. /\ pc = "wait" /\ pc' = "head" /\ ds.pending = "none"
        /\ UNCHANGED <<silence, resumed>>
        /\ UNCHANGED <<reader, cancel, frames, sends, rejected, beat, seen, decoded>>
    BY <1>5 DEF ProgressFires, Quiet, ArmLeavesRest, RecvLeavesRest
  <2> QED BY <1>1, <1>2, <2>2, <2>3, <2>4
<1> QED BY <1>3, <1>4, <1>5 DEF Ending
(* The stream that a cancellation finishes.                                *)
LEMMA CancelIs ==
  ASSUME TypeOK, EndCancelled
  PROVE  \E s \in Stream, cause \in Ends :
           /\ cause = "cancelled" /\ ds' = Finish(s, cause)
           /\ s = [ds EXCEPT !.open = FALSE, !.pending = "none"]
<1>1. [ds EXCEPT !.open = FALSE, !.pending = "none"] \in Stream
  BY DEF TypeOK, Stream, Pending
<1>2. "cancelled" \in Ends
  BY DEF Ends
<1>3. ds' = Finish([ds EXCEPT !.open = FALSE, !.pending = "none"], "cancelled")
  BY DEF EndCancelled, KillAttempt
<1> QED BY <1>1, <1>2, <1>3

(* The stream that a failed resend finishes, with the cause it was armed   *)
(* for.                                                                    *)
ReopenFails == FinishReopen /\ conn.at # "opened"

LEMMA ReopenFailsIs ==
  ASSUME TypeOK, ReopenFails
  PROVE  \E s \in Stream, cause \in {"none"} \cup Causes :
           /\ ds' = Finish(s, cause) /\ RecordUpstreamFailure(cause)
           /\ s = [ds EXCEPT !.pending = "none", !.retried = TRUE]
           /\ cause = "none" => ds.pending = "continue"
<1> DEFINE failed == [ds EXCEPT !.pending = "none", !.retried = TRUE]
           cause == IF ds.pending = "continue" THEN "none" ELSE ds.pending
<1>1. failed \in Stream
  BY DEF TypeOK, Stream, Pending
<1>2. ds.pending \in Pending \ {"none"}
  BY DEF ReopenFails, FinishReopen, ReopenReturned, TypeOK, Stream
<1>3. cause \in {"none"} \cup Causes /\ (cause = "none" => ds.pending = "continue")
  BY <1>2 DEF Pending
<1>4. ds' = Finish(failed, cause) /\ RecordUpstreamFailure(cause)
  BY DEF ReopenFails, FinishReopen
<1> HIDE DEF failed, cause
<1>5. ds' = Finish(failed, cause) /\ failed = [ds EXCEPT !.pending = "none", !.retried = TRUE]
  BY <1>4 DEF failed
<1> QED BY <1>1, <1>3, <1>4, <1>5

LEMMA AbsorbFields ==
  ASSUME NEW s \in Stream, NEW f \in DataFrames
  PROVE  /\ Absorb(s, f).finished = s.decoder.finished
         /\ Absorb(s, f).decoder = Decoded(s.decoder, f)
         /\ Absorb(s, f).open = s.open /\ Absorb(s, f).pending = s.pending
         /\ Absorb(s, f).attempt = s.attempt /\ Absorb(s, f).started = s.started
         /\ Absorb(s, f).startReleased = s.startReleased
         /\ Absorb(s, f).hold = s.hold /\ Absorb(s, f).stall = s.stall
         /\ Absorb(s, f).retried = s.retried
         /\ Absorb(s, f).produced = (s.produced \/ ContentOf(s, f) # <<>>)
         /\ Absorb(s, f).pendingStart = (s.pendingStart /\ ContentOf(s, f) = <<>>)
         /\ Absorb(s, f).queue = s.queue \o Withheld(s, ContentOf(s, f)) \o ContentOf(s, f)
<1> DEFINE queue == s.queue \o Withheld(s, ContentOf(s, f)) \o ContentOf(s, f)
           pending == s.pendingStart /\ ContentOf(s, f) = <<>>
           produced == s.produced \/ ContentOf(s, f) # <<>>
           progress == IF ContentOf(s, f) # <<>> THEN NoProgressTimeout ELSE s.progress
           decoder == Decoded(s.decoder, f)
<1>1. Absorb(s, f) = [s EXCEPT !.confirmed = TRUE, !.decoder = decoder, !.produced = produced,
                               !.progress = progress, !.pendingStart = pending,
                               !.queue = queue, !.finished = s.decoder.finished]
  BY AbsorbIs
<1> HIDE DEF queue, pending, produced, progress, decoder
<1>2. /\ Absorb(s, f).finished = s.decoder.finished
      /\ Absorb(s, f).decoder = decoder
      /\ Absorb(s, f).open = s.open /\ Absorb(s, f).pending = s.pending
      /\ Absorb(s, f).attempt = s.attempt /\ Absorb(s, f).started = s.started
      /\ Absorb(s, f).startReleased = s.startReleased
      /\ Absorb(s, f).hold = s.hold /\ Absorb(s, f).stall = s.stall
      /\ Absorb(s, f).retried = s.retried
      /\ Absorb(s, f).produced = produced
      /\ Absorb(s, f).pendingStart = pending
      /\ Absorb(s, f).queue = queue
  BY <1>1 DEF Stream
<1> QED BY <1>2 DEF queue, pending, produced, decoder

(* A frame is read by an owner that reads, and the watch starts over.      *)
LEMMA TakeFrameIs ==
  ASSUME TypeOK, TakeFrame
  PROVE  /\ \E f \in DataFrames : /\ ds' = Absorb(ds, f)
                                  /\ decoded' = decoded + Len(ContentOf(ds, f))
         /\ pc \in {"wait", "drain", "try"} /\ pc' \in {"drain", "try"}
         /\ pc' = "drain" \/ pc = "try"
         /\ ds.open /\ ds.pending = "none" /\ ~ds.finished
         /\ silence' = 0 /\ resumed' = FALSE
         /\ UNCHANGED <<reader, cancel, frames, sends, rejected, beat, seen, conn, stage>>
BY DEF TakeFrame, AbsorbFrame, Readable, ReadLeavesRest, RecvLeavesRest

LEMMA AdoptFields ==
  ASSUME NEW s \in Stream
  PROVE  /\ Adopt(s).open = TRUE /\ Adopt(s).pending = "none" /\ Adopt(s).finished = FALSE
         /\ Adopt(s).decoder = NewDecoder /\ Adopt(s).attempt = s.attempt
         /\ Adopt(s).started = FALSE /\ Adopt(s).pendingStart = FALSE
         /\ Adopt(s).startReleased = s.startReleased
         /\ Adopt(s).hold = s.hold /\ Adopt(s).stall = s.stall
         /\ Adopt(s).produced = s.produced /\ Adopt(s).retried = TRUE
         /\ Adopt(s).queue = <<>>
<1> HIDE DEF NewDecoder
<1> QED BY DEF Adopt, Stream

(* What a poll that returns leaves, whether it was dropped, had nothing or *)
(* takes an event from the queue.                                          *)
LEMMA ParkedFields ==
  ASSUME NEW s \in Stream
  PROVE  /\ Parked(s).open = s.open /\ Parked(s).pending = s.pending
         /\ Parked(s).finished = s.finished /\ Parked(s).decoder = s.decoder
         /\ Parked(s).attempt = s.attempt /\ Parked(s).started = s.started
         /\ Parked(s).pendingStart = s.pendingStart
         /\ Parked(s).startReleased = s.startReleased
         /\ Parked(s).hold = s.hold /\ Parked(s).stall = Disarmed
         /\ Parked(s).produced = s.produced /\ Parked(s).retried = s.retried
         /\ Parked(s).queue = s.queue
BY DEF Parked, Stream

Hands(queue) ==
  \/ queue = <<>> /\ seen' = seen /\ ds'.queue = queue
  \/ queue # <<>> /\ seen' = Append(seen, Head(queue)) /\ ds'.queue = Tail(queue)

LEMMA ReturnsAre ==
  ASSUME TypeOK, RecvReturns \/ TryReturns \/ PollDropped
  PROVE  /\ ds'.open = IF RecvReturns /\ ds.finished THEN FALSE ELSE ds.open
         /\ ds'.pending = IF RecvReturns /\ ds.finished THEN "none" ELSE ds.pending
         /\ ds'.finished = ds.finished /\ ds'.decoder = ds.decoder
         /\ ds'.attempt = ds.attempt /\ ds'.started = ds.started
         /\ ds'.pendingStart = ds.pendingStart /\ ds'.startReleased = ds.startReleased
         /\ ds'.hold = ds.hold /\ ds'.stall = Disarmed
         /\ ds'.produced = ds.produced /\ ds'.retried = ds.retried
         /\ (PollDropped /\ ds'.queue = ds.queue /\ seen' = seen) \/ Hands(ds.queue)
<1>1. ds \in Stream /\ Parked(ds) \in Stream
  BY ParkedTyped DEF TypeOK
<1>2. CASE RecvReturns
  <2> DEFINE killed == IF ds.finished THEN KillAttempt(ds) ELSE ds
             left == Parked(killed)
  <2>1. /\ killed \in Stream /\ left \in Stream
        /\ killed.open = IF ds.finished THEN FALSE ELSE ds.open
        /\ killed.pending = IF ds.finished THEN "none" ELSE ds.pending
        /\ killed.finished = ds.finished /\ killed.decoder = ds.decoder
        /\ killed.attempt = ds.attempt /\ killed.started = ds.started
        /\ killed.pendingStart = ds.pendingStart /\ killed.startReleased = ds.startReleased
        /\ killed.hold = ds.hold
        /\ killed.produced = ds.produced /\ killed.retried = ds.retried
        /\ killed.queue = ds.queue
    <3>1. CASE ds.finished
      <4>1. killed = KillAttempt(ds)
        BY <3>1
      <4> HIDE DEF killed
      <4>2. killed \in Stream /\ Parked(killed) \in Stream
        BY <1>1, <4>1, ParkedTyped
      <4>3. /\ killed.open = FALSE /\ killed.pending = "none"
            /\ killed.finished = ds.finished /\ killed.decoder = ds.decoder
            /\ killed.attempt = ds.attempt /\ killed.started = ds.started
            /\ killed.pendingStart = ds.pendingStart /\ killed.startReleased = ds.startReleased
            /\ killed.hold = ds.hold
            /\ killed.produced = ds.produced /\ killed.retried = ds.retried
            /\ killed.queue = ds.queue
        BY <1>1, <4>1 DEF KillAttempt, Stream
      <4> QED BY <3>1, <4>2, <4>3
    <3>2. CASE ~ds.finished
      <4>1. killed = ds
        BY <3>2
      <4> HIDE DEF killed
      <4>2. killed \in Stream /\ Parked(killed) \in Stream
        BY <1>1, <4>1
      <4> QED BY <3>2, <4>1, <4>2
    <3> QED BY <3>1, <3>2
  <2>2. \/ ds.queue = <<>> /\ seen' = seen /\ ds' = left
        \/ /\ ds.queue # <<>> /\ seen' = Append(seen, Head(ds.queue))
           /\ ds' = [left EXCEPT !.queue = Tail(left.queue)]
    BY <1>2 DEF RecvReturns, Receives
  <2> HIDE DEF killed
  <2>3. /\ left.open = killed.open /\ left.pending = killed.pending
        /\ left.finished = killed.finished /\ left.decoder = killed.decoder
        /\ left.attempt = killed.attempt /\ left.started = killed.started
        /\ left.pendingStart = killed.pendingStart /\ left.startReleased = killed.startReleased
        /\ left.hold = killed.hold /\ left.stall = Disarmed
        /\ left.produced = killed.produced /\ left.retried = killed.retried
        /\ left.queue = killed.queue
    BY <2>1, ParkedFields
  <2> HIDE DEF left
  <2>4. /\ ds'.open = left.open /\ ds'.pending = left.pending
        /\ ds'.finished = left.finished /\ ds'.decoder = left.decoder
        /\ ds'.attempt = left.attempt /\ ds'.started = left.started
        /\ ds'.pendingStart = left.pendingStart /\ ds'.startReleased = left.startReleased
        /\ ds'.hold = left.hold /\ ds'.stall = left.stall
        /\ ds'.produced = left.produced /\ ds'.retried = left.retried
    BY <2>1, <2>2 DEF Stream
  <2>5. Hands(ds.queue)
    <3>1. left.queue = ds.queue
      BY <2>1, <2>3
    <3>2. ds.queue # <<>> => ds'.queue = Tail(left.queue)
      BY <2>1, <2>2 DEF Stream
    <3> QED BY <2>2, <3>1, <3>2 DEF Hands
  <2> QED BY <1>2, <2>1, <2>3, <2>4, <2>5
<1>3. CASE TryReturns
  <2>1. ~RecvReturns
    BY <1>3 DEF TryReturns, RecvReturns
  <2> DEFINE left == Parked(ds)
  <2>2. \/ ds.queue = <<>> /\ seen' = seen /\ ds' = left
        \/ /\ ds.queue # <<>> /\ seen' = Append(seen, Head(ds.queue))
           /\ ds' = [left EXCEPT !.queue = Tail(left.queue)]
    BY <1>3 DEF TryReturns, Receives
  <2>3. /\ left \in Stream
        /\ left.open = ds.open /\ left.pending = ds.pending
        /\ left.finished = ds.finished /\ left.decoder = ds.decoder
        /\ left.attempt = ds.attempt /\ left.started = ds.started
        /\ left.pendingStart = ds.pendingStart /\ left.startReleased = ds.startReleased
        /\ left.hold = ds.hold /\ left.stall = Disarmed
        /\ left.produced = ds.produced /\ left.retried = ds.retried
        /\ left.queue = ds.queue
    BY <1>1, ParkedFields
  <2> HIDE DEF left
  <2>4. /\ ds'.open = left.open /\ ds'.pending = left.pending
        /\ ds'.finished = left.finished /\ ds'.decoder = left.decoder
        /\ ds'.attempt = left.attempt /\ ds'.started = left.started
        /\ ds'.pendingStart = left.pendingStart /\ ds'.startReleased = left.startReleased
        /\ ds'.hold = left.hold /\ ds'.stall = left.stall
        /\ ds'.produced = left.produced /\ ds'.retried = left.retried
    BY <2>2, <2>3 DEF Stream
  <2>5. Hands(ds.queue)
    BY <2>2, <2>3 DEF Hands, Stream
  <2>6. ds.open \in BOOLEAN
    BY <1>1 DEF Stream
  <2> QED BY <2>1, <2>3, <2>4, <2>5, <2>6
<1>4. CASE PollDropped
  <2>1. ~RecvReturns /\ ds' = Parked(ds) /\ seen' = seen
    BY <1>4 DEF PollDropped, RecvReturns
  <2>2. ds.open \in BOOLEAN
    BY <1>1 DEF Stream
  <2> QED BY <1>1, <1>4, <2>1, <2>2, ParkedFields
<1> QED BY <1>2, <1>3, <1>4

-----------------------------------------------------------------------------
(* Where the owner stands *)

Struct == TypeOK /\ Places /\ OneExchange

LEMMA StructOfInit == Init => Struct
BY TypesOfInit, ConnTyped
   DEF Init, Struct, Places, OneExchange, NewStream, NewDecoder, Connecting, Live, Over, Disarmed, Stream

LEMMA StructOfConnects ==
  ASSUME Struct, Connects
  PROVE  (Places /\ OneExchange)'
<1>1. /\ conn.at \notin {"none", "opened", "failed"} /\ conn'.at # "none"
      /\ UNCHANGED <<pc, ds, seen>>
  BY ConnMoves DEF Struct, Connects
<1> QED BY <1>1 DEF Struct, Places, OneExchange, Live

LEMMA StructOfPhase ==
  ASSUME Struct, ConnectPhase
  PROVE  (Places /\ OneExchange)'
<1> USE DEF Struct, TypeOK, Places, OneExchange, Live, OpenLeavesRest, NewStream, Stream, Over,
            NewDecoder, NoConn, Connecting
<1>1. CASE StreamOpens
  BY <1>1 DEF StreamOpens
<1>2. CASE ConnectRepairs
  BY <1>2, ZenonT(30) DEF ConnectRepairs
<1>3. CASE StreamFails
  BY <1>3 DEF StreamFails
<1> QED BY <1>1, <1>2, <1>3 DEF ConnectPhase

LEMMA StructOfHead ==
  ASSUME Struct, Heads
  PROVE  (Places /\ OneExchange)'
<1> USE DEF Struct, TypeOK, Places, OneExchange, Live, RecvLeavesRest, Stream, Over, Looping
<1>1. {StallTimeout, TailGrace} \subseteq Nat \ {0}
  BY TimersAssumption
<1>2. CASE RecvCall
  BY <1>2 DEF RecvCall
<1>3. CASE HeadStarts
  BY <1>3 DEF HeadStarts
<1>4. CASE HeadWaits
  <2>1. /\ ds'.stall \in {StallTimeout, TailGrace} /\ pc' = "wait"
        /\ UNCHANGED <<conn, wire, seen>>
        /\ ds'.open = ds.open /\ ds'.pending = ds.pending /\ ds'.finished = ds.finished
        /\ ds'.queue = ds.queue /\ ds'.started = ds.started /\ ds'.decoder = ds.decoder
        /\ ds'.produced = ds.produced
        /\ pc = "head" /\ ds.queue = <<>> /\ ~ds.finished /\ ds.started
    BY <1>4 DEF HeadWaits
  <2>2. ds'.stall >= 0
    BY <1>1, <2>1
  <2> QED BY <2>1, <2>2
<1>5. CASE HeadCancelled \/ WaitCancelled
  <2>1. EndCancelled /\ pc \in {"head", "wait"}
    BY <1>5 DEF HeadCancelled, WaitCancelled
  <2>2. PICK s \in Stream, cause \in Ends :
          /\ ds' = Finish(s, cause)
          /\ s = [ds EXCEPT !.open = FALSE, !.pending = "none"]
    BY <2>1, CancelIs
  <2>3. ds'.finished = TRUE /\ ds'.open = s.open /\ ds'.pending = s.pending
    <3> HIDE DEF Stream, TypeOK
    <3> QED BY <2>2, FinishFields
  <2>4. ds'.finished /\ ds'.open = FALSE /\ ds'.pending = "none"
    BY <2>2, <2>3
  <2>5. pc' = "head" /\ conn' = NoConn
    BY <2>1 DEF EndCancelled
  <2> QED BY <2>4, <2>5 DEF NoConn
<1> QED BY <1>2, <1>3, <1>4, <1>5 DEF Heads

LEMMA StructOfEnding ==
  ASSUME Struct, Ending
  PROVE  (Places /\ OneExchange)'
<1> USE DEF Struct, Places, OneExchange, Live, Over
<1>1. PICK s \in Stream, cause \in {"none"} \cup Causes :
        /\ Closing(s) /\ Keeps(s)
        /\ Resends(s) \/ Finishes(s, cause)
        /\ pc \in {"wait", "drain", "try"} /\ pc' \in {"head", "pop"}
        /\ ds.pending = "none"
  BY EndingIs
<1>2. /\ s.pending = "none" /\ s.produced = ds.produced /\ s.finished = ds.finished
      /\ s.open = ds.open \/ s.open = FALSE
  BY <1>1 DEF Closing, TypeOK, Stream
<1>3. CASE Resends(s)
  BY <1>1, <1>2, <1>3 DEF Resends, Keeps, Connecting, Causes, Failures, Watchdogs
<1>4. CASE Finishes(s, cause)
  <2>1. cause \in Ends
    BY DEF Ends
  <2>2. ds' = Finish(s, cause) /\ conn' = conn
    BY <1>4 DEF Finishes
  <2>3. ds'.finished = TRUE /\ ds'.open = s.open /\ ds'.pending = s.pending
    BY <2>1, <2>2, FinishFields
  <2> QED BY <1>1, <1>2, <2>2, <2>3
<1> QED BY <1>1, <1>3, <1>4

LEMMA StructOfReads ==
  ASSUME Struct, Reads
  PROVE  (Places /\ OneExchange)'
<1> USE DEF Struct, Places, OneExchange, Live, Over
<1>1. CASE TakeFrame
  <2>1. PICK f \in DataFrames : ds' = Absorb(ds, f)
    BY <1>1, TakeFrameIs
  <2>2. /\ ds' = Absorb(ds, f) /\ ds \in Stream
        /\ Decoded(ds.decoder, f).finished = ds.decoder.finished
    BY <2>1, DecodedIs DEF TypeOK
  <2>3. /\ ds'.finished = ds.decoder.finished /\ ds'.decoder.finished = ds.decoder.finished
        /\ ds'.open = ds.open /\ ds'.pending = ds.pending /\ ds'.started = ds.started
    BY <2>2, AbsorbFields
  <2>4. /\ ds.open /\ ds.pending = "none" /\ ~ds.finished /\ ds.started
        /\ pc \in {"wait", "drain", "try"} /\ pc' \in {"drain", "try"}
        /\ conn' = conn
    BY <1>1, TakeFrameIs
  <2> QED BY <2>3, <2>4
<1>2. CASE TakeEnd
  BY <1>2, StructOfEnding DEF Ending
<1>3. CASE DrainStops
  BY <1>3 DEF DrainStops, Readable
<1> QED BY <1>1, <1>2, <1>3 DEF Reads

LEMMA StructOfArms ==
  ASSUME Struct, Arms
  PROVE  (Places /\ OneExchange)'
<1> USE DEF Struct, Places, OneExchange, Live, Over
<1>1. CASE FinishReopen /\ conn.at = "opened"
  <2>1. /\ ds'.open = TRUE /\ ds'.pending = "none" /\ ds'.finished = FALSE
        /\ ds'.decoder.finished = FALSE
    <3>1. ds' = Adopt(ds) /\ ds \in Stream
      BY <1>1 DEF FinishReopen, TypeOK
    <3>2. ds'.decoder = NewDecoder /\ NewDecoder.finished = FALSE
      BY <3>1, AdoptFields DEF NewDecoder
    <3> QED BY <3>1, <3>2, AdoptFields
  <2> QED BY <1>1, <2>1 DEF FinishReopen, NoConn
<1>2. CASE ReopenFails
  <2>1. PICK s \in Stream, cause \in {"none"} \cup Causes :
          /\ ds' = Finish(s, cause)
          /\ s = [ds EXCEPT !.pending = "none", !.retried = TRUE]
    BY <1>2, ReopenFailsIs
  <2>2. cause \in Ends
    BY DEF Ends
  <2>3. ds'.finished = TRUE /\ ds'.open = s.open /\ ds'.pending = s.pending
    BY <2>1, <2>2, FinishFields
  <2>4. s.open = ds.open /\ s.pending = "none" /\ ds.open = FALSE
    BY <1>2, <2>1 DEF ReopenFails, FinishReopen, ReopenReturned, TypeOK, Stream
  <2>5. pc' = "head" /\ conn' = NoConn
    BY <1>2 DEF ReopenFails, FinishReopen
  <2> QED BY <2>3, <2>4, <2>5 DEF NoConn
<1>3. CASE HoldFires
  <2>1. /\ ds'.open = ds.open /\ ds'.pending = ds.pending /\ ds'.finished = ds.finished
        /\ ds'.decoder = ds.decoder /\ ds'.produced = ds.produced
    BY <1>3 DEF HoldFires, TypeOK, Stream
  <2> QED BY <1>3, <2>1 DEF HoldFires, Quiet
<1>4. CASE StallFires \/ ProgressFires
  BY <1>4, StructOfEnding DEF Ending
<1> QED BY <1>1, <1>2, <1>3, <1>4 DEF Arms, ReopenFails

LEMMA StructOfReturns ==
  ASSUME Struct, Returns
  PROVE  (Places /\ OneExchange)'
<1> USE DEF Struct, Places, OneExchange, Live, Over
<1>1. CASE RecvReturns
  <2>1. /\ ds'.open = IF ds.finished THEN FALSE ELSE ds.open
        /\ ds'.pending = IF ds.finished THEN "none" ELSE ds.pending
        /\ ds'.finished = ds.finished
        /\ ds'.decoder = ds.decoder /\ ds'.produced = ds.produced
    BY <1>1, ReturnsAre
  <2> QED BY <1>1, <2>1 DEF RecvReturns, NoConn
<1>2. CASE TryRecv
  BY <1>2 DEF TryRecv
<1>3. CASE TryReturns
  <2>1. /\ ds'.open = ds.open /\ ds'.pending = ds.pending /\ ds'.finished = ds.finished
        /\ ds'.decoder = ds.decoder /\ ds'.produced = ds.produced
    <3>1. ~RecvReturns
      BY <1>3 DEF TryReturns, RecvReturns
    <3> QED BY <1>3, <3>1, ReturnsAre
  <2> QED BY <1>3, <2>1 DEF TryReturns
<1>4. CASE PollDropped
  <2>1. /\ ds'.open = ds.open /\ ds'.pending = ds.pending /\ ds'.finished = ds.finished
        /\ ds'.decoder = ds.decoder /\ ds'.produced = ds.produced
    <3>1. ~RecvReturns
      BY <1>4 DEF PollDropped, RecvReturns
    <3> QED BY <1>4, <3>1, ReturnsAre
  <2> QED BY <1>4, <2>1 DEF PollDropped
<1> QED BY <1>1, <1>2, <1>3, <1>4 DEF Returns

LEMMA StructOfRest ==
  ASSUME Struct, Rest
  PROVE  (Places /\ OneExchange)'
<1> USE DEF Struct, Places, OneExchange, Live, Over
<1>1. CASE Cancel
  BY <1>1 DEF Cancel
<1>2. CASE DropStream
  BY <1>2 DEF DropStream, NewStream, NewDecoder, NoConn
<1>3. CASE Tick
  <2>1. /\ ds'.open = ds.open /\ ds'.pending = ds.pending /\ ds'.finished = ds.finished
        /\ ds'.decoder = ds.decoder /\ ds'.produced = ds.produced
        /\ ds'.started = ds.started /\ ds'.queue = ds.queue
        /\ ds'.stall \in {ds.stall, Floor(ds.stall)}
    BY <1>3 DEF Tick, TypeOK, Stream
  <2>2. ds.stall >= 0 => Floor(ds.stall) >= 0
    <3>1. ds.stall \in Timer(StallTimeout) /\ StallTimeout \in Nat
      BY TimersAssumption DEF TypeOK, Stream
    <3> QED BY <3>1 DEF Floor, Timer, Disarmed
  <2> QED BY <1>3, <2>1, <2>2 DEF Tick, Urgent
<1>4. ASSUME NEW f \in DataFrames \cup EndRecords, UpstreamDelivers(f)
      PROVE  (Places /\ OneExchange)'
  BY <1>4 DEF UpstreamDelivers, consumerVars
<1> QED BY <1>1, <1>2, <1>3, <1>4 DEF Rest

LEMMA StructNext == Struct /\ [Next]_vars => Struct'
<1> SUFFICES ASSUME Struct, [Next]_vars PROVE TypeOK' /\ (Places /\ OneExchange)'
  BY DEF Struct
<1>1. TypeOK'
  BY TypesOfNext DEF Struct
<1>2. ASSUME UNCHANGED vars PROVE (Places /\ OneExchange)'
  <2>1. pc' = pc /\ ds' = ds /\ conn' = conn /\ seen' = seen
    BY <1>2 DEF vars, consumerVars
  <2> QED BY <2>1 DEF Struct, Places, OneExchange, Live
<1> QED BY <1>1, <1>2, StepIs, StructOfConnects, StructOfPhase, StructOfHead, StructOfReads,
           StructOfArms, StructOfReturns, StructOfRest

-----------------------------------------------------------------------------
(* The rounds of connecting *)

Bounded == Rounds /\ SendsBounded

LEMMA BoundedInit == Init => Bounded
BY TimersAssumption DEF Init, Bounded, Rounds, SendsBounded, NewStream, Connecting

LEMMA BoundedOfConnects ==
  ASSUME Struct, Bounded, Connects
  PROVE  Bounded'
<1> USE DEF Bounded, Rounds, SendsBounded, ConnLeavesRest, ConnFails, consumerVars
<1>1. /\ conn \in Conn /\ sends \in Nat /\ MaxConnectAttempts \in Nat \ {0}
      /\ conn.try \in Nat /\ conn.try < MaxConnectAttempts
      /\ ds.attempt \in Nat
  BY TimersAssumption DEF Struct, TypeOK, Conn, Stream
<1>2. CASE ConnCancelled
  BY <1>1, <1>2 DEF ConnCancelled, Conn
<1>3. CASE BackoffOver
  BY <1>1, <1>3 DEF BackoffOver, Conn
<1>4. CASE GateAdmits
  BY <1>1, <1>4 DEF GateAdmits, Conn
<1>5. CASE GateRejects
  BY <1>1, <1>5 DEF GateRejects, Conn
<1>6. CASE Send
  BY <1>1, <1>6 DEF Send, Conn
<1>7. CASE UpstreamOpens
  BY <1>1, <1>7 DEF UpstreamOpens, Conn
<1>8. ASSUME NEW err \in Failures, UpstreamFails(err)
      PROVE  Bounded'
  <2>1. /\ conn.at = "sent" /\ sends' = sends /\ ds' = ds /\ pc' = pc
        /\ \/ conn'.at = "backoff" /\ conn'.try = conn.try + 1
           \/ conn'.at = "failed" /\ conn'.try = conn.try
    BY <1>1, <1>8 DEF UpstreamFails, Conn
  <2> QED BY <1>1, <2>1
<1> QED BY <1>2, <1>3, <1>4, <1>5, <1>6, <1>7, <1>8 DEF Connects, ConnStep, UpstreamAnswers

(* A step that leaves the round of connecting and the attempt alone.       *)
LEMMA BoundedKept ==
  ASSUME Bounded, Struct, pc' = "connecting" <=> pc = "connecting",
         conn' = conn, sends' = sends,
         ds'.attempt = ds.attempt, ds'.open = ds.open, ds'.retried = ds.retried,
         ds'.pending = ds.pending, ds'.finished = ds.finished,
         pc' \in Over <=> pc \in Over
  PROVE  Bounded'
BY DEF Bounded, Rounds, SendsBounded, Live

(* A step that finishes the stream, or that leaves a finished one.         *)
LEMMA BoundedWhenFinished ==
  ASSUME Struct, Bounded, ds'.finished = TRUE, pc # "connecting", pc' # "connecting",
         conn' \in {conn, NoConn}, sends' \in {sends, 0},
         ds'.attempt = ds.attempt, ds'.open \in {ds.open, FALSE},
         (conn' = conn /\ sends' = sends) \/ conn'.at = "none",
         ds'.retried \in {ds.retried, TRUE}
  PROVE  Bounded'
<1>1. ds.attempt \in Nat /\ ds.open \in BOOLEAN /\ MaxConnectAttempts \in Nat /\ sends \in Nat
  BY TimersAssumption DEF Struct, TypeOK, Stream
<1>2. Rounds'
  BY <1>1 DEF Bounded, Rounds, NoConn
<1>3. sends' <= MaxConnectAttempts
  BY <1>1 DEF Bounded, SendsBounded
<1>4. ds'.open /\ ~ds'.retried => ds.open /\ ~ds.retried
  BY <1>1
<1>5. ds'.attempt <= IF pc' = "connecting" \/ (ds'.open /\ ~ds'.retried) THEN 2 ELSE 3
  BY <1>1, <1>4 DEF Bounded, SendsBounded
<1> QED BY <1>2, <1>3, <1>5 DEF Bounded, SendsBounded

LEMMA BoundedOfPhase ==
  ASSUME Struct, Bounded, ConnectPhase
  PROVE  Bounded'
<1> USE DEF Bounded, Rounds, SendsBounded, OpenLeavesRest, NoConn, Connecting, Live, Over
<1>1. /\ ds \in Stream /\ ds.attempt \in Nat /\ MaxConnectAttempts \in Nat \ {0}
  BY TimersAssumption DEF Struct, TypeOK, Stream
<1>2. CASE StreamOpens
  <2>1. /\ ds'.attempt = ds.attempt /\ ds'.finished = ds.finished /\ pc' = "idle"
        /\ sends' = 0 /\ conn'.at = "none" /\ pc = "connecting"
    BY <1>1, <1>2 DEF StreamOpens, Stream
  <2> QED BY <1>1, <2>1
<1>3. CASE ConnectRepairs
  <2>1. /\ ds'.attempt = 2 /\ pc' = "connecting"
        /\ sends' = 0 /\ conn'.at = "gate" /\ conn'.try = 0
    BY <1>1, <1>3 DEF ConnectRepairs, Stream
  <2> QED BY <1>1, <2>1
<1>4. CASE StreamFails
  BY <1>1, <1>4 DEF StreamFails
<1> QED BY <1>2, <1>3, <1>4 DEF ConnectPhase

LEMMA BoundedOfHead ==
  ASSUME Struct, Bounded, Heads
  PROVE  Bounded'
<1>1. ds \in Stream /\ TypeOK /\ pc \notin Over \cup {"connecting"}
  BY DEF Heads, Looping, RecvCall, HeadCancelled, HeadStarts, HeadWaits, WaitCancelled,
         Struct, TypeOK, Over
<1>2. CASE RecvCall \/ HeadStarts \/ HeadWaits
  <2>1. /\ ds'.attempt = ds.attempt /\ ds'.open = ds.open /\ ds'.retried = ds.retried
        /\ ds'.pending = ds.pending /\ ds'.finished = ds.finished
    BY <1>1, <1>2, ZenonT(30) DEF RecvCall, HeadStarts, HeadWaits, Stream
  <2>2. pc' \in {"head", "wait"} /\ conn' = conn /\ sends' = sends
    BY <1>2 DEF RecvCall, HeadStarts, HeadWaits, Looping, RecvLeavesRest
  <2> QED BY <1>1, <2>1, <2>2, BoundedKept DEF Over
<1>3. CASE EndCancelled
  <2>1. PICK s \in Stream, cause \in Ends :
          /\ ds' = Finish(s, cause)
          /\ s = [ds EXCEPT !.open = FALSE, !.pending = "none"]
    BY <1>1, <1>3, CancelIs
  <2>2. /\ ds'.finished = TRUE /\ ds'.open = s.open /\ ds'.attempt = s.attempt
        /\ ds'.retried = s.retried
    BY <2>1, FinishFields
  <2>3. s.open = FALSE /\ s.attempt = ds.attempt /\ s.retried = ds.retried
    BY <1>1, <2>1 DEF Stream
  <2>4. pc' = "head" /\ conn' = NoConn /\ sends' = sends
    BY <1>3 DEF EndCancelled, RecvLeavesRest
  <2> QED BY <1>1, <2>2, <2>3, <2>4, BoundedWhenFinished DEF NoConn
<1> QED BY <1>2, <1>3 DEF Heads, HeadCancelled, WaitCancelled

LEMMA BoundedOfEnding ==
  ASSUME Struct, Bounded, Ending
  PROVE  Bounded'
<1>1. PICK s \in Stream, cause \in {"none"} \cup Causes :
        /\ Closing(s) /\ Keeps(s)
        /\ Resends(s) \/ Finishes(s, cause)
        /\ pc \in {"wait", "drain", "try"} /\ pc' \in {"head", "pop"}
        /\ ds.pending = "none" /\ sends' = sends
  BY EndingIs DEF Struct
<1>2. /\ s.attempt = ds.attempt /\ s.retried = ds.retried /\ s.open \in {ds.open, FALSE}
  BY <1>1 DEF Closing, Struct, TypeOK, Stream
<1>3. ~ds.finished /\ conn.at = "none"
  BY <1>1 DEF Struct, Places, OneExchange
<1>4. CASE Resends(s)
  <2>1. sends = 0 /\ ds.attempt <= 2 /\ ds.attempt \in Nat /\ MaxConnectAttempts \in Nat
    BY <1>1, <1>2, <1>3, <1>4, TimersAssumption
       DEF Bounded, Rounds, Live, Over, Resends, Struct, TypeOK, Stream
  <2>2. /\ ds'.attempt = ds.attempt + 1 /\ ds'.open = FALSE /\ ds'.pending # "none"
        /\ conn'.at = "gate" /\ conn'.try = 0
    BY <1>2, <1>4 DEF Resends, Connecting, Causes, Failures, Watchdogs
  <2> QED BY <1>1, <2>1, <2>2 DEF Bounded, Rounds, SendsBounded
<1>5. CASE Finishes(s, cause)
  <2>1. cause \in Ends
    BY DEF Ends
  <2>2. ds' = Finish(s, cause) /\ conn' = conn
    BY <1>5 DEF Finishes
  <2>3. /\ ds'.finished = TRUE /\ ds'.open = s.open /\ ds'.attempt = s.attempt
        /\ ds'.retried = s.retried
    BY <2>1, <2>2, FinishFields
  <2> QED BY <1>1, <1>2, <2>2, <2>3, BoundedWhenFinished
<1> QED BY <1>1, <1>4, <1>5

LEMMA BoundedOfReads ==
  ASSUME Struct, Bounded, Reads
  PROVE  Bounded'
<1>1. CASE TakeFrame
  <2>1. PICK f \in DataFrames : ds' = Absorb(ds, f)
    BY <1>1, TakeFrameIs DEF Struct
  <2>2. ds' = Absorb(ds, f) /\ ds \in Stream
    BY <2>1 DEF Struct, TypeOK
  <2>3. /\ ds'.finished = ds.decoder.finished /\ ds'.attempt = ds.attempt
        /\ ds'.open = ds.open /\ ds'.pending = ds.pending /\ ds'.retried = ds.retried
    BY <2>2, AbsorbFields
  <2>4. /\ ds.open /\ ~ds.finished
        /\ pc \in {"wait", "drain", "try"} /\ pc' \in {"drain", "try"}
        /\ conn' = conn /\ sends' = sends
    BY <1>1, TakeFrameIs DEF Struct
  <2>5. ds.decoder.finished = ds.finished
    BY <2>2, <2>4 DEF Struct, Places, Stream
  <2> QED BY <2>3, <2>4, <2>5, BoundedKept DEF Over
<1>2. CASE TakeEnd
  BY <1>2, BoundedOfEnding DEF Ending
<1>3. CASE DrainStops
  <2>1. /\ pc \in {"drain", "try"} /\ pc' \in {"head", "pop"}
        /\ ds' = ds /\ conn' = conn /\ sends' = sends
    BY <1>3 DEF DrainStops, RecvLeavesRest
  <2> QED BY <2>1, BoundedKept DEF Over
<1> QED BY <1>1, <1>2, <1>3 DEF Reads

LEMMA BoundedOfArms ==
  ASSUME Struct, Bounded, Arms
  PROVE  Bounded'
<1>1. ds \in Stream /\ ds.attempt \in Nat /\ MaxConnectAttempts \in Nat
  BY TimersAssumption DEF Struct, TypeOK, Stream
<1>2. CASE FinishReopen /\ conn.at = "opened"
  <2>1. ds' = Adopt(ds) /\ pc' = "head" /\ conn' = NoConn /\ sends' = 0 /\ pc = "wait"
    BY <1>2 DEF FinishReopen, ReopenReturned
  <2>2. ds'.open = TRUE /\ ds'.retried = TRUE /\ ds'.attempt = ds.attempt
    BY <1>1, <2>1, AdoptFields
  <2> QED BY <1>1, <2>1, <2>2 DEF Bounded, Rounds, SendsBounded, NoConn
<1>3. CASE ReopenFails
  <2>1. PICK s \in Stream, cause \in {"none"} \cup Causes :
          /\ ds' = Finish(s, cause)
          /\ s = [ds EXCEPT !.pending = "none", !.retried = TRUE]
    BY <1>3, ReopenFailsIs DEF Struct
  <2>2. cause \in Ends
    BY DEF Ends
  <2>3. /\ ds'.finished = TRUE /\ ds'.open = s.open /\ ds'.attempt = s.attempt
        /\ ds'.retried = s.retried
    BY <2>1, <2>2, FinishFields
  <2>4. s.open = ds.open /\ s.attempt = ds.attempt /\ s.retried = TRUE
    BY <1>1, <2>1 DEF Stream
  <2>5. pc' = "head" /\ conn' = NoConn /\ sends' = 0 /\ pc = "wait"
    BY <1>3 DEF ReopenFails, FinishReopen, ReopenReturned
  <2> QED BY <2>3, <2>4, <2>5, BoundedWhenFinished DEF NoConn
<1>4. CASE HoldFires
  <2>1. /\ ds'.attempt = ds.attempt /\ ds'.open = ds.open /\ ds'.retried = ds.retried
        /\ ds'.pending = ds.pending /\ ds'.finished = ds.finished
    BY <1>1, <1>4 DEF HoldFires, Stream
  <2>2. pc = "wait" /\ pc' = "head" /\ conn' = conn /\ sends' = sends
    BY <1>4 DEF HoldFires, Quiet, ArmLeavesRest, RecvLeavesRest
  <2> QED BY <2>1, <2>2, BoundedKept DEF Over
<1>5. CASE StallFires \/ ProgressFires
  BY <1>5, BoundedOfEnding DEF Ending
<1> QED BY <1>2, <1>3, <1>4, <1>5 DEF Arms, ReopenFails

LEMMA BoundedOfReturns ==
  ASSUME Struct, Bounded, Returns
  PROVE  Bounded'
<1>1. TypeOK /\ pc \notin Over \cup {"connecting"}
  BY DEF Struct, Returns, RecvReturns, TryRecv, TryReturns, PollDropped, Over
<1>2. CASE RecvReturns
  <2>1. /\ ds'.open = IF ds.finished THEN FALSE ELSE ds.open
        /\ ds'.pending = IF ds.finished THEN "none" ELSE ds.pending
        /\ ds'.finished = ds.finished /\ ds'.attempt = ds.attempt
        /\ ds'.retried = ds.retried
    BY <1>1, <1>2, ReturnsAre
  <2>2. CASE ds.finished
    <3>1. /\ pc' \in {"idle", "ended"} /\ conn' = NoConn /\ sends' = sends
      BY <1>2, <2>2 DEF RecvReturns, RecvLeavesRest
    <3>2. ds'.finished = TRUE
      BY <2>1, <2>2 DEF Struct, TypeOK, Stream
    <3> QED BY <1>1, <2>1, <2>2, <3>1, <3>2, BoundedWhenFinished DEF NoConn
  <2>3. CASE ~ds.finished
    <3>1. /\ pc' = "idle" /\ conn' = conn /\ sends' = sends
      BY <1>2, <2>3 DEF RecvReturns, RecvLeavesRest
    <3> QED BY <1>1, <2>1, <2>3, <3>1, BoundedKept DEF Over
  <2> QED BY <2>2, <2>3
<1>3. CASE TryRecv
  <2>1. pc' \in {"pop", "try"} /\ ds' = ds /\ conn' = conn /\ sends' = sends
    BY <1>3 DEF TryRecv, RecvLeavesRest
  <2> QED BY <1>1, <2>1, BoundedKept DEF Over
<1>4. CASE TryReturns \/ PollDropped
  <2>1. ~RecvReturns /\ pc' = "idle" /\ conn' = conn /\ sends' = sends
    BY <1>4 DEF TryReturns, PollDropped, RecvReturns, RecvLeavesRest
  <2>2. /\ ds'.open = ds.open /\ ds'.pending = ds.pending
        /\ ds'.finished = ds.finished /\ ds'.attempt = ds.attempt
        /\ ds'.retried = ds.retried
    BY <1>1, <1>4, <2>1, ReturnsAre
  <2> QED BY <1>1, <2>1, <2>2, BoundedKept DEF Over
<1> QED BY <1>2, <1>3, <1>4 DEF Returns

LEMMA BoundedOfRest ==
  ASSUME Struct, Bounded, Rest
  PROVE  Bounded'
<1>1. ds \in Stream /\ sends \in Nat /\ MaxConnectAttempts \in Nat
  BY TimersAssumption DEF Struct, TypeOK
<1>2. CASE DropStream
  <2>1. /\ pc' = "dropped" /\ ds' = NewStream /\ conn' = NoConn /\ sends' = sends
    BY <1>2 DEF DropStream, historyVars
  <2> QED BY <1>1, <2>1 DEF Bounded, Rounds, SendsBounded, NewStream, NoConn, Live, Over
<1>3. CASE Cancel \/ \E f \in DataFrames \cup EndRecords : UpstreamDelivers(f)
  <2>1. pc' = pc /\ ds' = ds /\ conn' = conn /\ sends' = sends
    BY <1>3 DEF Cancel, UpstreamDelivers, historyVars, consumerVars
  <2> QED BY <2>1, BoundedKept
<1>4. CASE Tick
  <2>1. pc' = pc /\ conn' = conn /\ sends' = sends
    BY <1>4 DEF Tick
  <2>2. /\ ds'.attempt = ds.attempt /\ ds'.open = ds.open /\ ds'.retried = ds.retried
        /\ ds'.pending = ds.pending /\ ds'.finished = ds.finished
    BY <1>1, <1>4 DEF Tick, Stream
  <2> QED BY <2>1, <2>2, BoundedKept
<1> QED BY <1>2, <1>3, <1>4 DEF Rest

LEMMA BoundedNext == Struct /\ Bounded /\ [Next]_vars => Bounded'
<1> SUFFICES ASSUME Struct, Bounded, [Next]_vars PROVE Bounded'
  OBVIOUS
<1>1. ASSUME UNCHANGED vars PROVE Bounded'
  <2>1. pc' = pc /\ ds' = ds /\ conn' = conn /\ sends' = sends
    BY <1>1 DEF vars, consumerVars, historyVars
  <2> QED BY <2>1, BoundedKept
<1> QED BY <1>1, StepIs, BoundedOfConnects, BoundedOfPhase, BoundedOfHead, BoundedOfReads,
           BoundedOfArms, BoundedOfReturns, BoundedOfRest

(* retry.rs:17-26, 115-124: whatever fails, is repaired, continued or      *)
(* cancelled, a request holds one upstream exchange at a time and asks     *)
(* upstream in at most three rounds of MaxConnectAttempts calls.           *)
THEOREM ExchangesAreBounded == Spec => []ExchangesBounded
<1>1. Init => Struct /\ Bounded
  BY StructOfInit, BoundedInit
<1>2. Struct /\ Bounded /\ [Next]_vars => (Struct /\ Bounded)'
  BY StructNext, BoundedNext
<1>3. Struct /\ Bounded => ExchangesBounded
  BY DEF Struct, Bounded, ExchangesBounded
<1> QED BY <1>1, <1>2, <1>3, PTL DEF Spec

-----------------------------------------------------------------------------
(* What the client is told *)

(* An event taken from the queue has been told already.                    *)
LEMMA HeadMoves ==
  ASSUME NEW a \in Seq(Event), NEW q \in Seq(Event), q # <<>>
  PROVE  Append(a, Head(q)) \o Tail(q) = a \o q
<1>1. /\ Head(q) \in Event /\ Head(q) = q[1] /\ Tail(q) \in Seq(Event)
      /\ Len(Tail(q)) = Len(q) - 1 /\ Len(q) >= 1
      /\ \A i \in 1 .. Len(Tail(q)) : Tail(q)[i] = q[i + 1]
  BY HeadTailProperties
<1>2. Append(a, Head(q)) \in Seq(Event)
  BY <1>1
<1> DEFINE l == Append(a, Head(q)) \o Tail(q)
           r == a \o q
<1>3. /\ l \in Seq(Event) /\ Len(l) = Len(a) + 1 + Len(q) - 1
      /\ \A i \in 1 .. Len(l) : l[i] = IF i <= Len(a) + 1 THEN Append(a, Head(q))[i]
                                     ELSE Tail(q)[i - (Len(a) + 1)]
  BY <1>1, <1>2, ConcatProperties
<1>4. /\ r \in Seq(Event) /\ Len(r) = Len(a) + Len(q)
      /\ \A i \in 1 .. Len(r) : r[i] = IF i <= Len(a) THEN a[i] ELSE q[i - Len(a)]
  BY ConcatProperties
<1>5. ASSUME NEW i \in 1 .. Len(l) PROVE l[i] = r[i]
  <2>1. CASE i <= Len(a) + 1
    BY <1>1, <1>3, <1>4, <2>1
  <2>2. CASE i > Len(a) + 1
    <3>1. i - (Len(a) + 1) \in 1 .. Len(Tail(q))
      BY <1>1, <1>3, <2>2
    <3>2. Tail(q)[i - (Len(a) + 1)] = q[i - (Len(a) + 1) + 1]
      BY <1>1, <3>1
    <3> QED BY <1>1, <1>3, <1>4, <2>2, <3>2
  <2> QED BY <2>1, <2>2
<1> HIDE DEF l, r
<1>6. l = r
  BY <1>1, <1>3, <1>4, <1>5, SeqEqual, SMTT(30)
<1> QED BY <1>6 DEF l, r

(* A step adds at most two events: a start and another.                    *)
LEMMA TwoMore ==
  ASSUME NEW a \in Seq(Event), NEW w \in Seq(Event), NEW e \in Seq(Event),
         Len(w) <= 1, Len(e) <= 1, NEW told, told = a \o w \o e
  PROVE  /\ told \in Seq(Event) /\ Len(told) = Len(a) + Len(w) + Len(e)
         /\ \A i \in 1 .. Len(a) : told[i] = a[i]
         /\ Len(w) = 1 => told[Len(a) + 1] = w[1]
         /\ Len(e) = 1 => told[Len(told)] = e[1]
<1>1. /\ a \o w \in Seq(Event) /\ Len(a \o w) = Len(a) + Len(w)
      /\ \A i \in 1 .. Len(a) + Len(w) :
           (a \o w)[i] = IF i <= Len(a) THEN a[i] ELSE w[i - Len(a)]
  BY ConcatProperties
<1> DEFINE b == a \o w
<1> HIDE DEF b
<1>2. /\ b \o e \in Seq(Event) /\ Len(b \o e) = Len(b) + Len(e)
      /\ \A i \in 1 .. Len(b) + Len(e) :
           (b \o e)[i] = IF i <= Len(b) THEN b[i] ELSE e[i - Len(b)]
  BY <1>1, ConcatProperties DEF b
<1>3. b = a \o w /\ told = b \o e /\ Len(a) \in Nat /\ Len(w) \in Nat /\ Len(e) \in Nat
  BY DEF b
<1> QED BY <1>1, <1>2, <1>3

LEMMA Associative == \A a, b, c \in Seq(Event) : a \o (b \o c) = (a \o b) \o c
<1> SUFFICES ASSUME NEW a \in Seq(Event), NEW b \in Seq(Event), NEW c \in Seq(Event)
             PROVE  a \o (b \o c) = (a \o b) \o c
  OBVIOUS
<1>1. (a \o b) \o c = a \o (b \o c)
  BY ConcatAssociative, SMTT(30)
<1> QED BY <1>1

Regroups(a, q, w, e) == a \o (q \o w \o e) = (a \o q) \o w \o e

LEMMA Reassociate ==
  \A a, q, w, e \in Seq(Event) : Regroups(a, q, w, e)
<1> SUFFICES ASSUME NEW a \in Seq(Event), NEW q \in Seq(Event), NEW w \in Seq(Event),
                    NEW e \in Seq(Event)
             PROVE  a \o (q \o w \o e) = (a \o q) \o w \o e
  BY DEF Regroups
<1>1. q \o w \in Seq(Event)
  BY ConcatProperties
<1>2. \A b \in Seq(Event) : a \o (b \o e) = (a \o b) \o e
  BY Associative, ZenonT(30)
<1>3. PICK b \in Seq(Event) : b = q \o w
  BY <1>1
<1>4. a \o (b \o e) = (a \o b) \o e
  BY <1>2
<1>5. a \o (q \o w) = (a \o q) \o w
  BY Associative, ZenonT(30)
<1> QED BY <1>3, <1>4, <1>5, Zenon

(* A place in what is put together is in one of the parts.                 *)
LEMMA ThreeParts ==
  ASSUME NEW l \in Nat, NEW m \in Nat, NEW n \in Nat, m <= 1, n <= 1, NEW i \in 1 .. (l + m + n)
  PROVE  i \in 1 .. l \/ (i = l + 1 /\ m = 1) \/ (i = l + m + n /\ n = 1)
OBVIOUS

Counts(a, w, e, told) ==
  Cardinality(ContentAt(told)) =
    Cardinality(ContentAt(a)) + (IF Len(e) = 1 /\ e[1].kind = "content" THEN 1 ELSE 0)

LEMMA ContentOfTwoMore ==
  ASSUME NEW a \in Seq(Event), NEW w \in Seq(Event), NEW e \in Seq(Event),
         Len(w) <= 1, Len(e) <= 1, NEW told, told = a \o w \o e,
         Len(w) = 1 => w[1].kind # "content"
  PROVE  Counts(a, w, e, told)
<1>1. /\ told \in Seq(Event) /\ Len(told) = Len(a) + Len(w) + Len(e)
      /\ \A i \in 1 .. Len(a) : told[i] = a[i]
      /\ Len(w) = 1 => told[Len(a) + 1] = w[1]
      /\ Len(e) = 1 => told[Len(told)] = e[1]
  BY TwoMore
<1>2. /\ Len(a) \in Nat /\ Len(w) \in Nat /\ Len(e) \in Nat
      /\ DOMAIN a = 1 .. Len(a) /\ DOMAIN told = 1 .. Len(told)
  BY <1>1
<1>3. IsFiniteSet(ContentAt(a)) /\ Cardinality(ContentAt(a)) \in Nat
  <2>1. ContentAt(a) \subseteq 1 .. Len(a) /\ IsFiniteSet(1 .. Len(a))
    BY <1>2, FS_Interval DEF ContentAt
  <2> QED BY <2>1, FS_Subset, FS_CardinalityType
<1> USE DEF Counts
<1>4. CASE Len(e) = 1 /\ e[1].kind = "content"
  <2>1. ContentAt(told) = ContentAt(a) \cup {Len(told)} /\ Len(told) \notin ContentAt(a)
    BY <1>1, <1>2, <1>4 DEF ContentAt
  <2> QED BY <1>3, <1>4, <2>1, FS_AddElement
<1>5. CASE ~(Len(e) = 1 /\ e[1].kind = "content")
  <2>1. ContentAt(told) = ContentAt(a)
    <3>1. ASSUME NEW i \in 1 .. Len(told), told[i].kind = "content" PROVE i \in 1 .. Len(a)
      <4>1. CASE i = Len(told) /\ Len(e) = 1
        BY <1>1, <1>5, <3>1, <4>1
      <4>2. CASE i = Len(a) + 1 /\ Len(w) = 1
        BY <1>1, <3>1, <4>2
      <4>3. \/ i \in 1 .. Len(a)
            \/ i = Len(a) + 1 /\ Len(w) = 1
            \/ i = Len(told) /\ Len(e) = 1
        <5>1. i \in 1 .. (Len(a) + Len(w) + Len(e))
          BY <1>1
        <5>2. \/ i \in 1 .. Len(a)
              \/ i = Len(a) + 1 /\ Len(w) = 1
              \/ i = Len(a) + Len(w) + Len(e) /\ Len(e) = 1
          BY <1>2, <5>1, ThreeParts
        <5> QED BY <1>1, <5>2
      <4> QED BY <4>1, <4>2, <4>3
    <3>2. 1 .. Len(a) \subseteq 1 .. Len(told)
      BY <1>1, <1>2
    <3> QED BY <1>1, <1>2, <3>1, <3>2 DEF ContentAt
  <2> QED BY <1>3, <1>5, <2>1
<1> QED BY <1>4, <1>5

Telling == Grammar /\ Starts /\ NothingLost

LEMMA ToldTyped ==
  ASSUME TypeOK
  PROVE  /\ seen \in Seq(Event) /\ ds.queue \in Seq(Event) /\ Told \in Seq(Event)
         /\ ds.attempt \in Nat
         /\ \A i \in DOMAIN Told : Told[i] \in Event
         /\ DOMAIN Told = 1 .. Len(Told) /\ Len(Told) \in Nat
<1>1. seen \in Seq(Event) /\ ds.queue \in Seq(Event) /\ ds.attempt \in Nat
  BY DEF TypeOK, Stream
<1>2. Told \in Seq(Event)
  BY <1>1, ConcatProperties DEF Told
<1> QED BY <1>1, <1>2

(* Before any content and the end, at most the start has been told.        *)
LEMMA OnlyStart ==
  ASSUME Struct, Telling, Live, ~ds.produced, ~ds.finished
  PROVE  Len(Told) <= 1 /\ \A i \in DOMAIN Told : Told[i].kind = "start"
<1>1. /\ \A i \in DOMAIN Told : Told[i] \in Event
      /\ DOMAIN Told = 1 .. Len(Told) /\ Len(Told) \in Nat
  BY ToldTyped DEF Struct
<1>2. ASSUME NEW i \in DOMAIN Told PROVE Told[i].kind = "start" /\ i = 1
  BY <1>1 DEF Telling, Grammar, Tellable, Terminal, Event
<1> QED BY <1>1, <1>2

(* A step that tells nothing: what is queued may have been handed over.    *)
LEMMA TellingKept ==
  ASSUME Struct, Telling, Live, pc' # "dropped",
         Told' = Told, decoded' = decoded,
         ds'.finished = ds.finished, ds'.produced = ds.produced,
         \/ ds'.attempt = ds.attempt
         \/ ~ds.produced /\ ~ds.finished /\ ds'.queue = <<>>,
         \/ ds'.queue \in {ds.queue, <<>>}
         \/ ds.queue # <<>> /\ ds'.queue = Tail(ds.queue),
         Starts'
  PROVE  Telling'
<1>1. NothingLost'
  BY DEF Telling, NothingLost, Live, Over
<1>2. \A i \in DOMAIN ds'.queue : ds'.queue[i].send = ds'.attempt
  <2>1. CASE ds'.queue \in {ds.queue, <<>>}
    BY <2>1 DEF Telling, Grammar, Tellable
  <2>2. CASE ds.queue # <<>> /\ ds'.queue = Tail(ds.queue) /\ ds'.queue # <<>>
    <3>1. ds.queue \in Seq(Event)
      BY ToldTyped DEF Struct
    <3>2. \A i \in DOMAIN Tail(ds.queue) :
            i + 1 \in DOMAIN ds.queue /\ Tail(ds.queue)[i] = ds.queue[i + 1]
      BY <2>2, <3>1, HeadTailProperties
    <3> QED BY <2>2, <3>2 DEF Telling, Grammar, Tellable
  <2> QED BY <2>1, <2>2
<1>3. CASE ds'.attempt = ds.attempt
  BY <1>1, <1>2, <1>3 DEF Telling, Grammar, Tellable
<1>4. CASE ~ds.produced /\ ~ds.finished
  <2>1. \A i \in DOMAIN Told : Told[i].kind = "start"
    BY <1>4, OnlyStart
  <2> QED BY <1>1, <1>2, <1>4, <2>1 DEF Telling, Grammar, Tellable, Terminal
<1> QED BY <1>3, <1>4

(* What a step may add: a start and another event.                         *)
Adds(told, w, e, produced, finished, attempt) ==
  /\ w \in Seq(Event) /\ e \in Seq(Event) /\ Len(w) <= 1 /\ Len(e) <= 1
  /\ Len(w) = 1 => w[1].kind = "start" /\ w[1].send = attempt /\ told = <<>>
  /\ Len(e) = 1 => /\ e[1].kind \in {"content", "done", "error"}
                   /\ e[1].send = attempt
                   /\ e[1].kind = "content" => produced
                   /\ e[1].kind # "content" => finished
                   /\ e[1].kind = "error" \/ told # <<>> \/ Len(w) = 1
  /\ finished /\ produced => Len(e) = 1 /\ Terminal(e[1])

LEMMA TellableGrows ==
  ASSUME NEW told \in Seq(Event), NEW queue \in Seq(Event), NEW w, NEW e, NEW produced,
         NEW now, NEW finished, NEW attempt,
         Tellable(told, queue, produced, FALSE, attempt), produced => now,
         Adds(told, w, e, now, finished, attempt)
  PROVE  Tellable(told \o w \o e, queue \o w \o e, now, finished, attempt)
<1> DEFINE more == told \o w \o e
           queued == queue \o w \o e
<1>1. /\ w \in Seq(Event) /\ e \in Seq(Event) /\ Len(w) <= 1 /\ Len(e) <= 1
      /\ Len(w) \in Nat /\ Len(e) \in Nat /\ Len(told) \in Nat /\ Len(queue) \in Nat
      /\ DOMAIN told = 1 .. Len(told) /\ DOMAIN queue = 1 .. Len(queue)
  BY LenProperties DEF Adds
<1>2. /\ more \in Seq(Event) /\ Len(more) = Len(told) + Len(w) + Len(e)
      /\ \A i \in 1 .. Len(told) : more[i] = told[i]
      /\ Len(w) = 1 => more[Len(told) + 1] = w[1]
      /\ Len(e) = 1 => more[Len(more)] = e[1]
  BY <1>1, TwoMore
<1>3. /\ queued \in Seq(Event) /\ Len(queued) = Len(queue) + Len(w) + Len(e)
      /\ \A i \in 1 .. Len(queue) : queued[i] = queue[i]
      /\ Len(w) = 1 => queued[Len(queue) + 1] = w[1]
      /\ Len(e) = 1 => queued[Len(queued)] = e[1]
  BY <1>1, TwoMore
<1>4. DOMAIN more = 1 .. Len(more) /\ DOMAIN queued = 1 .. Len(queued)
  BY <1>2, <1>3, LenProperties
<1> HIDE DEF more, queued
<1>5. ASSUME NEW i \in DOMAIN queued PROVE queued[i].send = attempt
  <2>1. i \in 1 .. (Len(queue) + Len(w) + Len(e))
    BY <1>3, <1>4
  <2>2. \/ i \in 1 .. Len(queue)
        \/ i = Len(queue) + 1 /\ Len(w) = 1
        \/ i = Len(queue) + Len(w) + Len(e) /\ Len(e) = 1
    BY <1>1, <2>1, ThreeParts
  <2>3. CASE i \in 1 .. Len(queue)
    BY <1>1, <1>3, <2>3 DEF Tellable
  <2>4. CASE i = Len(queue) + 1 /\ Len(w) = 1
    BY <1>3, <2>4 DEF Adds
  <2>5. CASE i = Len(queued) /\ Len(e) = 1
    BY <1>3, <2>5 DEF Adds
  <2> QED BY <1>3, <2>2, <2>3, <2>4, <2>5
<1>6. ASSUME NEW i \in DOMAIN more
      PROVE  /\ more[i].kind = "start" => i = 1
             /\ Terminal(more[i]) => i = Len(more) /\ finished
             /\ more[i].kind = "content" => now
             /\ more[i].kind \in {"content", "done"} => more[i].send = attempt
  <2>1. i \in 1 .. (Len(told) + Len(w) + Len(e))
    BY <1>2, <1>4
  <2>2. \/ i \in 1 .. Len(told)
        \/ i = Len(told) + 1 /\ Len(w) = 1
        \/ i = Len(told) + Len(w) + Len(e) /\ Len(e) = 1
    BY <1>1, <2>1, ThreeParts
  <2>3. CASE i \in 1 .. Len(told)
    <3>1. i \in DOMAIN told /\ more[i] = told[i]
      BY <1>1, <1>2, <2>3
    <3> QED BY <3>1 DEF Tellable
  <2>4. CASE i = Len(told) + 1 /\ Len(w) = 1
    <3>1. more[i].kind = "start" /\ told = <<>>
      BY <1>2, <2>4 DEF Adds
    <3>2. i = 1
      BY <2>4, <3>1
    <3> QED BY <3>1, <3>2 DEF Terminal
  <2>5. CASE i = Len(more) /\ Len(e) = 1
    <3>1. more[i] = e[1]
      BY <1>2, <2>5
    <3> QED BY <2>5, <3>1 DEF Adds, Terminal
  <2> QED BY <1>2, <2>2, <2>3, <2>4, <2>5
<1>7. more # <<>> => more[1].kind \in {"start", "error"}
  <2>1. CASE told # <<>>
    <3>1. 1 \in 1 .. Len(told)
      BY <2>1
    <3> QED BY <1>2, <2>1, <3>1 DEF Tellable
  <2>2. CASE told = <<>>
    <3>1. Len(told) = 0
      BY <2>2
    <3>2. CASE Len(w) = 1
      BY <1>2, <3>1, <3>2 DEF Adds
    <3>3. CASE Len(w) = 0 /\ Len(e) = 1
      <4>1. Len(more) = 1
        BY <1>2, <3>1, <3>3
      <4> QED BY <1>2, <2>2, <3>3, <4>1 DEF Adds
    <3>4. CASE Len(w) = 0 /\ Len(e) = 0
      BY <1>2, <3>1, <3>4
    <3>5. (Len(w) = 0 \/ Len(w) = 1) /\ (Len(e) = 0 \/ Len(e) = 1)
      <4>1. \A n \in Nat : n <= 1 => n = 0 \/ n = 1
        OBVIOUS
      <4> QED BY <1>1, <4>1, Zenon
    <3> QED BY <3>2, <3>3, <3>4, <3>5
  <2> QED BY <2>1, <2>2
<1>8. finished /\ now => more # <<>> /\ Terminal(more[Len(more)])
  <2>1. Len(e) = 1 => more[Len(more)] = e[1] /\ Len(more) > 0
    BY <1>1, <1>2
  <2> QED BY <2>1 DEF Adds
<1>9. Tellable(more, queued, now, finished, attempt)
  BY <1>5, <1>6, <1>7, <1>8 DEF Tellable
<1> QED BY <1>9 DEF more, queued

LEMMA ToldGrows ==
  ASSUME TypeOK, NEW w \in Seq(Event), NEW e \in Seq(Event), Len(w) <= 1, Len(e) <= 1,
         seen' = seen, ds'.queue = ds.queue \o w \o e
  PROVE  /\ Told' = Told \o w \o e
         /\ Len(w) = 1 \/ Len(e) = 1 \/ Told # <<>> => Told' # <<>>
<1>1. seen \in Seq(Event) /\ ds.queue \in Seq(Event) /\ Told \in Seq(Event) /\ Len(Told) \in Nat
  BY ToldTyped
<1>2. Told' = Told \o w \o e
  <2>1. Regroups(seen, ds.queue, w, e)
    BY <1>1, Reassociate
  <2> QED BY <2>1, Zenon DEF Told, Regroups
<1>3. Len(Told') = Len(Told) + Len(w) + Len(e)
  <2> HIDE DEF Told
  <2> QED BY <1>1, <1>2, TwoMore
<1>4. Len(w) \in Nat /\ Len(e) \in Nat /\ (Told # <<>> => Len(Told) > 0)
  BY <1>1, EmptySeq, LenProperties
<1>5. \A l, m, n \in Nat : m = 1 \/ n = 1 \/ l > 0 => l + m + n # 0
  OBVIOUS
<1>6. Len(w) = 1 \/ Len(e) = 1 \/ Told # <<>> => Len(Told) + Len(w) + Len(e) # 0
  BY <1>1, <1>4, <1>5, Zenon
<1>7. Len(<<>>) = 0
  BY EmptySeq
<1> QED BY <1>2, <1>3, <1>6, <1>7, Zenon

(* A step that tells something: a start, content or the end.               *)
LEMMA TellingMore ==
  ASSUME Struct, Telling, Live, pc' # "dropped",
         NEW w, NEW e, Adds(Told, w, e, ds'.produced, ds'.finished, ds.attempt),
         seen' = seen, ds'.queue = ds.queue \o w \o e,
         ds'.attempt = ds.attempt, ~ds.finished, ds.produced => ds'.produced,
         decoded' = decoded + (IF Len(e) = 1 /\ e[1].kind = "content" THEN 1 ELSE 0),
         Starts'
  PROVE  Telling'
<1>1. /\ w \in Seq(Event) /\ e \in Seq(Event) /\ Len(w) <= 1 /\ Len(e) <= 1
      /\ Len(w) = 1 => w[1].kind # "content"
  BY DEF Adds
<1>2. /\ seen \in Seq(Event) /\ ds.queue \in Seq(Event) /\ Told \in Seq(Event)
  BY ToldTyped DEF Struct
<1>3. Told' = Told \o w \o e
  BY <1>1, ToldGrows DEF Struct
<1>4. Tellable(Told \o w \o e, ds.queue \o w \o e, ds'.produced, ds'.finished, ds.attempt)
  <2>1. ds.finished = FALSE
    BY DEF Struct, TypeOK, Stream
  <2>2. Tellable(Told, ds.queue, ds.produced, FALSE, ds.attempt)
    BY <2>1 DEF Telling, Grammar, Tellable
  <2> HIDE DEF Told
  <2> QED BY <1>2, <2>2, TellableGrows
<1>5. Grammar'
  BY <1>3, <1>4 DEF Grammar
<1>6. NothingLost'
  <2>1. Counts(Told, w, e, Told')
    <3> HIDE DEF Told
    <3> QED BY <1>1, <1>2, <1>3, ContentOfTwoMore
  <2>2. decoded = Cardinality(ContentAt(Told))
    BY DEF Telling, NothingLost, Live, Over
  <2> QED BY <2>1, <2>2 DEF NothingLost, Counts
<1> QED BY <1>5, <1>6 DEF Telling

(* A stream that has produced nothing still withholds its start.           *)
Whole == /\ ds.pendingStart => Told = <<>>
         /\ ~ds.pendingStart => Told # <<>>

LEMMA WholeWhenOpen ==
  ASSUME Struct, Telling, Live, ds.open, ds.started, ~ds.finished
  PROVE  Whole
BY DEF Telling, Starts, Whole

(* What finishing a stream tells.                                          *)
LEMMA FinishTells ==
  ASSUME Struct, Telling, Live, ~ds.finished, pc' # "dropped",
         NEW s \in Stream, NEW cause \in Ends, ds' = Finish(s, cause),
         s.queue = ds.queue, s.attempt = ds.attempt, s.decoder = ds.decoder,
         s.produced = ds.produced, s.pendingStart = ds.pendingStart, s.started = ds.started,
         ds.produced => ~ds.decoder.finished,
         cause = "none" => ds.decoder.finished \/ Whole,
         seen' = seen, decoded' = decoded
  PROVE  Telling'
<1> DEFINE e == FinishOf(s, cause)
           w == Withheld(s, e)
<1>1. /\ ds'.finished = TRUE /\ ds'.attempt = ds.attempt /\ ds'.started = ds.started
      /\ ds'.produced = ds.produced
      /\ ds'.pendingStart = (ds.pendingStart /\ e = <<>>)
      /\ ds'.queue = ds.queue \o w \o e
  <2>1. /\ ds'.finished = TRUE /\ ds'.attempt = s.attempt /\ ds'.started = s.started
        /\ ds'.produced = s.produced
        /\ ds'.pendingStart = (s.pendingStart /\ e = <<>>)
        /\ ds'.queue = s.queue \o w \o e
    <3>1. /\ Finish(s, cause).finished = TRUE /\ Finish(s, cause).attempt = s.attempt
          /\ Finish(s, cause).started = s.started
          /\ Finish(s, cause).produced = s.produced
      BY FinishFields
    <3>2. Finish(s, cause).pendingStart = (s.pendingStart /\ e = <<>>)
      BY FinishFields
    <3>3. Finish(s, cause).queue = s.queue \o w \o e
      BY FinishFields, Zenon
    <3> HIDE DEF e, w
    <3> QED BY <3>1, <3>2, <3>3
  <2> HIDE DEF e, w
  <2> QED BY <2>1
<1>2. e \in Seq(Event) /\ w \in Seq(Event)
  BY FinishOfTyped, WithheldIs
<1>3. \/ e = <<>> /\ ds.decoder.finished
      \/ \E x \in Event : /\ ~ds.decoder.finished
                         /\ e = <<x>> /\ x.send = ds.attempt
                         /\ \/ x.kind = "error"
                            \/ x.kind = "done" /\ cause = "none"
  BY FinishOfIs
<1>4. \/ w = <<>>
      \/ /\ w = <<[kind |-> "start", send |-> ds.attempt, cause |-> "none"]>>
         /\ ds.pendingStart /\ e # <<>> /\ Head(e).kind # "error"
  BY WithheldIs DEF Withheld
<1>5. ds.pendingStart /\ e # <<>> /\ Head(e).kind # "error" => Len(w) = 1
  BY DEF Withheld
<1> HIDE DEF e, w
<1>6. e # <<>> /\ Head(e).kind # "error" => cause = "none" /\ ~ds.decoder.finished
  BY <1>3
<1>7. Len(w) <= 1 /\ (Len(w) = 1 => w[1].kind = "start" /\ w[1].send = ds.attempt /\ w # <<>>)
  <2>1. CASE w = <<>>
    BY <2>1
  <2>2. CASE w = <<[kind |-> "start", send |-> ds.attempt, cause |-> "none"]>>
    BY <2>2
  <2> QED BY <1>4, <2>1, <2>2
<1>8. /\ Len(e) <= 1
      /\ Len(e) = 1 => /\ e[1].kind \in {"done", "error"} /\ e[1].send = ds.attempt
                       /\ Head(e) = e[1] /\ e # <<>>
      /\ ~ds.decoder.finished => Len(e) = 1
  <2>1. CASE e = <<>> /\ ds.decoder.finished
    BY <2>1
  <2>2. ASSUME NEW x \in Event, e = <<x>>, x.send = ds.attempt, x.kind \in {"done", "error"}
        PROVE  /\ Len(e) = 1 /\ e[1] = x /\ Head(e) = e[1] /\ e # <<>>
    BY <2>2
  <2>3. CASE \E x \in Event : e = <<x>> /\ x.send = ds.attempt /\ x.kind \in {"done", "error"}
    <3>1. PICK x \in Event : e = <<x>> /\ x.send = ds.attempt /\ x.kind \in {"done", "error"}
      BY <2>3
    <3>2. Len(e) = 1 /\ e[1] = x /\ Head(e) = e[1] /\ e # <<>>
      BY <2>2, <3>1
    <3> QED BY <3>1, <3>2
  <2> QED BY <1>3, <2>1, <2>3
<1>9. Adds(Told, w, e, ds'.produced, ds'.finished, ds.attempt)
  <2>2. Len(w) = 1 => Told = <<>>
    BY <1>4, <1>6, <1>7 DEF Whole
  <2>4. Len(e) = 1 /\ e[1].kind # "error" => Told # <<>> \/ Len(w) = 1
    BY <1>6, <1>5, <1>8 DEF Whole
  <2>5. ds'.produced => Len(e) = 1
    BY <1>1, <1>8
  <2> QED BY <1>1, <1>2, <1>7, <1>8, <2>2, <2>4, <2>5 DEF Adds, Terminal
<1>10. Told # <<>> => Told' # <<>>
  BY <1>1, <1>2, <1>9, ToldGrows DEF Adds, Struct
<1>11. Starts'
  BY <1>1, <1>10 DEF Telling, Starts
<1>12. decoded' = decoded + (IF Len(e) = 1 /\ e[1].kind = "content" THEN 1 ELSE 0)
  <2>1. decoded \in Nat /\ ~(Len(e) = 1 /\ e[1].kind = "content")
    BY <1>8 DEF Struct, TypeOK
  <2> QED BY <2>1
<1> QED BY <1>1, <1>9, <1>11, <1>12, TellingMore

LEMMA TellingOfFrame ==
  ASSUME Struct, Telling, TakeFrame
  PROVE  Telling'
<1>1. PICK f \in DataFrames : ds' = Absorb(ds, f) /\ decoded' = decoded + Len(ContentOf(ds, f))
  BY TakeFrameIs DEF Struct
<1>2. /\ ds \in Stream /\ pc \in {"wait", "drain", "try"} /\ pc' \in {"drain", "try"}
      /\ ds.open /\ ~ds.finished /\ seen' = seen
  BY TakeFrameIs DEF Struct, TypeOK
<1>3. Live /\ ds.started /\ ~ds.decoder.finished /\ ds.decoder.finished \in BOOLEAN
  BY <1>2 DEF Struct, Places, Live, Over, Stream
<1> DEFINE e == ContentOf(ds, f)
           w == Withheld(ds, e)
<1>4. /\ ds'.finished = ds.decoder.finished /\ ds'.attempt = ds.attempt
      /\ ds'.open = ds.open /\ ds'.pending = ds.pending /\ ds'.started = ds.started
      /\ ds'.startReleased = ds.startReleased
      /\ ds'.produced = (ds.produced \/ e # <<>>)
      /\ ds'.pendingStart = (ds.pendingStart /\ e = <<>>)
      /\ ds'.queue = ds.queue \o w \o e
  <2>1. /\ Absorb(ds, f).finished = ds.decoder.finished /\ Absorb(ds, f).attempt = ds.attempt
        /\ Absorb(ds, f).open = ds.open /\ Absorb(ds, f).pending = ds.pending
        /\ Absorb(ds, f).started = ds.started
        /\ Absorb(ds, f).startReleased = ds.startReleased
    BY <1>2, AbsorbFields
  <2>2. Absorb(ds, f).produced = (ds.produced \/ e # <<>>)
    BY <1>2, AbsorbFields
  <2>3. Absorb(ds, f).pendingStart = (ds.pendingStart /\ e = <<>>)
    BY <1>2, AbsorbFields
  <2>4. Absorb(ds, f).queue = ds.queue \o w \o e
    BY <1>2, AbsorbFields, Zenon
  <2> HIDE DEF e, w
  <2> QED BY <1>1, <2>1, <2>2, <2>3, <2>4
<1>5. e \in Seq(Event) /\ w \in Seq(Event)
  BY <1>2, ContentOfTyped, WithheldIs
<1>6. e = <<>> \/ e = <<[kind |-> "content", send |-> ds.attempt, cause |-> "none"]>>
  BY <1>2, ContentOfIs
<1>7. \/ w = <<>>
      \/ /\ w = <<[kind |-> "start", send |-> ds.attempt, cause |-> "none"]>>
         /\ ds.pendingStart /\ e # <<>>
  BY <1>2, <1>5, WithheldIs DEF Withheld
<1>8. ds.pendingStart /\ e # <<>> /\ Head(e).kind # "error" => Len(w) = 1
  BY DEF Withheld
<1>9. Whole
  BY <1>2, <1>3, WholeWhenOpen
<1> HIDE DEF e, w
<1>10. Len(w) <= 1 /\ (Len(w) = 1 => w[1].kind = "start" /\ w[1].send = ds.attempt /\ w # <<>>)
  <2>1. CASE w = <<>>
    BY <2>1
  <2>2. CASE w = <<[kind |-> "start", send |-> ds.attempt, cause |-> "none"]>>
    BY <2>2
  <2> QED BY <1>7, <2>1, <2>2
<1>11. \/ e = <<>> /\ Len(e) = 0
       \/ /\ e # <<>> /\ Len(e) = 1 /\ e[1].kind = "content" /\ e[1].send = ds.attempt
          /\ Head(e).kind = "content"
  BY <1>6
<1>12. Len(e) <= 1
  <2>1. CASE e = <<>>
    BY <2>1
  <2>2. CASE e = <<[kind |-> "content", send |-> ds.attempt, cause |-> "none"]>>
    BY <2>2
  <2> QED BY <1>6, <2>1, <2>2
<1>13. Adds(Told, w, e, ds'.produced, ds'.finished, ds.attempt)
  <2>1. Len(w) = 1 => Told = <<>>
    BY <1>7, <1>9, <1>10 DEF Whole
  <2>2. Len(e) = 1 => Told # <<>> \/ Len(w) = 1
    BY <1>8, <1>9, <1>11 DEF Whole
  <2>3. ds'.finished = FALSE
    BY <1>3, <1>4
  <2>4. Len(e) = 1 => ds'.produced
    <3>1. Len(e) = 1 => e # <<>>
      BY <1>11
    <3> QED BY <1>4, <3>1
  <2> QED BY <1>5, <1>10, <1>11, <1>12, <2>1, <2>2, <2>3, <2>4 DEF Adds
<1>14. CASE e # <<>>
  <2>1. Told' # <<>>
    <3>1. Len(e) = 1 /\ Len(w) <= 1 /\ Len(e) <= 1
      BY <1>10, <1>11, <1>14, <1>12, Zenon
    <3>2. TypeOK /\ seen' = seen /\ ds'.queue = ds.queue \o w \o e
      BY <1>2, <1>4 DEF Struct
    <3> QED BY <1>5, <3>1, <3>2, ToldGrows
  <2>2. Starts'
    BY <1>3, <1>4, <1>14, <2>1 DEF Starts
  <2>3. decoded' = decoded + (IF Len(e) = 1 /\ e[1].kind = "content" THEN 1 ELSE 0)
    BY <1>1, <1>11, <1>14 DEF e
  <2> QED BY <1>2, <1>3, <1>4, <1>13, <2>2, <2>3, TellingMore DEF Over
<1>15. CASE e = <<>>
  <2>1. w = <<>> /\ ds'.queue = ds.queue
    <3>1. w = <<>>
      BY <1>7, <1>15
    <3>2. ds.queue \in Seq(Event)
      BY <1>2 DEF Stream
    <3>3. ds.queue \o <<>> = ds.queue
      BY <3>2, ConcatEmptySeq
    <3> QED BY <1>4, <1>15, <3>1, <3>3
  <2>2. Told' = Told /\ decoded' = decoded
    <3>1. decoded \in Nat /\ Len(ContentOf(ds, f)) = 0
      BY <1>11, <1>15 DEF e, Struct, TypeOK
    <3> QED BY <1>1, <1>2, <2>1, <3>1 DEF Told
  <2>3. /\ ds'.finished = FALSE /\ ds.finished = FALSE /\ ds'.produced = ds.produced
        /\ ds'.pendingStart = ds.pendingStart
    BY <1>2, <1>3, <1>4, <1>15 DEF Stream
  <2>4. Starts'
    BY <1>2, <1>3, <1>4, <2>1, <2>2, <2>3 DEF Telling, Starts
  <2> QED BY <1>2, <1>3, <1>4, <2>1, <2>2, <2>3, <2>4, TellingKept
<1> QED BY <1>14, <1>15

LEMMA TellingOfEnding ==
  ASSUME Struct, Telling, Ending
  PROVE  Telling'
<1>1. PICK s \in Stream, cause \in {"none"} \cup Causes :
        /\ Closing(s) /\ Keeps(s)
        /\ Resends(s) \/ Finishes(s, cause)
        /\ pc \in {"wait", "drain", "try"} /\ pc' \in {"head", "pop"}
        /\ ds.pending = "none" /\ seen' = seen /\ decoded' = decoded
  BY EndingIs DEF Struct
<1>2. /\ s.queue = ds.queue /\ s.attempt = ds.attempt /\ s.decoder = ds.decoder
      /\ s.produced = ds.produced /\ s.pendingStart = ds.pendingStart /\ s.started = ds.started
      /\ s.finished = ds.finished /\ s.startReleased = ds.startReleased
  BY <1>1 DEF Closing, Struct, TypeOK, Stream
<1>3. Live /\ ~ds.finished /\ ds.started /\ ds.open /\ ~ds.decoder.finished
  BY <1>1 DEF Struct, Places, Live, Over
<1>4. CASE Resends(s)
  <2>1. /\ ~ds.produced /\ ds'.open = FALSE /\ ds'.finished = ds.finished
        /\ ds'.queue = ds.queue /\ ds'.startReleased = ds.startReleased
        /\ ds'.produced = ds.produced /\ ds'.started = ds.started
    BY <1>1, <1>2, <1>4 DEF Resends, Keeps
  <2>2. ds.queue = <<>>
    BY <1>1, <1>3, <2>1 DEF Telling, Starts
  <2>3. Told' = Told
    BY <1>1, <2>1 DEF Told
  <2>4. Starts'
    BY <1>3, <2>1, <2>2, <2>3 DEF Telling, Starts
  <2> QED BY <1>1, <1>3, <2>1, <2>2, <2>3, <2>4, TellingKept
<1>5. CASE Finishes(s, cause)
  <2>1. cause \in Ends /\ ds' = Finish(s, cause) /\ pc' # "dropped"
    BY <1>1, <1>5 DEF Ends, Finishes
  <2>2. Whole
    BY <1>3, WholeWhenOpen
  <2> QED BY <1>1, <1>2, <1>3, <2>1, <2>2, FinishTells
<1> QED BY <1>1, <1>4, <1>5

LEMMA TellingInit == Init => Telling
<1> SUFFICES ASSUME Init PROVE Telling
  OBVIOUS
<1>1. /\ seen = <<>> /\ ds.queue = <<>> /\ ds.produced = FALSE /\ ds.finished = FALSE
      /\ ds.startReleased = FALSE /\ ds.started = FALSE /\ decoded = 0
  BY DEF Init, NewStream
<1>2. Told = <<>>
  BY <1>1 DEF Told
<1>3. ContentAt(Told) = {}
  BY <1>2 DEF ContentAt
<1>4. Cardinality(ContentAt(Told)) = 0
  BY <1>3, FS_EmptySet
<1> HIDE DEF Told
<1> QED BY <1>1, <1>2, <1>4 DEF Telling, Grammar, Tellable, Starts, NothingLost

(* A step that touches nothing of what the client sees.                    *)
LEMMA TellingUntouched ==
  ASSUME Struct, Telling, seen' = seen, decoded' = decoded,
         \/ pc' = pc
         \/ Live /\ pc' # "dropped" /\ pc # "head",
         ds'.queue = ds.queue, ds'.attempt = ds.attempt, ds'.open = ds.open,
         ds'.finished = ds.finished, ds'.produced = ds.produced,
         ds'.started = ds.started, ds'.pendingStart = ds.pendingStart,
         ds'.startReleased = ds.startReleased
  PROVE  Telling'
<1>1. Told' = Told
  BY DEF Told
<1> HIDE DEF Told
<1>2. (pc # "dropped" \/ pc' = pc) /\ (Live' => Live) /\ (pc = "head" => pc' = "head")
  BY DEF Live, Over
<1> QED BY <1>1, <1>2 DEF Telling, Grammar, Starts, NothingLost

LEMMA TellingOfConnects ==
  ASSUME Struct, Telling, Connects
  PROVE  Telling'
<1>1. UNCHANGED <<pc, ds, seen, decoded>>
  BY ConnMoves DEF Struct, Connects
<1> QED BY <1>1, TellingUntouched

LEMMA TellingOfPhase ==
  ASSUME Struct, Telling, ConnectPhase
  PROVE  Telling'
<1>1. /\ pc = "connecting" /\ pc' # "dropped" /\ seen' = seen /\ decoded' = decoded
      /\ seen = <<>> /\ ds = [NewStream EXCEPT !.attempt = ds.attempt]
  BY DEF ConnectPhase, StreamOpens, ConnectRepairs, StreamFails, OpenLeavesRest, Struct, Places
<1>2. /\ ds.queue = <<>> /\ ds.produced = FALSE /\ ds.finished = FALSE
      /\ ds.startReleased = FALSE /\ ds.started = FALSE
  BY <1>1 DEF NewStream
<1>3. /\ ds'.queue = ds.queue /\ ds'.produced = ds.produced /\ ds'.finished = ds.finished
      /\ ds'.startReleased = ds.startReleased /\ ds'.started = ds.started
  BY DEF ConnectPhase, StreamOpens, ConnectRepairs, StreamFails, Struct, TypeOK, Stream
<1>4. Told = <<>> /\ Told' = <<>>
  BY <1>1, <1>2, <1>3 DEF Told
<1> HIDE DEF Told
<1>5. Starts'
  BY <1>2, <1>3, <1>4 DEF Starts
<1> QED BY <1>1, <1>2, <1>3, <1>4, <1>5, TellingKept DEF Live, Over

LEMMA TellingOfHead ==
  ASSUME Struct, Telling, Heads
  PROVE  Telling'
<1>1. ds \in Stream /\ TypeOK /\ Live
  BY DEF Heads, Looping, RecvCall, HeadCancelled, HeadStarts, HeadWaits, WaitCancelled,
         Struct, TypeOK, Over, Live
<1>2. CASE RecvCall
  <2>1. /\ ds'.queue = ds.queue /\ ds'.attempt = ds.attempt /\ ds'.open = ds.open
        /\ ds'.finished = ds.finished /\ ds'.produced = ds.produced
        /\ ds'.started = ds.started /\ ds'.pendingStart = ds.pendingStart
        /\ ds'.startReleased = ds.startReleased
    BY <1>1, <1>2 DEF RecvCall, Stream
  <2>2. pc = "idle" /\ pc' = "head" /\ seen' = seen /\ decoded' = decoded
    BY <1>2 DEF RecvCall
  <2> QED BY <1>1, <2>1, <2>2, TellingUntouched
<1>3. CASE HeadStarts
  <2>1. /\ ds'.queue = ds.queue /\ ds'.attempt = ds.attempt /\ ds'.open = ds.open
        /\ ds'.finished = ds.finished /\ ds'.produced = ds.produced
        /\ ds'.started = TRUE /\ ds'.pendingStart = ~ds.startReleased
        /\ ds'.startReleased = ds.startReleased
    BY <1>1, <1>3 DEF HeadStarts, Stream
  <2>2. /\ pc = "head" /\ pc' = "head" /\ seen' = seen /\ decoded' = decoded
        /\ ~ds.started /\ ds.queue = <<>> /\ ~ds.finished
    BY <1>3 DEF HeadStarts, Looping
  <2>3. Told' = Told
    BY <2>1, <2>2 DEF Told
  <2> HIDE DEF Told
  <2>4. ~ds.produced /\ ds.startReleased \in BOOLEAN
    BY <1>1, <2>2 DEF Telling, Starts, Stream
  <2>5. Starts'
    BY <1>1, <2>1, <2>2, <2>3, <2>4 DEF Telling, Starts
  <2> QED BY <1>1, <2>1, <2>2, <2>3, <2>5, TellingKept
<1>4. CASE HeadWaits
  <2>1. /\ ds'.queue = ds.queue /\ ds'.attempt = ds.attempt /\ ds'.open = ds.open
        /\ ds'.finished = ds.finished /\ ds'.produced = ds.produced
        /\ ds'.started = ds.started /\ ds'.pendingStart = ds.pendingStart
        /\ ds'.startReleased = ds.startReleased
    BY <1>1, <1>4 DEF HeadWaits, Stream
  <2>2. /\ pc' = "wait" /\ seen' = seen /\ decoded' = decoded /\ ds.queue = <<>>
    BY <1>4 DEF HeadWaits, Looping
  <2>3. Told' = Told
    BY <2>1, <2>2 DEF Told
  <2> HIDE DEF Told
  <2>4. Starts'
    BY <1>1, <2>1, <2>2, <2>3 DEF Telling, Starts
  <2> QED BY <1>1, <2>1, <2>2, <2>3, <2>4, TellingKept
<1>5. CASE EndCancelled /\ pc \in {"head", "wait"} /\ ~ds.finished
  <2>1. PICK s \in Stream, cause \in Ends :
          /\ cause = "cancelled" /\ ds' = Finish(s, cause)
          /\ s = [ds EXCEPT !.open = FALSE, !.pending = "none"]
    BY <1>1, <1>5, CancelIs
  <2>2. /\ s.queue = ds.queue /\ s.attempt = ds.attempt /\ s.decoder = ds.decoder
        /\ s.produced = ds.produced /\ s.pendingStart = ds.pendingStart
        /\ s.started = ds.started
    BY <1>1, <2>1 DEF Stream
  <2>3. pc' = "head" /\ seen' = seen /\ decoded' = decoded
    BY <1>5 DEF EndCancelled
  <2>4. ds.produced => ~ds.decoder.finished
    BY <1>1, <1>5 DEF Struct, Places
  <2> QED BY <1>1, <1>5, <2>1, <2>2, <2>3, <2>4, FinishTells
<1>6. HeadCancelled \/ WaitCancelled => EndCancelled /\ pc \in {"head", "wait"} /\ ~ds.finished
  BY DEF HeadCancelled, WaitCancelled, Looping, Struct, Places
<1> QED BY <1>2, <1>3, <1>4, <1>5, <1>6 DEF Heads

LEMMA TellingOfReads ==
  ASSUME Struct, Telling, Reads
  PROVE  Telling'
<1>1. CASE DrainStops
  <2>1. /\ pc \in {"drain", "try"} /\ pc' \in {"head", "pop"}
        /\ UNCHANGED <<ds, seen, decoded>>
    BY <1>1 DEF DrainStops
  <2> QED BY <2>1, TellingUntouched DEF Live, Over
<1> QED BY <1>1, TellingOfFrame, TellingOfEnding DEF Reads, Ending

LEMMA TellingOfArms ==
  ASSUME Struct, Telling, Arms
  PROVE  Telling'
<1>1. CASE FinishReopen /\ conn.at = "opened"
  <2>1. /\ ds' = Adopt(ds) /\ ds \in Stream /\ pc = "wait" /\ pc' = "head" /\ seen' = seen
        /\ decoded' = decoded /\ ds.pending # "none"
    BY <1>1 DEF FinishReopen, ReopenReturned, Struct, TypeOK
  <2>2. /\ ds'.finished = FALSE /\ ds'.attempt = ds.attempt /\ ds'.started = FALSE
        /\ ds'.startReleased = ds.startReleased /\ ds'.produced = ds.produced
        /\ ds'.queue = <<>>
    BY <2>1, AdoptFields
  <2>3. ds.queue = <<>> /\ ~ds.finished /\ ds.finished = FALSE /\ ~ds.produced /\ Live
    BY <2>1 DEF Struct, Places, Stream, Live, Over
  <2>4. Told' = Told
    BY <2>1, <2>2, <2>3 DEF Told
  <2> HIDE DEF Told
  <2>5. Starts'
    BY <2>2, <2>3, <2>4 DEF Telling, Starts
  <2> QED BY <2>1, <2>2, <2>3, <2>4, <2>5, TellingKept
<1>2. CASE ReopenFails
  <2>1. PICK s \in Stream, cause \in {"none"} \cup Causes :
          /\ ds' = Finish(s, cause)
          /\ s = [ds EXCEPT !.pending = "none", !.retried = TRUE]
          /\ cause = "none" => ds.pending = "continue"
    BY <1>2, ReopenFailsIs DEF Struct
  <2>2. /\ s.queue = ds.queue /\ s.attempt = ds.attempt /\ s.decoder = ds.decoder
        /\ s.produced = ds.produced /\ s.pendingStart = ds.pendingStart
        /\ s.started = ds.started
    BY <2>1 DEF Struct, TypeOK, Stream
  <2>3. /\ pc = "wait" /\ pc' = "head" /\ seen' = seen /\ decoded' = decoded
        /\ ds.pending # "none"
    BY <1>2 DEF ReopenFails, FinishReopen, ReopenReturned
  <2>4. /\ ~ds.produced /\ (ds.pending = "continue" => ds.decoder.finished) /\ ~ds.finished
        /\ Live
    BY <2>3 DEF Struct, Places, Live, Over
  <2>5. cause \in Ends
    BY DEF Ends
  <2> QED BY <2>1, <2>2, <2>3, <2>4, <2>5, FinishTells
<1>3. CASE HoldFires /\ ~ds.pendingStart
  <2>1. /\ ds'.queue = ds.queue /\ ds'.attempt = ds.attempt /\ ds'.open = ds.open
        /\ ds'.finished = ds.finished /\ ds'.produced = ds.produced
        /\ ds'.started = ds.started /\ ds'.pendingStart = ds.pendingStart
        /\ ds'.startReleased = ds.startReleased
    BY <1>3 DEF HoldFires, Struct, TypeOK, Stream
  <2>2. pc = "wait" /\ pc' = "head" /\ seen' = seen /\ decoded' = decoded
    BY <1>3 DEF HoldFires, Quiet, ArmLeavesRest
  <2> QED BY <2>1, <2>2, TellingUntouched DEF Live, Over
<1>4. CASE HoldFires /\ ds.pendingStart
  <2> DEFINE start == [kind |-> "start", send |-> ds.attempt, cause |-> "none"]
             w == <<start>>
             e == <<>>
  <2>1. start \in Event /\ ds.queue = <<>> /\ ds \in Stream
    BY <1>4 DEF HoldFires, Quiet, Struct, TypeOK, Places, Event, Stream
  <2>2. /\ w \in Seq(Event) /\ e \in Seq(Event) /\ Len(w) = 1 /\ Len(e) = 0
        /\ w[1] = start /\ Len(w) <= 1 /\ Len(e) <= 1
    BY <2>1
  <2>3. /\ ds'.attempt = ds.attempt /\ ds'.open = ds.open
        /\ ds'.finished = ds.finished /\ ds'.produced = ds.produced
        /\ ds'.started = ds.started /\ ds'.pendingStart = FALSE
        /\ ds'.startReleased = TRUE /\ ds'.queue = Append(ds.queue, start)
    BY <1>4 DEF HoldFires, Struct, TypeOK, Stream
  <2>4. /\ pc = "wait" /\ pc' = "head" /\ seen' = seen /\ decoded' = decoded
        /\ ds.pending = "none"
    BY <1>4 DEF HoldFires, Quiet, ArmLeavesRest
  <2>5. /\ Live /\ ~ds.finished /\ ds.finished = FALSE /\ ds.open /\ ds.started
    BY <2>1, <2>4 DEF Struct, Places, Stream, Live, Over
  <2>6. ~ds.produced /\ Told = <<>>
    BY <1>4, <2>5 DEF Telling, Starts
  <2>7. ds'.queue = ds.queue \o w \o e
    BY <2>1, <2>3
  <2>8. start.kind = "start" /\ start.send = ds.attempt
    OBVIOUS
  <2> HIDE DEF w, e, start
  <2>9. Told' # <<>>
    BY <2>2, <2>4, <2>7, ToldGrows DEF Struct
  <2>10. Adds(Told, w, e, ds'.produced, ds'.finished, ds.attempt)
    BY <2>2, <2>3, <2>5, <2>6, <2>8 DEF Adds
  <2>11. Starts'
    BY <2>3, <2>4, <2>5, <2>6, <2>9 DEF Starts
  <2>12. decoded' = decoded + (IF Len(e) = 1 /\ e[1].kind = "content" THEN 1 ELSE 0)
    BY <2>2, <2>4 DEF Struct, TypeOK
  <2> QED BY <2>3, <2>4, <2>5, <2>7, <2>10, <2>11, <2>12, TellingMore
<1> QED BY <1>1, <1>2, <1>3, <1>4, TellingOfEnding DEF Arms, ReopenFails, Ending

(* What a poll returns has been counted as told.                           *)
LEMMA ReturnsTellNothing ==
  ASSUME TypeOK, RecvReturns \/ TryReturns \/ PollDropped
  PROVE  Told' = Told
<1>1. ds.queue \in Seq(Event) /\ seen \in Seq(Event)
  BY DEF TypeOK, Stream
<1>2. (ds'.queue = ds.queue /\ seen' = seen) \/ Hands(ds.queue)
  BY ReturnsAre
<1>3. CASE ds'.queue = ds.queue /\ seen' = seen
  BY <1>3 DEF Told
<1>4. CASE /\ ds.queue # <<>> /\ seen' = Append(seen, Head(ds.queue))
           /\ ds'.queue = Tail(ds.queue)
  BY <1>1, <1>4, HeadMoves DEF Told
<1> QED BY <1>2, <1>3, <1>4 DEF Hands

LEMMA TellingOfReturns ==
  ASSUME Struct, Telling, Returns
  PROVE  Telling'
<1>1. TypeOK /\ ds \in Stream /\ ds.queue \in Seq(Event) /\ seen \in Seq(Event) /\ Live
  BY DEF Struct, TypeOK, Stream, Returns, RecvReturns, TryRecv, TryReturns, PollDropped, Live, Over
<1>2. CASE RecvReturns \/ TryReturns \/ PollDropped
  <2>1. /\ ds'.open = IF RecvReturns /\ ds.finished THEN FALSE ELSE ds.open
        /\ ds'.finished = ds.finished /\ ds'.attempt = ds.attempt /\ ds'.started = ds.started
        /\ ds'.pendingStart = ds.pendingStart /\ ds'.startReleased = ds.startReleased
        /\ ds'.produced = ds.produced
        /\ (PollDropped /\ ds'.queue = ds.queue /\ seen' = seen) \/ Hands(ds.queue)
    BY <1>1, <1>2, ReturnsAre
  <2>2. decoded' = decoded /\ pc' \in {"idle", "ended"} /\ (pc' = "ended" => ds.finished)
    BY <1>2 DEF RecvReturns, TryReturns, PollDropped
  <2>3. Told' = Told
    BY <1>1, <1>2, ReturnsTellNothing
  <2>4. ~ds.produced /\ ~ds.finished => ds'.queue = <<>>
    <3> SUFFICES ASSUME ~ds.produced, ~ds.finished PROVE ds'.queue = <<>>
      OBVIOUS
    <3>1. CASE ds.queue = <<>>
      BY <2>1, <3>1 DEF Hands
    <3>2. CASE ds.queue # <<>>
      <4>1. pc = "head"
        BY <1>1, <3>2 DEF Telling, Starts
      <4>2. ds'.queue = Tail(ds.queue)
        BY <1>2, <2>1, <3>2, <4>1 DEF Hands, PollDropped
      <4>3. Len(Told) <= 1
        BY <1>1, OnlyStart
      <4>4. Len(Told) = Len(seen) + Len(ds.queue) /\ Len(seen) \in Nat /\ Len(ds.queue) \in Nat
        BY <1>1, ConcatProperties, LenProperties DEF Told
      <4>5. \A l, m, n \in Nat : l = m + n /\ l <= 1 /\ n > 0 => n = 1
        OBVIOUS
      <4>6. Tail(ds.queue) \in Seq(Event) /\ Len(Tail(ds.queue)) = Len(ds.queue) - 1
            /\ Len(ds.queue) > 0
        BY <1>1, <3>2, HeadTailProperties, EmptySeq
      <4>7. Len(ds.queue) = 1
        <5>1. Len(Told) \in Nat
          BY <1>1, ToldTyped
        <5> QED BY <4>3, <4>4, <4>5, <4>6, <5>1, Zenon
      <4>8. Len(Tail(ds.queue)) = 0
        BY <4>6, <4>7
      <4> QED BY <4>2, <4>6, <4>8, EmptySeq
    <3> QED BY <3>1, <3>2
  <2> HIDE DEF Told
  <2>5. Starts'
    <3>1. ds.finished \in BOOLEAN
      BY <1>1 DEF Stream
    <3> QED BY <1>1, <2>1, <2>2, <2>3, <2>4, <3>1 DEF Telling, Starts
  <2>6. \/ ds'.queue \in {ds.queue, <<>>}
        \/ ds.queue # <<>> /\ ds'.queue = Tail(ds.queue)
    BY <2>1 DEF Hands
  <2> QED BY <1>1, <2>1, <2>2, <2>3, <2>5, <2>6, TellingKept
<1>3. CASE TryRecv
  <2>1. pc = "idle" /\ pc' \in {"pop", "try"} /\ UNCHANGED <<ds, seen, decoded>>
    BY <1>3 DEF TryRecv
  <2> QED BY <1>1, <2>1, TellingUntouched
<1> QED BY <1>2, <1>3 DEF Returns

LEMMA TellingOfRest ==
  ASSUME Struct, Telling, Rest
  PROVE  Telling'
<1>1. CASE DropStream
  BY <1>1 DEF DropStream, Telling, Grammar, Starts, NothingLost, Live, Over
<1>2. CASE Cancel \/ \E f \in DataFrames \cup EndRecords : UpstreamDelivers(f)
  <2>1. UNCHANGED <<pc, ds, seen, decoded>>
    BY <1>2 DEF Cancel, UpstreamDelivers, historyVars, consumerVars
  <2> QED BY <2>1, TellingUntouched
<1>3. CASE Tick
  <2>1. UNCHANGED <<pc, seen, decoded>>
    BY <1>3 DEF Tick
  <2>2. /\ ds'.queue = ds.queue /\ ds'.attempt = ds.attempt /\ ds'.open = ds.open
        /\ ds'.finished = ds.finished /\ ds'.produced = ds.produced
        /\ ds'.started = ds.started /\ ds'.pendingStart = ds.pendingStart
        /\ ds'.startReleased = ds.startReleased
    BY <1>3 DEF Tick, Struct, TypeOK, Stream
  <2> QED BY <2>1, <2>2, TellingUntouched
<1> QED BY <1>1, <1>2, <1>3 DEF Rest

LEMMA TellingNext == Struct /\ Telling /\ [Next]_vars => Telling'
<1> SUFFICES ASSUME Struct, Telling, [Next]_vars PROVE Telling'
  OBVIOUS
<1>1. ASSUME UNCHANGED vars PROVE Telling'
  <2>1. UNCHANGED <<pc, ds, seen, decoded>>
    BY <1>1 DEF vars, consumerVars, historyVars
  <2> QED BY <2>1, TellingUntouched
<1> QED BY <1>1, StepIs, TellingOfConnects, TellingOfPhase, TellingOfHead, TellingOfReads,
           TellingOfArms, TellingOfReturns, TellingOfRest

(* retry.rs:781-816: neither a queue that is cleared nor an attempt that   *)
(* is killed takes with it content that was decoded.                       *)
THEOREM ContentIsKept == Spec => []NothingLost
<1>1. Init => Struct /\ Telling
  BY StructOfInit, TellingInit
<1>2. Struct /\ Telling /\ [Next]_vars => (Struct /\ Telling)'
  BY StructNext, TellingNext
<1>3. Struct /\ Telling => NothingLost
  BY DEF Telling
<1> QED BY <1>1, <1>2, <1>3, PTL DEF Spec

-----------------------------------------------------------------------------
(* Whom the record blames *)

Blaming == Recorded /\ BlameIsRight

LEMMA BlamingInit == Init => Blaming
BY DEF Init, Blaming, Recorded, BlameIsRight, Told, NewStream

(* Until the end nothing is recorded but the gate's rejection, and no      *)
(* error is told.                                                          *)
LEMMA NotYet ==
  ASSUME Struct, Telling, Blaming, Live, ~ds.finished
  PROVE  /\ stage \in {"none", "rate_gate"}
         /\ stage = "none" \/ (conn.at = "failed" /\ conn.err = "rejected")
         /\ \A i \in DOMAIN Told : Told[i].kind # "error"
BY DEF Blaming, Recorded, Telling, Grammar, Tellable, Terminal

(* A step before the end that leaves the record alone.                     *)
LEMMA BlamingBefore ==
  ASSUME Struct, Telling, Telling', Blaming, Live, Live',
         ~ds.finished, ~ds'.finished, stage' = stage, rejected' = rejected,
         \/ conn'.at = conn.at /\ conn'.err = conn.err
         \/ ~(conn.at = "failed" /\ conn.err = "rejected")
  PROVE  Blaming'
<1>1. \A i \in DOMAIN Told' : Told'[i].kind # "error"
  BY DEF Telling, Grammar, Tellable, Terminal
<1>2. Recorded'
  BY NotYet DEF Recorded
<1> QED BY <1>1, <1>2 DEF Blaming, BlameIsRight

(* A step after it, or of a stream that is gone.                           *)
LEMMA BlamingAfter ==
  ASSUME Blaming, stage' = stage, rejected' = rejected, ds'.finished \/ ~Live', Told' = Told
  PROVE  Blaming'
BY DEF Blaming, Recorded, BlameIsRight

(* The step that ends: the error it tells is the one it records.           *)
LEMMA FinishBlames ==
  ASSUME Struct, Telling, Blaming, Live, ~ds.finished,
         NEW s \in Stream, NEW cause \in Ends, ds' = Finish(s, cause),
         s.queue = ds.queue, seen' = seen, rejected' = rejected,
         \/ cause \in {"none", "cancelled"} /\ stage' = stage
         \/ cause \in Causes /\ RecordUpstreamFailure(cause)
  PROVE  Blaming'
<1> DEFINE e == FinishOf(s, cause)
           w == Withheld(s, e)
<1>1. e \in Seq(Event) /\ w \in Seq(Event)
  BY FinishOfTyped, WithheldIs
<1>2. \/ e = <<>>
      \/ \E x \in Event :
           /\ e = <<x>>
           /\ \/ x.kind = "done"
              \/ x.cause = IF cause = "none" THEN "incomplete" ELSE cause
  <2>1. CASE s.decoder.finished
    BY <2>1, FinishOfIs
  <2>2. CASE ~s.decoder.finished
    BY <2>2, FinishOfIs
  <2> QED BY <2>1, <2>2
<1>3. w = <<>> \/ w = <<[kind |-> "start", send |-> s.attempt, cause |-> "none"]>>
  BY <1>1, WithheldIs
<1>4. ds'.queue = ds.queue \o w \o e /\ ds'.finished = TRUE
  <2>1. Finish(s, cause).queue = s.queue \o w \o e
    BY FinishFields, Zenon
  <2>2. Finish(s, cause).finished = TRUE
    BY FinishFields
  <2> HIDE DEF w, e
  <2> QED BY <2>1, <2>2
<1> HIDE DEF w, e
<1>5. Len(w) <= 1 /\ (Len(w) = 1 => w[1].kind = "start")
  <2>1. CASE w = <<>>
    BY <2>1
  <2>2. CASE w = <<[kind |-> "start", send |-> s.attempt, cause |-> "none"]>>
    BY <2>2
  <2> QED BY <1>3, <2>1, <2>2
<1>6. /\ Len(e) <= 1
      /\ Len(e) = 1 => \/ e[1].kind = "done"
                       \/ e[1].cause = IF cause = "none" THEN "incomplete" ELSE cause
  <2>1. CASE e = <<>>
    BY <2>1
  <2>2. ASSUME NEW x, e = <<x>> PROVE Len(e) <= 1 /\ e[1] = x
    BY <2>2
  <2> QED BY <1>2, <2>1, <2>2
<1>7. /\ Told \in Seq(Event) /\ Len(Told) \in Nat /\ DOMAIN Told = 1 .. Len(Told)
      /\ Told' = Told \o w \o e
  BY <1>1, <1>4, <1>5, <1>6, ToldTyped, ToldGrows DEF Struct
<1>8. /\ Told' \in Seq(Event) /\ Len(Told') = Len(Told) + Len(w) + Len(e)
      /\ \A i \in 1 .. Len(Told) : Told'[i] = Told[i]
      /\ Len(w) = 1 => Told'[Len(Told) + 1] = w[1]
      /\ Len(e) = 1 => Told'[Len(Told')] = e[1]
  <2> HIDE DEF Told
  <2> QED BY <1>1, <1>5, <1>6, <1>7, TwoMore
<1>9. /\ Len(w) \in Nat /\ Len(e) \in Nat /\ DOMAIN Told' = 1 .. Len(Told')
  BY <1>1, <1>8, LenProperties
<1> HIDE DEF Told
<1>10. ASSUME NEW i \in DOMAIN Told', Told'[i].kind = "error"
       PROVE  Told'[i].cause = IF cause = "none" THEN "incomplete" ELSE cause
  <2>1. i \in 1 .. (Len(Told) + Len(w) + Len(e))
    BY <1>8, <1>9
  <2>2. \/ i \in 1 .. Len(Told)
        \/ i = Len(Told) + 1 /\ Len(w) = 1
        \/ i = Len(Told) + Len(w) + Len(e) /\ Len(e) = 1
    BY <1>5, <1>6, <1>7, <1>9, <2>1, ThreeParts
  <2>3. CASE i \in 1 .. Len(Told)
    BY <1>7, <1>8, <1>10, <2>3, NotYet
  <2>4. CASE i = Len(Told) + 1 /\ Len(w) = 1
    BY <1>5, <1>8, <1>10, <2>4
  <2>5. CASE i = Len(Told') /\ Len(e) = 1
    BY <1>6, <1>8, <1>10, <2>5
  <2> QED BY <1>8, <2>2, <2>3, <2>4, <2>5
<1>11. stage \in {"none", "rate_gate"} /\ (rejected <=> stage = "rate_gate")
  BY NotYet DEF Blaming, BlameIsRight
<1>12. CASE cause \in {"none", "cancelled"} /\ stage' = stage
  <2>1. "incomplete" \notin Causes /\ "cancelled" \notin Causes
    BY DEF Causes, Failures, Watchdogs
  <2> QED BY <1>4, <1>10, <1>11, <1>12, <2>1 DEF Blaming, Recorded, BlameIsRight
<1>13. CASE cause \in Causes /\ RecordUpstreamFailure(cause)
  <2>1. cause # "none"
    BY <1>13 DEF Causes, Failures, Watchdogs
  <2>2. stage' = IF stage = "none" THEN StageOf(cause) ELSE stage
    BY <1>13, <2>1 DEF RecordUpstreamFailure, WriteError
  <2>3. StageOf(cause) \notin {"none", "rate_gate"}
    BY DEF StageOf
  <2> QED BY <1>4, <1>10, <1>11, <1>13, <2>1, <2>2, <2>3 DEF Blaming, Recorded, BlameIsRight
<1> QED BY <1>12, <1>13

LEMMA BlamingOfConnects ==
  ASSUME Struct, Telling, Blaming, Connects
  PROVE  Blaming'
<1>1. /\ conn.at \notin {"none", "opened", "failed"}
      /\ UNCHANGED <<pc, ds, seen>>
  BY ConnMoves DEF Struct, Connects
<1>2. Live /\ ~ds.finished
  <2>1. CASE pc = "connecting"
    <3>1. ds = [NewStream EXCEPT !.attempt = ds.attempt]
      BY <2>1 DEF Struct, Places
    <3>2. ds.finished = FALSE
      BY <3>1 DEF NewStream
    <3> QED BY <2>1, <3>2 DEF Live, Over
  <2>2. CASE pc # "connecting"
    BY <1>1, <2>2 DEF Struct, Places, OneExchange
  <2> QED BY <2>1, <2>2
<1>3. Telling'
  BY TellingOfConnects
<1>4. CASE GateRejects
  <2>1. stage = "none" /\ ~rejected /\ \A i \in DOMAIN Told : Told[i].kind # "error"
    BY <1>1, <1>2, NotYet DEF Blaming, BlameIsRight
  <2>2. /\ stage' = "rate_gate" /\ rejected' = TRUE
        /\ conn'.at = "failed" /\ conn'.err = "rejected"
    BY <1>4, <2>1 DEF GateRejects, WriteError, ConnFails, Struct, TypeOK, Conn
  <2>3. Told' = Told
    BY <1>1 DEF Told
  <2> HIDE DEF Told
  <2> QED BY <2>1, <2>2, <2>3 DEF Blaming, Recorded, BlameIsRight
<1>5. CASE ~GateRejects
  <2>1. stage' = stage /\ rejected' = rejected
    BY <1>5 DEF Connects, ConnStep, UpstreamAnswers, ConnCancelled, BackoffOver, GateAdmits,
               Send, UpstreamOpens, UpstreamFails
  <2>2. Live' /\ ~ds'.finished
    BY <1>1, <1>2 DEF Live
  <2> QED BY <1>1, <1>2, <1>3, <2>1, <2>2, BlamingBefore
<1> QED BY <1>4, <1>5

LEMMA BlamingOfPhase ==
  ASSUME Struct, Telling, Blaming, ConnectPhase
  PROVE  Blaming'
<1>1. /\ pc = "connecting" /\ seen' = seen /\ seen = <<>> /\ rejected' = rejected
      /\ ds = [NewStream EXCEPT !.attempt = ds.attempt]
  BY DEF ConnectPhase, StreamOpens, ConnectRepairs, StreamFails, OpenLeavesRest, Struct, Places
<1>2. Live /\ ds.finished = FALSE /\ ds.queue = <<>>
  BY <1>1 DEF NewStream, Live, Over
<1>3. ds'.finished = ds.finished /\ ds'.queue = ds.queue
  BY DEF ConnectPhase, StreamOpens, ConnectRepairs, StreamFails, Struct, TypeOK, Stream
<1>4. Telling'
  BY TellingOfPhase
<1>5. CASE StreamOpens \/ ConnectRepairs
  <2>1. ~(conn.at = "failed" /\ conn.err = "rejected") /\ stage' = stage /\ Live'
    BY <1>1, <1>5 DEF StreamOpens, ConnectRepairs, Live, Over
  <2> QED BY <1>1, <1>2, <1>3, <1>4, <2>1, BlamingBefore
<1>6. CASE StreamFails
  <2>1. ~Live' /\ (stage' = stage \/ WriteError(StageOf(conn.err)))
    BY <1>6 DEF StreamFails, Live, Over
  <2>2. Told' = <<>>
    BY <1>1, <1>2, <1>3 DEF Told
  <2>3. StageOf(conn.err) \notin {"none", "rate_gate"}
    BY DEF StageOf
  <2>4. rejected <=> stage = "rate_gate"
    BY DEF Blaming, BlameIsRight
  <2>5. rejected' <=> stage' = "rate_gate"
    BY <1>1, <2>1, <2>3, <2>4 DEF WriteError
  <2> HIDE DEF Told
  <2> QED BY <2>1, <2>2, <2>5 DEF Blaming, Recorded, BlameIsRight
<1> QED BY <1>5, <1>6 DEF ConnectPhase

LEMMA BlamingOfHead ==
  ASSUME Struct, Telling, Blaming, Heads
  PROVE  Blaming'
<1>1. ds \in Stream /\ TypeOK /\ Live
  BY DEF Heads, Looping, RecvCall, HeadCancelled, HeadStarts, HeadWaits, WaitCancelled,
         Struct, TypeOK, Over, Live
<1>2. Telling'
  BY TellingOfHead
<1>3. CASE RecvCall \/ HeadStarts \/ HeadWaits
  <2>1. /\ ds'.finished = ds.finished /\ ds'.queue = ds.queue
    BY <1>1, <1>3 DEF RecvCall, HeadStarts, HeadWaits, Stream
  <2>2. /\ pc' \in {"head", "wait"} /\ UNCHANGED <<conn, seen, stage, rejected>>
    BY <1>3 DEF RecvCall, HeadStarts, HeadWaits, Looping, RecvLeavesRest
  <2>3. Told' = Told /\ Live'
    BY <2>1, <2>2 DEF Told, Live, Over
  <2>4. CASE ds.finished
    BY <2>1, <2>2, <2>3, <2>4, BlamingAfter
  <2>5. CASE ~ds.finished
    BY <1>1, <1>2, <2>1, <2>2, <2>3, <2>5, BlamingBefore
  <2> QED BY <2>4, <2>5
<1>4. CASE EndCancelled /\ ~ds.finished
  <2>1. PICK s \in Stream, cause \in Ends :
          /\ cause = "cancelled" /\ ds' = Finish(s, cause)
          /\ s = [ds EXCEPT !.open = FALSE, !.pending = "none"]
    BY <1>1, <1>4, CancelIs
  <2>2. s.queue = ds.queue
    BY <1>1, <2>1 DEF Stream
  <2>3. seen' = seen /\ rejected' = rejected /\ stage' = stage
    BY <1>4 DEF EndCancelled, RecvLeavesRest
  <2> QED BY <1>1, <1>4, <2>1, <2>2, <2>3, FinishBlames
<1>5. HeadCancelled \/ WaitCancelled => EndCancelled /\ ~ds.finished
  BY DEF HeadCancelled, WaitCancelled, Looping, Struct, Places
<1> QED BY <1>3, <1>4, <1>5 DEF Heads

LEMMA BlamingOfEnding ==
  ASSUME Struct, Telling, Blaming, Ending
  PROVE  Blaming'
<1>1. PICK s \in Stream, cause \in {"none"} \cup Causes :
        /\ Closing(s)
        /\ Resends(s) \/ Finishes(s, cause)
        /\ pc \in {"wait", "drain", "try"} /\ pc' \in {"head", "pop"}
        /\ ds.pending = "none" /\ seen' = seen /\ rejected' = rejected
  BY EndingIs DEF Struct
<1>2. s.queue = ds.queue /\ s.finished = ds.finished
  BY <1>1 DEF Closing, Struct, TypeOK, Stream
<1>3. Live /\ Live' /\ ~ds.finished /\ conn.at = "none"
  BY <1>1 DEF Struct, Places, OneExchange, Live, Over
<1>4. Telling'
  BY TellingOfEnding
<1>5. CASE Resends(s)
  <2>1. ds'.finished = ds.finished /\ stage' = stage
    BY <1>2, <1>5 DEF Resends
  <2> QED BY <1>1, <1>3, <1>4, <2>1, BlamingBefore
<1>6. CASE Finishes(s, cause)
  <2>1. cause \in Ends /\ ds' = Finish(s, cause) /\ RecordUpstreamFailure(cause)
    BY <1>6 DEF Ends, Finishes
  <2>2. cause = "none" => stage' = stage
    BY <2>1 DEF RecordUpstreamFailure
  <2> QED BY <1>1, <1>2, <1>3, <2>1, <2>2, FinishBlames
<1> QED BY <1>1, <1>5, <1>6

LEMMA BlamingOfReads ==
  ASSUME Struct, Telling, Blaming, Reads
  PROVE  Blaming'
<1>1. CASE TakeFrame
  <2>1. PICK f \in DataFrames : ds' = Absorb(ds, f)
    BY <1>1, TakeFrameIs DEF Struct
  <2>2. ds' = Absorb(ds, f) /\ ds \in Stream
    BY <2>1 DEF Struct, TypeOK
  <2>3. ds'.finished = ds.decoder.finished
    BY <2>2, AbsorbFields
  <2>4. /\ ds.open /\ ~ds.finished
        /\ pc \in {"wait", "drain", "try"} /\ pc' \in {"drain", "try"}
        /\ UNCHANGED <<conn, rejected, stage>>
    BY <1>1, TakeFrameIs DEF Struct
  <2>5. Live /\ Live' /\ ~ds'.finished
    BY <2>3, <2>4 DEF Struct, Places, Live, Over
  <2>6. Telling'
    BY TellingOfReads
  <2> QED BY <2>4, <2>5, <2>6, BlamingBefore
<1>2. CASE TakeEnd
  BY <1>2, BlamingOfEnding DEF Ending
<1>3. CASE DrainStops
  <2>1. /\ UNCHANGED <<ds, conn, seen, stage, rejected>> /\ ~ds.finished
        /\ pc \in {"drain", "try"} /\ pc' \in {"head", "pop"}
    BY <1>3 DEF DrainStops, RecvLeavesRest, Struct, Places
  <2>2. Live /\ Live' /\ ~ds'.finished
    BY <2>1 DEF Live, Over
  <2>3. Telling'
    BY TellingOfReads
  <2> QED BY <2>1, <2>2, <2>3, BlamingBefore
<1> QED BY <1>1, <1>2, <1>3 DEF Reads

LEMMA BlamingOfArms ==
  ASSUME Struct, Telling, Blaming, Arms
  PROVE  Blaming'
<1>1. Telling'
  BY TellingOfArms
<1>2. CASE FinishReopen /\ conn.at = "opened"
  <2>1. /\ ds' = Adopt(ds) /\ ds \in Stream /\ pc = "wait" /\ pc' = "head"
        /\ UNCHANGED <<rejected, stage>>
    BY <1>2 DEF FinishReopen, ReopenReturned, Struct, TypeOK
  <2>2. ds'.finished = FALSE
    BY <2>1, AdoptFields
  <2>3. Live /\ Live' /\ ~ds.finished /\ conn.at # "failed"
    BY <1>2, <2>1 DEF Live, Over, Struct, Places
  <2> QED BY <1>1, <2>1, <2>2, <2>3, BlamingBefore
<1>3. CASE ReopenFails
  <2>1. PICK s \in Stream, cause \in {"none"} \cup Causes :
          /\ ds' = Finish(s, cause) /\ RecordUpstreamFailure(cause)
          /\ s = [ds EXCEPT !.pending = "none", !.retried = TRUE]
    BY <1>3, ReopenFailsIs DEF Struct
  <2>2. s.queue = ds.queue
    BY <2>1 DEF Struct, TypeOK, Stream
  <2>3. pc = "wait" /\ seen' = seen /\ rejected' = rejected
    BY <1>3 DEF ReopenFails, FinishReopen, ReopenReturned
  <2>4. ~ds.finished /\ Live
    BY <2>3 DEF Struct, Places, Live, Over
  <2>5. cause \in Ends /\ (cause = "none" => stage' = stage)
    BY <2>1 DEF Ends, RecordUpstreamFailure
  <2> QED BY <2>1, <2>2, <2>3, <2>4, <2>5, FinishBlames
<1>4. CASE HoldFires
  <2>1. ds'.finished = ds.finished
    BY <1>4 DEF HoldFires, Struct, TypeOK, Stream
  <2>2. pc = "wait" /\ pc' = "head" /\ UNCHANGED <<conn, stage, rejected>>
    BY <1>4 DEF HoldFires, Quiet, ArmLeavesRest, RecvLeavesRest
  <2>3. Live /\ Live' /\ ~ds.finished /\ ~ds'.finished
    BY <2>1, <2>2 DEF Live, Over, Struct, Places
  <2> QED BY <1>1, <2>2, <2>3, BlamingBefore
<1>5. CASE StallFires \/ ProgressFires
  BY <1>5, BlamingOfEnding DEF Ending
<1> QED BY <1>2, <1>3, <1>4, <1>5 DEF Arms, ReopenFails

LEMMA BlamingOfReturns ==
  ASSUME Struct, Telling, Blaming, Returns
  PROVE  Blaming'
<1>1. TypeOK /\ Live
  BY DEF Struct, Returns, RecvReturns, TryRecv, TryReturns, PollDropped, Live, Over
<1>2. ds'.finished = ds.finished /\ Told' = Told
  <2>1. CASE TryRecv
    BY <2>1 DEF TryRecv, Told
  <2>2. CASE RecvReturns \/ TryReturns \/ PollDropped
    BY <1>1, <2>2, ReturnsAre, ReturnsTellNothing
  <2> QED BY <2>1, <2>2 DEF Returns
<1>3. UNCHANGED <<stage, rejected>>
  BY DEF Returns, RecvReturns, TryRecv, TryReturns, PollDropped, RecvLeavesRest
<1>4. CASE ds.finished
  BY <1>2, <1>3, <1>4, BlamingAfter
<1>5. CASE ~ds.finished
  <2>1. Live' /\ conn' = conn
    BY <1>5 DEF Returns, RecvReturns, TryRecv, TryReturns, PollDropped, Live, Over
  <2>2. Telling'
    BY TellingOfReturns
  <2> QED BY <1>1, <1>2, <1>3, <1>5, <2>1, <2>2, BlamingBefore
<1> QED BY <1>4, <1>5

LEMMA BlamingOfRest ==
  ASSUME Struct, Telling, Blaming, Rest
  PROVE  Blaming'
<1>1. CASE DropStream
  <2>1. /\ ~Live' /\ UNCHANGED <<seen, stage, rejected>> /\ ds'.queue = <<>>
    BY <1>1 DEF DropStream, NewStream, Live, Over, historyVars
  <2>2. seen \in Seq(Event) /\ ds.queue \in Seq(Event)
    BY DEF Struct, TypeOK, Stream
  <2>3. Told' = seen
    BY <2>1, <2>2 DEF Told
  <2>4. \A i \in DOMAIN seen : i \in DOMAIN Told /\ Told[i] = seen[i]
    BY <2>2 DEF Told
  <2> HIDE DEF Told
  <2> QED BY <2>1, <2>3, <2>4 DEF Blaming, Recorded, BlameIsRight
<1>2. CASE ~DropStream
  <2>1. /\ pc' = pc /\ UNCHANGED <<conn, seen, stage, rejected>>
        /\ ds'.finished = ds.finished /\ ds'.queue = ds.queue
    BY <1>2 DEF Rest, Cancel, UpstreamDelivers, Tick, historyVars, consumerVars,
               Struct, TypeOK, Stream
  <2>2. Told' = Told
    BY <2>1 DEF Told
  <2>3. Live' = Live
    BY <2>1 DEF Live
  <2>4. Telling'
    BY TellingOfRest
  <2> HIDE DEF Told
  <2>5. CASE ds.finished \/ ~Live
    BY <2>1, <2>2, <2>3, <2>5, BlamingAfter
  <2>6. CASE ~ds.finished /\ Live
    BY <2>1, <2>3, <2>4, <2>6, BlamingBefore
  <2> QED BY <2>5, <2>6
<1> QED BY <1>1, <1>2

LEMMA BlamingNext == Struct /\ Telling /\ Blaming /\ [Next]_vars => Blaming'
<1> SUFFICES ASSUME Struct, Telling, Blaming, [Next]_vars PROVE Blaming'
  OBVIOUS
<1>1. ASSUME UNCHANGED vars PROVE Blaming'
  <2>1. UNCHANGED <<pc, ds, conn, seen, stage, rejected>>
    BY <1>1 DEF vars, consumerVars, historyVars
  <2> QED BY <2>1 DEF Blaming, Recorded, BlameIsRight, Told, Live
<1> QED BY <1>1, StepIs, BlamingOfConnects, BlamingOfPhase, BlamingOfHead, BlamingOfReads,
           BlamingOfArms, BlamingOfReturns, BlamingOfRest

(* retry.rs:929-954, 1072-1085: the record blames the gate exactly when    *)
(* the gate rejected, and otherwise what the client was told.              *)
THEOREM BlameIsAlwaysRight == Spec => []BlameIsRight
<1>1. Init => Struct /\ Telling /\ Blaming
  BY StructOfInit, TellingInit, BlamingInit
<1>2. Struct /\ Telling /\ Blaming /\ [Next]_vars => (Struct /\ Telling /\ Blaming)'
  BY StructNext, TellingNext, BlamingNext
<1>3. Blaming => BlameIsRight
  BY DEF Blaming
<1> QED BY <1>1, <1>2, <1>3, PTL DEF Spec

-----------------------------------------------------------------------------
(* How long a reader waits *)

Watching == Watches /\ PatienceBounded

LEMMA TimersAreNumbers ==
  ASSUME TypeOK
  PROVE  /\ ds.hold \in Int /\ ds.hold <= StartHoldTimeout
         /\ ds.stall \in Int /\ ds.stall <= StallTimeout
         /\ beat \in Int /\ beat <= KeepaliveInterval
         /\ {StartHoldTimeout, StallTimeout, KeepaliveInterval, TailGrace} \subseteq Nat
         /\ silence \in Nat /\ TailGrace < StallTimeout
<1>1. {StartHoldTimeout, StallTimeout, KeepaliveInterval, TailGrace} \subseteq Nat
      /\ TailGrace < StallTimeout
  BY TimersAssumption
<1>2. /\ ds.hold \in Timer(StartHoldTimeout) /\ ds.stall \in Timer(StallTimeout)
      /\ beat \in Timer(KeepaliveInterval) /\ silence \in Nat
  BY <1>1 DEF TypeOK, Stream, SilenceLimit
<1> QED BY <1>1, <1>2 DEF Timer, Disarmed

LEMMA WatchingInit == Init => Watching
<1> SUFFICES ASSUME Init PROVE Watching
  OBVIOUS
<1>1. TypeOK
  BY TypesOfInit
<1>2. silence = 0 /\ ds.hold = Disarmed /\ pc = "connecting"
  BY DEF Init, NewStream
<1> QED BY <1>1, <1>2, TimersAreNumbers
       DEF Watching, Watches, PatienceBounded, Disarmed, SilenceLimit

(* The watch starts over.                                                  *)
LEMMA WatchingReset ==
  ASSUME TypeOK', silence' = 0, pc' # "wait"
  PROVE  Watching'
<1>1. /\ ds'.hold \in Int /\ ds'.hold <= StartHoldTimeout
      /\ beat' \in Int /\ beat' <= KeepaliveInterval
      /\ {StartHoldTimeout, StallTimeout, KeepaliveInterval, TailGrace} \subseteq Nat
  <2>1. {StartHoldTimeout, StallTimeout, KeepaliveInterval, TailGrace} \subseteq Nat
    BY TimersAssumption
  <2>2. ds'.hold \in Timer(StartHoldTimeout) /\ beat' \in Timer(KeepaliveInterval)
    BY DEF TypeOK, Stream
  <2> QED BY <2>1, <2>2 DEF Timer, Disarmed
<1> QED BY <1>1 DEF Watching, Watches, PatienceBounded, SilenceLimit

(* It goes on: no timer is set anew, and only a wait that is entered anew  *)
(* leaves the wait for a place between waits.                              *)
LEMMA WatchingKept ==
  ASSUME TypeOK, Watching, reader' = reader, silence' = silence, pc' # "wait",
         resumed => resumed', Live' => Live,
         ds'.decoder.stop = ds.decoder.stop, ds'.started = ds.started,
         ds'.hold \in {ds.hold, Disarmed},
         reader = "collector" => beat' \in {beat, Disarmed},
         Between' => \/ Between
                     \/ resumed' /\ (reader = "collector" =>
                                       silence <= StartHoldTimeout + KeepaliveInterval)
  PROVE  Watching'
<1>1. Limit' = Limit
  BY DEF Limit
<1> QED BY <1>1, TimersAreNumbers
       DEF Watching, Watches, PatienceBounded, Limit, SilenceLimit, Disarmed

LEMMA WatchingOfConnects ==
  ASSUME Struct, Watching, Connects
  PROVE  Watching'
<1>1. UNCHANGED <<pc, reader, beat, ds, silence, resumed>>
  BY ConnMoves DEF Struct, Connects
<1> QED BY <1>1 DEF Watching, Watches, PatienceBounded, Between, Returning, Limit, Live

LEMMA WatchingOfPhase ==
  ASSUME Struct, TypeOK', Watching, ConnectPhase
  PROVE  Watching'
<1>1. /\ pc = "connecting" /\ pc' # "wait" /\ silence' = silence
      /\ ds = [NewStream EXCEPT !.attempt = ds.attempt]
  BY DEF ConnectPhase, StreamOpens, ConnectRepairs, StreamFails, OpenLeavesRest, Struct, Places
<1>2. Live /\ ds.started = FALSE
  BY <1>1 DEF NewStream, Live, Over
<1>3. silence' = 0
  BY <1>1, <1>2 DEF Watching, Watches
<1> QED BY <1>1, <1>3, WatchingReset

LEMMA WatchingOfHead ==
  ASSUME Struct, TypeOK', Watching, Heads
  PROVE  Watching'
<1>1. ds \in Stream /\ TypeOK /\ Live
  BY DEF Heads, Looping, RecvCall, HeadCancelled, HeadStarts, HeadWaits, WaitCancelled,
         Struct, TypeOK, Over, Live
<1>2. CASE RecvCall
  <2>1. /\ ds'.decoder = ds.decoder /\ ds'.started = ds.started /\ ds'.hold = ds.hold
        /\ ds'.pending = ds.pending
    BY <1>1, <1>2 DEF RecvCall, Stream
  <2>2. pc = "idle" /\ pc' = "head" /\ UNCHANGED <<reader, beat, silence, resumed>>
    BY <1>2 DEF RecvCall, RecvLeavesRest
  <2>3. Between' => Between
    BY <1>1, <2>1, <2>2 DEF Between, Returning
  <2> QED BY <1>1, <2>1, <2>2, <2>3, WatchingKept
<1>3. CASE HeadStarts
  <2>1. /\ ~ds.started /\ pc' = "head" /\ silence' = silence
    BY <1>3 DEF HeadStarts, Looping
  <2>2. silence' = 0
    BY <1>1, <2>1 DEF Watching, Watches
  <2> QED BY <2>1, <2>2, WatchingReset
<1>4. CASE HeadWaits
  <2>1. /\ ds'.stall = (IF ds.decoder.stop # "none" THEN TailGrace ELSE StallTimeout)
        /\ ds'.decoder = ds.decoder /\ ds'.started = ds.started /\ ds'.hold = ds.hold
        /\ ds'.pending = ds.pending
    BY <1>1, <1>4 DEF HeadWaits, Stream
  <2>2. /\ pc = "head" /\ ds.queue = <<>> /\ ~ds.finished /\ ds.started
        /\ pc' = "wait" /\ UNCHANGED <<reader, beat, silence, resumed>>
    BY <1>4 DEF HeadWaits, Looping, RecvLeavesRest
  <2>3. ds.pending = "none" => Between
    BY <1>1, <2>2 DEF Between, Returning
  <2>4. Limit' = Limit /\ ds'.stall = Limit /\ Limit <= StallTimeout /\ Limit \in Nat
    BY <1>1, <2>1, TimersAreNumbers DEF Limit
  <2>5. ~Between'
    BY <2>2 DEF Between
  <2>6. Watches'
    <3>1. ~resumed' /\ pc' = "wait" /\ ds'.pending = "none" => silence' + ds'.stall <= Limit'
      BY <2>1, <2>2, <2>3, <2>4 DEF Watching, Watches
    <3>2. reader = "collector" /\ ds'.pending = "none" => silence' + ds'.stall <= SilenceLimit
      BY <1>1, <2>1, <2>2, <2>3, <2>4, TimersAreNumbers, SMTT(30)
         DEF Watching, Watches, SilenceLimit
    <3> QED BY <2>1, <2>2, <2>5, <3>1, <3>2 DEF Watching, Watches
  <2> QED BY <2>1, <2>2, <2>6 DEF Watching, PatienceBounded
<1>5. CASE EndCancelled /\ pc \in {"head", "wait"}
  <2>1. PICK s \in Stream, cause \in Ends :
          /\ cause = "cancelled" /\ ds' = Finish(s, cause)
          /\ s = [ds EXCEPT !.open = FALSE, !.pending = "none"]
    BY <1>1, <1>5, CancelIs
  <2>2. /\ ds'.decoder.stop = s.decoder.stop /\ ds'.started = s.started /\ ds'.hold = s.hold
        /\ ds'.finished = TRUE
    BY <2>1, FinishFields
  <2>3. s.decoder = ds.decoder /\ s.started = ds.started /\ s.hold = ds.hold
    BY <1>1, <2>1 DEF Stream
  <2>4. pc' = "head" /\ UNCHANGED <<reader, beat, silence, resumed>>
    BY <1>5 DEF EndCancelled, RecvLeavesRest
  <2>5. ~Between'
    BY <2>2, <2>4 DEF Between, Returning
  <2> QED BY <1>1, <2>2, <2>3, <2>4, <2>5, WatchingKept
<1> QED BY <1>2, <1>3, <1>4, <1>5 DEF Heads, HeadCancelled, WaitCancelled, Looping

LEMMA WatchingOfEnding ==
  ASSUME Struct, TypeOK', Watching, Ending
  PROVE  Watching'
<1>1. PICK s \in Stream, cause \in {"none"} \cup Causes :
        /\ Closing(s) /\ Keeps(s)
        /\ Resends(s) \/ Finishes(s, cause)
        /\ pc \in {"wait", "drain", "try"} /\ pc' \in {"head", "pop"}
        /\ pc = "try" <=> pc' = "pop"
        /\ \/ silence' = 0 /\ resumed' = FALSE
           \/ UNCHANGED <<silence, resumed>> /\ pc = "wait"
        /\ UNCHANGED <<reader, beat>>
  BY EndingIs DEF Struct
<1>2. CASE silence' = 0
  BY <1>1, <1>2, WatchingReset
<1>3. CASE UNCHANGED <<silence, resumed>> /\ pc = "wait"
  <2>1. pc' = "head" /\ Live
    BY <1>1, <1>3 DEF Live, Over
  <2>2. /\ ds'.decoder.stop = ds.decoder.stop /\ ds'.started = ds.started /\ ds'.hold = ds.hold
    <3>1. s.decoder = ds.decoder /\ s.started = ds.started /\ s.hold = ds.hold
      BY <1>1 DEF Closing, Struct, TypeOK, Stream
    <3> QED BY <1>1, <3>1 DEF Keeps
  <2>3. ~Between'
    <3>1. CASE Resends(s)
      BY <3>1 DEF Resends, Between, Causes, Failures, Watchdogs
    <3>2. CASE Finishes(s, cause)
      <4>1. cause \in Ends /\ ds' = Finish(s, cause)
        BY <3>2 DEF Ends, Finishes
      <4>2. ds'.finished = TRUE
        BY <4>1, FinishFields
      <4> QED BY <2>1, <4>2 DEF Between, Returning
    <3> QED BY <1>1, <3>1, <3>2
  <2> QED BY <1>1, <1>3, <2>1, <2>2, <2>3, WatchingKept DEF Struct
<1> QED BY <1>1, <1>2, <1>3

LEMMA WatchingOfReads ==
  ASSUME Struct, TypeOK', Watching, Reads
  PROVE  Watching'
<1>1. CASE TakeFrame
  <2>1. silence' = 0 /\ pc' # "wait"
    BY <1>1, TakeFrameIs DEF Struct
  <2> QED BY <2>1, WatchingReset
<1>2. CASE TakeEnd
  BY <1>2, WatchingOfEnding DEF Ending
<1>3. CASE DrainStops
  <2>1. /\ pc \in {"drain", "try"} /\ pc' \in {"head", "pop"}
        /\ UNCHANGED <<ds, reader, beat, silence, resumed>>
    BY <1>3 DEF DrainStops, RecvLeavesRest
  <2>2. Live
    BY <2>1 DEF Live, Over
  <2>3. Between' => Between
    BY <2>1, <2>2 DEF Between, Returning
  <2> QED BY <2>1, <2>2, <2>3, WatchingKept DEF Struct
<1> QED BY <1>1, <1>2, <1>3 DEF Reads

LEMMA WatchingOfArms ==
  ASSUME Struct, TypeOK', Watching, Arms
  PROVE  Watching'
<1>1. CASE FinishReopen
  <2>1. silence' = 0 /\ pc' # "wait"
    BY <1>1 DEF FinishReopen
  <2> QED BY <2>1, WatchingReset
<1>2. CASE HoldFires
  <2>1. /\ ds'.decoder = ds.decoder /\ ds'.started = ds.started /\ ds'.hold = Disarmed
    BY <1>2 DEF HoldFires, Struct, TypeOK, Stream
  <2>2. ds.pendingStart => ds'.queue # <<>>
    <3> DEFINE start == [kind |-> "start", send |-> ds.attempt, cause |-> "none"]
    <3>1. ds.queue \in Seq(Event) /\ start \in Event
      BY DEF Struct, TypeOK, Stream, Event
    <3>2. ds.pendingStart => ds'.queue = Append(ds.queue, start)
      BY <1>2 DEF HoldFires, Struct, TypeOK, Stream
    <3> HIDE DEF start
    <3>3. Append(ds.queue, start) # <<>>
      BY <3>1
    <3> QED BY <3>2, <3>3
  <2>3. /\ pc = "wait" /\ pc' = "head" /\ UNCHANGED <<reader, beat, silence>>
        /\ resumed' = (resumed \/ ~ds.pendingStart) /\ ds.hold = 0
    BY <1>2 DEF HoldFires, Quiet, ArmLeavesRest, RecvLeavesRest
  <2>4. Live
    BY <2>3 DEF Live, Over
  <2>5. silence <= StartHoldTimeout + KeepaliveInterval
    BY <2>3, TimersAreNumbers DEF Struct, Watching, Watches
  <2>6. Between' => resumed'
    BY <2>3, <2>2 DEF Between, Returning
  <2> QED BY <2>1, <2>3, <2>4, <2>5, <2>6, WatchingKept DEF Struct
<1>3. CASE StallFires \/ ProgressFires
  BY <1>3, WatchingOfEnding DEF Ending
<1> QED BY <1>1, <1>2, <1>3 DEF Arms

LEMMA WatchingOfReturns ==
  ASSUME Struct, TypeOK', Watching, Returns
  PROVE  Watching'
<1>1. TypeOK /\ Live
  BY DEF Struct, Returns, RecvReturns, TryRecv, TryReturns, PollDropped, Live, Over
<1>2. CASE RecvReturns
  <2>1. silence' = 0 /\ pc' # "wait"
    BY <1>2 DEF RecvReturns
  <2> QED BY <2>1, WatchingReset
<1>3. CASE TryRecv
  <2>1. /\ pc = "idle" /\ pc' \in {"pop", "try"}
        /\ UNCHANGED <<ds, reader, beat, silence, resumed>>
    BY <1>3 DEF TryRecv, RecvLeavesRest
  <2>2. Between' => Between
    BY <1>1, <2>1 DEF Between, Returning
  <2> QED BY <1>1, <2>1, <2>2, WatchingKept
<1>4. CASE TryReturns \/ PollDropped
  <2>1. /\ ~RecvReturns /\ pc' = "idle" /\ UNCHANGED <<reader, silence>>
    BY <1>4 DEF TryReturns, PollDropped, RecvReturns, RecvLeavesRest
  <2>2. /\ ds'.pending = ds.pending /\ ds'.decoder = ds.decoder /\ ds'.started = ds.started
        /\ ds'.hold = ds.hold
    BY <1>1, <1>4, <2>1, ReturnsAre
  <2>3. CASE TryReturns
    <3>1. pc = "pop" /\ UNCHANGED <<beat, resumed>>
      BY <2>3 DEF TryReturns
    <3>2. Between' => Between
      BY <1>1, <2>2, <3>1 DEF Between, Returning
    <3> QED BY <1>1, <2>1, <2>2, <3>1, <3>2, WatchingKept
  <2>4. CASE PollDropped
    <3>1. /\ beat = 0 /\ resumed' = TRUE
          /\ beat' = IF reader = "sse" THEN KeepaliveInterval ELSE Disarmed
      BY <2>4 DEF PollDropped
    <3>2. reader = "collector" => silence <= StartHoldTimeout + KeepaliveInterval
      BY <1>1, <3>1, TimersAreNumbers DEF Watching, Watches
    <3> QED BY <1>1, <2>1, <2>2, <3>1, <3>2, WatchingKept
  <2> QED BY <1>4, <2>3, <2>4
<1> QED BY <1>2, <1>3, <1>4 DEF Returns

LEMMA WatchingOfTick ==
  ASSUME Struct, TypeOK', Watching, Tick
  PROVE  Watching'
<1>1. /\ ds \in Stream /\ ds.hold \in Int /\ ds.stall \in Int /\ beat \in Int
      /\ silence \in Nat
      /\ {StartHoldTimeout, StallTimeout, KeepaliveInterval, TailGrace} \subseteq Nat
  BY TimersAreNumbers DEF Struct, TypeOK
<1>2. /\ UNCHANGED <<pc, reader, resumed>> /\ beat' = Floor(beat)
      /\ pc = "wait" => beat # 0
      /\ Quiet => 0 \notin {ds.hold, ds.stall}
  BY DEF Tick, Urgent, TimerDue
<1>3. /\ ds'.decoder = ds.decoder /\ ds'.started = ds.started /\ ds'.pending = ds.pending
      /\ ds'.queue = ds.queue /\ ds'.finished = ds.finished
      /\ ds'.hold = Floor(ds.hold)
      /\ ds'.stall = IF Quiet THEN Floor(ds.stall) ELSE ds.stall
  BY <1>1 DEF Tick, Stream
<1>4. Live' = Live /\ Between' = Between /\ Limit' = Limit
  BY <1>2, <1>3 DEF Live, Between, Returning, Limit
<1>5. CASE silence' = silence
  <2>1. ds'.stall <= ds.stall
    BY <1>1, <1>3 DEF Floor
  <2>2. ds'.hold <= ds.hold /\ (ds'.hold >= 0 => ds.hold >= 0) /\ ds'.hold \in Int
    BY <1>1, <1>3 DEF Floor
  <2>3. beat' <= beat /\ (beat' >= 0 => beat >= 0) /\ beat' \in Int
    BY <1>1, <1>2 DEF Floor
  <2>4. ds'.stall \in Int /\ Limit \in Nat
    BY <1>1, <1>3 DEF Floor, Limit
  <2>5. Watches'
    BY <1>1, <1>2, <1>3, <1>4, <1>5, <2>1, <2>2, <2>3, <2>4 DEF Watching, Watches, SilenceLimit
  <2> QED BY <1>2, <1>3, <1>5, <2>5 DEF Watching, PatienceBounded
<1>6. CASE Quiet /\ silence' = silence + 1
  <2>1. pc = "wait" /\ ds.pending = "none"
    BY <1>6 DEF Quiet
  <2>2. Live /\ ~Between /\ ds.started /\ ds.stall >= 0
    BY <2>1 DEF Live, Over, Between, Struct, Places
  <2>3. ds'.stall = ds.stall - 1 /\ ds'.stall >= 0 /\ ds'.stall \in Int
    BY <1>1, <1>2, <1>3, <1>6, <2>2 DEF Floor
  <2>4. ds'.hold >= 0 => ds.hold >= 0 /\ ds'.hold = ds.hold - 1
    BY <1>1, <1>2, <1>3, <1>6 DEF Floor
  <2>5. beat' >= 0 => beat >= 0 /\ beat' = beat - 1
    BY <1>1, <1>2, <2>1 DEF Floor
  <2>6. Limit \in Nat
    BY <1>1 DEF Limit
  <2>7. Watches'
    BY <1>1, <1>2, <1>3, <1>4, <1>6, <2>1, <2>2, <2>3, <2>4, <2>5, <2>6
       DEF Watching, Watches, SilenceLimit
  <2>8. ~resumed' => silence' <= Limit'
    BY <1>1, <1>2, <1>3, <1>4, <1>6, <2>1, <2>3, <2>6, <2>7 DEF Watches
  <2>9. reader' # "sse" => silence' <= SilenceLimit
    <3>1. reader' \in {"sse", "collector"}
      BY DEF TypeOK
    <3> QED BY <1>1, <1>2, <1>3, <1>6, <2>1, <2>3, <2>7, <3>1 DEF Watches, SilenceLimit
  <2> QED BY <2>7, <2>8, <2>9 DEF Watching, PatienceBounded, Limit
<1> QED BY <1>5, <1>6 DEF Tick

LEMMA WatchingOfRest ==
  ASSUME Struct, TypeOK', Watching, Rest
  PROVE  Watching'
<1>1. CASE DropStream
  <2>1. /\ pc' = "dropped" /\ ds' = NewStream /\ beat' = Disarmed
        /\ UNCHANGED <<reader, silence, resumed>>
    BY <1>1 DEF DropStream, historyVars
  <2>2. /\ ~Live' /\ ~Between' /\ ds'.hold = -1 /\ ds'.decoder.stop = "none"
    BY <2>1 DEF Live, Over, Between, NewStream, NewDecoder, Disarmed
  <2>3. ~resumed => silence <= StallTimeout
    BY TimersAreNumbers DEF Struct, Watching, PatienceBounded
  <2> QED BY <2>1, <2>2, <2>3 DEF Watching, Watches, PatienceBounded, Disarmed
<1>2. CASE Cancel \/ \E f \in DataFrames \cup EndRecords : UpstreamDelivers(f)
  <2>1. UNCHANGED <<pc, reader, beat, ds, silence, resumed>>
    BY <1>2 DEF Cancel, UpstreamDelivers, historyVars, consumerVars
  <2> QED BY <2>1 DEF Watching, Watches, PatienceBounded, Between, Returning, Limit, Live
<1> QED BY <1>1, <1>2, WatchingOfTick DEF Rest

LEMMA WatchingNext == Struct /\ Watching /\ [Next]_vars => Watching'
<1> SUFFICES ASSUME Struct, Watching, [Next]_vars PROVE Watching'
  OBVIOUS
<1>1. TypeOK'
  BY StructNext DEF Struct
<1>2. ASSUME UNCHANGED vars PROVE Watching'
  <2>1. UNCHANGED <<pc, reader, beat, ds, silence, resumed>>
    BY <1>2 DEF vars, consumerVars, historyVars
  <2> QED BY <2>1 DEF Watching, Watches, PatienceBounded, Between, Returning, Limit, Live
<1> QED BY <1>1, <1>2, StepIs, WatchingOfConnects, WatchingOfPhase, WatchingOfHead,
           WatchingOfReads, WatchingOfArms, WatchingOfReturns, WatchingOfRest

(* retry.rs:68-87: while the consumer waits, upstream is silent for no     *)
(* longer than the stall timeout, and a wait entered anew adds no more     *)
(* than the hold and one heartbeat.                                        *)
THEOREM PatienceIsBounded == Spec => []PatienceBounded
<1>1. Init => Struct /\ Watching
  BY StructOfInit, WatchingInit
<1>2. Struct /\ Watching /\ [Next]_vars => (Struct /\ Watching)'
  BY StructNext, WatchingNext
<1>3. Watching => PatienceBounded
  BY DEF Watching
<1> QED BY <1>1, <1>2, <1>3, PTL DEF Spec

-----------------------------------------------------------------------------
(* UpstreamStream implements OneAnswer: a call is asked, answered or left, *)
(* the first content commits the answer to its send, and a poll gives one  *)
(* event or the end.                                                       *)

Answers == [Promise!Next]_(Promise!vars)

(* The part of an event that OneAnswer tells.                              *)
Small(event) == [kind |-> event.kind, send |-> event.send]

LEMMA SmallGrows ==
  ASSUME NEW s \in Seq(Event), NEW x \in Event
  PROVE  [i \in DOMAIN Append(s, x) |-> Small(Append(s, x)[i])]
           = Append([i \in DOMAIN s |-> Small(s[i])], Small(x))
<1> DEFINE S == {Small(e) : e \in Event}
           a == [i \in DOMAIN s |-> Small(s[i])]
           b == [i \in DOMAIN Append(s, x) |-> Small(Append(s, x)[i])]
<1>1. /\ Len(s) \in Nat /\ DOMAIN s = 1 .. Len(s)
      /\ DOMAIN Append(s, x) = 1 .. (Len(s) + 1)
      /\ Append(s, x)[Len(s) + 1] = x
      /\ \A i \in 1 .. Len(s) : Append(s, x)[i] = s[i]
  OBVIOUS
<1>2. \A i \in 1 .. Len(s) : s[i] \in Event
  OBVIOUS
<1>3. a \in Seq(S) /\ Len(a) = Len(s)
  <2>1. a \in [1 .. Len(s) -> S]
    BY <1>1, <1>2
  <2> HIDE DEF S, a
  <2> QED BY <1>1, <2>1
<1>4. Small(x) \in S
  OBVIOUS
<1>5. /\ DOMAIN Append(a, Small(x)) = 1 .. (Len(s) + 1)
      /\ Append(a, Small(x))[Len(s) + 1] = Small(x)
      /\ \A i \in 1 .. Len(s) : Append(a, Small(x))[i] = a[i]
  <2> HIDE DEF S, a, Small
  <2> QED BY <1>1, <1>3, <1>4
<1>6. \A i \in 1 .. (Len(s) + 1) : b[i] = Append(a, Small(x))[i]
  <2> TAKE i \in 1 .. (Len(s) + 1)
  <2>1. CASE i = Len(s) + 1
    BY <1>1, <1>5, <2>1
  <2>2. CASE i \in 1 .. Len(s)
    BY <1>1, <1>5, <2>2
  <2> QED BY <1>1, <2>1, <2>2
<1>7. DOMAIN b = 1 .. (Len(s) + 1)
  BY <1>1
<1>8. Append(a, Small(x)) = [i \in 1 .. (Len(s) + 1) |-> Append(a, Small(x))[i]]
  <2>1. Append(a, Small(x)) \in Seq(S)
    <3> HIDE DEF S, a
    <3> QED BY <1>3, <1>4
  <2>2. Append(a, Small(x)) \in [1 .. Len(Append(a, Small(x))) -> S]
    <3> HIDE DEF S, a, Small
    <3> QED BY <2>1, LenProperties
  <2> DEFINE f == Append(a, Small(x))
  <2> HIDE DEF f
  <2>3. f \in [1 .. Len(f) -> S] /\ DOMAIN f = 1 .. (Len(s) + 1)
    BY <1>5, <2>2 DEF f
  <2>4. f = [i \in DOMAIN f |-> f[i]]
    BY <2>3
  <2> QED BY <2>3, <2>4 DEF f
<1>9. b = [i \in 1 .. (Len(s) + 1) |-> b[i]]
  BY <1>7
<1> HIDE DEF a, b
<1>10. [i \in 1 .. (Len(s) + 1) |-> b[i]] = [i \in 1 .. (Len(s) + 1) |-> Append(a, Small(x))[i]]
  BY <1>6
<1> QED BY <1>8, <1>9, <1>10 DEF a, b

LEMMA GivenGrows ==
  ASSUME seen \in Seq(Event), NEW x \in Event, seen' = Append(seen, x)
  PROVE  Given' = Append(Given, Small(x))
BY SmallGrows DEF Given, Small

LEMMA GivenIs ==
  ASSUME seen \in Seq(Event)
  PROVE  /\ seen = <<>> <=> Given = <<>>
         /\ Given # <<>> => Given[Len(Given)].kind = seen[Len(seen)].kind
<1>1. /\ Len(seen) \in Nat /\ DOMAIN seen = 1 .. Len(seen) /\ DOMAIN Given = 1 .. Len(seen)
      /\ seen = <<>> <=> Len(seen) = 0
  BY LenProperties, EmptySeq DEF Given
<1>2. Given \in Seq({Small(seen[i]) : i \in DOMAIN seen}) /\ Len(Given) = Len(seen)
  <2>1. Given \in [1 .. Len(seen) -> {Small(seen[i]) : i \in DOMAIN seen}]
    BY <1>1 DEF Given, Small
  <2> QED BY <1>1, <2>1
<1>3. Given = <<>> <=> Len(Given) = 0
  BY <1>2, EmptySeq
<1>4. Len(seen) # 0 => Given[Len(seen)].kind = seen[Len(seen)].kind
  <2>1. \A i \in DOMAIN seen : Given[i].kind = seen[i].kind
    BY DEF Given
  <2> QED BY <1>1, <2>1
<1> QED BY <1>1, <1>2, <1>3, <1>4

(* What OneAnswer sees of the owner. *)
Source == IF ds.produced THEN ds.attempt ELSE 0
Calling == conn.at = "sent"
Gone == pc \in Over

LEMMA PromiseSteps ==
         /\ UNCHANGED <<Given, Source, ds.attempt, Calling, Gone>> => Answers
         /\ /\ Source = 0 /\ ~Gone
            /\ \/ ds'.attempt = ds.attempt + 1 /\ Calling' = FALSE
               \/ ds'.attempt = ds.attempt /\ Calling' = TRUE
            /\ UNCHANGED <<Given, Source, Gone>>
            => Answers
         /\ Calling' = FALSE /\ UNCHANGED <<Given, Source, ds.attempt, Gone>> => Answers
         /\ /\ Source = 0 /\ ~Gone /\ ~Calling /\ Source' = ds.attempt
            /\ UNCHANGED <<Given, ds.attempt, Calling, Gone>>
            => Answers
         /\ ~Gone /\ Gone' = TRUE /\ (Promise!Closed \/ Source = 0)
              /\ UNCHANGED <<Given, Source, ds.attempt, Calling>> => Answers
         /\ /\ ~Gone /\ Gone' = TRUE /\ Source' = 0 /\ ds'.attempt = 1 /\ Calling' = FALSE
            /\ Given' = Given
            => Answers
BY DEF Answers, Source, Calling, Gone, Promise!Next, Promise!vars, Promise!Ask,
       Promise!CallReturns, Promise!Commit, Promise!End, Promise!Leave

LEMMA PromiseGives ==
  ASSUME NEW kind \in {"start", "content", "done", "error"},
         ds.attempt \in Nat, ds.attempt > 0,
         ~Gone, ~Promise!Closed,
         Promise!Fits([kind |-> kind, send |-> ds.attempt]),
         Given' = Append(Given, [kind |-> kind, send |-> ds.attempt]),
         UNCHANGED <<Source, ds.attempt, Calling, Gone>>
  PROVE  Answers
<1>1. Promise!Give
  BY DEF Promise!Give, Source, Calling, Gone
<1> QED BY <1>1 DEF Answers, Promise!Next

(* A step that gives nothing, asks for nothing and ends nothing: at most a *)
(* call is over.                                                           *)
LEMMA AnswersNothing ==
  ASSUME seen' = seen, ds'.produced = ds.produced, ds'.attempt = ds.attempt,
         pc' \in Over <=> pc \in Over, conn' = conn \/ conn'.at # "sent"
  PROVE  Answers
<1>1. Given' = Given /\ Source' = Source /\ Gone' = Gone
  BY DEF Given, Source, Gone
<1>2. Calling' = Calling \/ Calling' = FALSE
  BY DEF Calling
<1> QED BY <1>1, <1>2, PromiseSteps

(* The connect task: `get_chat_message_with_retry` puts a call on the wire *)
(* only before there is content.                                           *)
LEMMA AnswersOfConnects ==
  ASSUME Struct, Connects
  PROVE  Answers
<1>1. /\ conn.at \notin {"none", "opened", "failed"}
      /\ UNCHANGED <<pc, ds, seen>>
  BY ConnMoves DEF Struct, Connects
<1>2. CASE Send
  <2>1. ds.produced = FALSE /\ Live
    <3>1. CASE pc = "connecting"
      <4>1. ds = [NewStream EXCEPT !.attempt = ds.attempt]
        BY <3>1 DEF Struct, Places
      <4>2. ds.produced = FALSE
        BY <4>1 DEF NewStream
      <4> QED BY <3>1, <4>2 DEF Live, Over
    <3>2. CASE pc # "connecting"
      BY <1>1, <3>2 DEF Struct, Places, OneExchange, TypeOK, Stream
    <3> QED BY <3>1, <3>2
  <2>2. Calling' = TRUE
    BY <1>2 DEF Send, Calling, Struct, TypeOK
  <2>3. UNCHANGED <<Given, Source, Gone>> /\ Source = 0 /\ ~Gone
    BY <1>1, <2>1 DEF Given, Source, Gone, Live
  <2> QED BY <1>1, <2>2, <2>3, PromiseSteps
<1>3. CASE ~Send
  <2>1. conn'.at # "sent"
    BY <1>3 DEF Connects, ConnStep, UpstreamAnswers, ConnCancelled, BackoffOver, GateAdmits,
       GateRejects, UpstreamOpens, UpstreamFails, ConnFails, Struct, TypeOK
  <2> QED BY <1>1, <2>1, AnswersNothing
<1> QED BY <1>2, <1>3

LEMMA AnswersOfPhase ==
  ASSUME Struct, ConnectPhase
  PROVE  Answers
<1>1. /\ pc = "connecting" /\ seen' = seen /\ conn.at \in {"opened", "failed"}
      /\ ds = [NewStream EXCEPT !.attempt = ds.attempt]
      /\ conn'.at # "sent" /\ ds \in Stream
  BY DEF ConnectPhase, StreamOpens, ConnectRepairs, StreamFails, OpenLeavesRest, Struct, Places,
         TypeOK, NoConn, Connecting
<1>2. ds.produced = FALSE /\ ~Gone
  BY <1>1 DEF NewStream, Gone, Over
<1>3. CASE StreamOpens
  <2>1. ds'.produced = ds.produced /\ ds'.attempt = ds.attempt /\ pc' = "idle"
    BY <1>1, <1>3 DEF StreamOpens, Stream
  <2> QED BY <1>1, <2>1, AnswersNothing DEF Over
<1>4. CASE ConnectRepairs
  <2>1. ds'.produced = ds.produced /\ ds'.attempt = ds.attempt + 1 /\ pc' = pc
    BY <1>1, <1>4 DEF ConnectRepairs, Stream
  <2>2. UNCHANGED <<Given, Source, Gone>> /\ Source = 0 /\ Calling' = FALSE
    BY <1>1, <1>2, <2>1 DEF Given, Source, Gone, Calling
  <2> QED BY <1>2, <2>1, <2>2, PromiseSteps
<1>5. CASE StreamFails
  <2>1. Gone' = TRUE /\ ds' = ds
    BY <1>5 DEF StreamFails, Gone, Over
  <2>2. UNCHANGED <<Given, Source, ds.attempt, Calling>> /\ Source = 0
    BY <1>1, <1>2, <2>1 DEF Given, Source, Calling
  <2> QED BY <1>2, <2>1, <2>2, PromiseSteps
<1> QED BY <1>3, <1>4, <1>5 DEF ConnectPhase

LEMMA AnswersOfHead ==
  ASSUME Struct, Heads
  PROVE  Answers
<1>1. ds \in Stream /\ TypeOK /\ pc \notin Over
  BY DEF Heads, Looping, RecvCall, HeadCancelled, HeadStarts, HeadWaits, WaitCancelled,
         Struct, TypeOK, Over
<1>2. CASE RecvCall \/ HeadStarts \/ HeadWaits
  <2>1. ds'.attempt = ds.attempt /\ ds'.produced = ds.produced
    BY <1>1, <1>2 DEF RecvCall, HeadStarts, HeadWaits, Stream
  <2>2. pc' \in {"head", "wait"} /\ UNCHANGED <<conn, seen>>
    BY <1>2 DEF RecvCall, HeadStarts, HeadWaits, Looping
  <2> QED BY <1>1, <2>1, <2>2, AnswersNothing DEF Over
<1>3. CASE EndCancelled
  <2>1. PICK s \in Stream, cause \in Ends :
          /\ ds' = Finish(s, cause)
          /\ s = [ds EXCEPT !.open = FALSE, !.pending = "none"]
    BY <1>1, <1>3, CancelIs
  <2>2. ds'.attempt = s.attempt /\ ds'.produced = s.produced
    BY <2>1, FinishFields
  <2>3. s.attempt = ds.attempt /\ s.produced = ds.produced
    BY <1>1, <2>1 DEF Stream
  <2>4. pc' = "head" /\ seen' = seen /\ conn'.at # "sent"
    BY <1>3 DEF EndCancelled, NoConn
  <2> QED BY <1>1, <2>2, <2>3, <2>4, AnswersNothing DEF Over
<1> QED BY <1>2, <1>3 DEF Heads, HeadCancelled, WaitCancelled

(* A resend is armed only while the stream has produced nothing.           *)
LEMMA AnswersOfEnding ==
  ASSUME Struct, Ending
  PROVE  Answers
<1>1. PICK s \in Stream, cause \in {"none"} \cup Causes :
        /\ Closing(s) /\ Keeps(s)
        /\ Resends(s) \/ Finishes(s, cause)
        /\ pc \in {"wait", "drain", "try"} /\ pc' \in {"head", "pop"}
        /\ seen' = seen
  BY EndingIs DEF Struct
<1>2. s.attempt = ds.attempt /\ s.produced = ds.produced
  BY <1>1 DEF Closing, Struct, TypeOK, Stream
<1>3. ds'.produced = ds.produced
  BY <1>1, <1>2 DEF Keeps
<1>4. CASE Resends(s)
  <2>1. ~ds.produced /\ ds'.attempt = ds.attempt + 1 /\ conn' = Connecting
    BY <1>2, <1>4 DEF Resends
  <2>2. UNCHANGED <<Given, Source, Gone>> /\ Source = 0 /\ ~Gone /\ Calling' = FALSE
    BY <1>1, <1>3, <2>1 DEF Given, Source, Gone, Calling, Over, Connecting
  <2> QED BY <2>1, <2>2, PromiseSteps
<1>5. CASE Finishes(s, cause)
  <2>1. cause \in Ends /\ ds' = Finish(s, cause) /\ conn' = conn
    BY <1>5 DEF Ends, Finishes
  <2>2. ds'.attempt = s.attempt
    BY <2>1, FinishFields
  <2> QED BY <1>1, <1>2, <1>3, <2>1, <2>2, AnswersNothing DEF Over
<1> QED BY <1>1, <1>4, <1>5

(* The first content commits the answer.                                   *)
LEMMA AnswersOfReads ==
  ASSUME Struct, Reads
  PROVE  Answers
<1>1. CASE TakeFrame
  <2>1. PICK f \in DataFrames : ds' = Absorb(ds, f)
    BY <1>1, TakeFrameIs DEF Struct
  <2>2. ds' = Absorb(ds, f) /\ ds \in Stream
    BY <2>1 DEF Struct, TypeOK
  <2>3. ds'.attempt = ds.attempt /\ ds'.produced = (ds.produced \/ ContentOf(ds, f) # <<>>)
    BY <2>2, AbsorbFields
  <2>4. /\ ds.open /\ pc \in {"wait", "drain", "try"} /\ pc' \in {"drain", "try"}
        /\ UNCHANGED <<conn, seen>>
    BY <1>1, TakeFrameIs DEF Struct
  <2>5. CASE ds'.produced = ds.produced
    BY <2>3, <2>4, <2>5, AnswersNothing DEF Over
  <2>6. CASE ds'.produced = TRUE /\ ~ds.produced
    <3>1. conn.at = "none"
      BY <2>4 DEF Struct, OneExchange
    <3>2. /\ UNCHANGED <<Given, ds.attempt, Calling, Gone>> /\ ~Gone /\ ~Calling
          /\ Source = 0 /\ Source' = ds.attempt
      BY <2>3, <2>4, <2>6, <3>1 DEF Given, Calling, Gone, Source, Over
    <3> QED BY <3>2, PromiseSteps
  <2>7. ds.produced \in BOOLEAN
    BY <2>2 DEF Stream
  <2> QED BY <2>3, <2>5, <2>6, <2>7
<1>2. CASE TakeEnd
  BY <1>2, AnswersOfEnding DEF Ending
<1>3. CASE DrainStops
  <2>1. pc \in {"drain", "try"} /\ pc' \in {"head", "pop"} /\ UNCHANGED <<ds, conn, seen>>
    BY <1>3 DEF DrainStops
  <2> QED BY <2>1, AnswersNothing DEF Over
<1> QED BY <1>1, <1>2, <1>3 DEF Reads

LEMMA AnswersOfArms ==
  ASSUME Struct, Arms
  PROVE  Answers
<1>1. ds \in Stream /\ TypeOK
  BY DEF Struct, TypeOK
<1>2. CASE FinishReopen
  <2>1. pc = "wait" /\ pc' = "head" /\ seen' = seen /\ conn'.at # "sent"
    BY <1>2 DEF FinishReopen, ReopenReturned, NoConn
  <2>2. ds'.attempt = ds.attempt /\ ds'.produced = ds.produced
    <3>1. CASE conn.at = "opened"
      <4>1. ds' = Adopt(ds)
        BY <1>2, <3>1 DEF FinishReopen
      <4> QED BY <1>1, <4>1, AdoptFields
    <3>2. CASE conn.at # "opened"
      <4>1. PICK s \in Stream, cause \in {"none"} \cup Causes :
              /\ ds' = Finish(s, cause)
              /\ s = [ds EXCEPT !.pending = "none", !.retried = TRUE]
        BY <1>1, <1>2, <3>2, ReopenFailsIs DEF ReopenFails
      <4>2. cause \in Ends
        BY DEF Ends
      <4>3. ds'.attempt = s.attempt /\ ds'.produced = s.produced
        BY <4>1, <4>2, FinishFields
      <4>4. s.attempt = ds.attempt /\ s.produced = ds.produced
        BY <1>1, <4>1 DEF Stream
      <4> QED BY <4>3, <4>4
    <3> QED BY <3>1, <3>2
  <2> QED BY <2>1, <2>2, AnswersNothing DEF Over
<1>3. CASE HoldFires
  <2>1. ds'.attempt = ds.attempt /\ ds'.produced = ds.produced
    BY <1>1, <1>3 DEF HoldFires, Stream
  <2>2. pc = "wait" /\ pc' = "head" /\ UNCHANGED <<conn, seen>>
    BY <1>3 DEF HoldFires, Quiet, ArmLeavesRest
  <2> QED BY <2>1, <2>2, AnswersNothing DEF Over
<1>4. CASE StallFires \/ ProgressFires
  BY <1>4, AnswersOfEnding DEF Ending
<1> QED BY <1>2, <1>3, <1>4 DEF Arms

LEMMA AnswersOfRest ==
  ASSUME Struct, Rest
  PROVE  Answers
<1>1. CASE DropStream
  <2>1. pc' = "dropped" /\ seen' = seen /\ ds' = NewStream /\ conn' = NoConn /\ pc \notin Over
    BY <1>1 DEF DropStream, Over
  <2>2. /\ ~Gone /\ Gone' = TRUE /\ Source' = 0 /\ ds'.attempt = 1 /\ Calling' = FALSE
        /\ Given' = Given
    BY <2>1 DEF Gone, Source, Calling, Given, NewStream, NoConn, Over
  <2> QED BY <2>2, PromiseSteps
<1>2. CASE ~DropStream
  <2>1. /\ UNCHANGED <<pc, conn, seen>>
        /\ ds'.attempt = ds.attempt /\ ds'.produced = ds.produced
    BY <1>2 DEF Rest, Cancel, UpstreamDelivers, Tick, historyVars, consumerVars,
               Struct, TypeOK, Stream
  <2> QED BY <2>1, AnswersNothing
<1> QED BY <1>1, <1>2

(* The event at the head of the queue fits what has been given.            *)
LEMMA HeadFits ==
  ASSUME Struct, Telling, Live, ds.queue # <<>>
  PROVE  /\ Head(ds.queue) \in Event /\ Head(ds.queue).send = ds.attempt
         /\ ~Promise!Closed
         /\ Promise!Fits(Small(Head(ds.queue)))
<1> DEFINE x == Head(ds.queue)
           n == Len(seen) + 1
<1>1. seen \in Seq(Event) /\ ds.queue \in Seq(Event)
  BY DEF Struct, TypeOK, Stream
<1>2. x \in Event /\ x = ds.queue[1] /\ 1 \in DOMAIN ds.queue
  BY <1>1
<1>3. /\ Len(seen) \in Nat /\ Len(Told) \in Nat /\ Len(seen) < Len(Told)
      /\ Told[n] = x /\ \A i \in 1 .. Len(seen) : Told[i] = seen[i]
      /\ DOMAIN Told = 1 .. Len(Told)
  BY <1>1 DEF Told
<1>4. n \in DOMAIN Told /\ 1 \in DOMAIN Told /\ Told # <<>>
  BY <1>3, EmptySeq
<1> HIDE DEF Told, x
<1>5. Tellable(Told, ds.queue, ds.produced, ds.finished, ds.attempt)
  BY DEF Telling, Grammar
<1>6. x.send = ds.attempt
  BY <1>2, <1>5 DEF Tellable
<1>7. /\ seen = <<>> <=> Given = <<>>
      /\ Given # <<>> => Given[Len(Given)].kind = seen[Len(seen)].kind
  BY <1>1, GivenIs
<1>8. seen # <<>> <=> Len(seen) > 0
  BY <1>1, <1>3, EmptySeq
<1>9. ~Promise!Closed
  <2> SUFFICES ASSUME Given # <<>> PROVE Given[Len(Given)].kind \notin {"done", "error"}
    BY DEF Promise!Closed
  <2>1. Len(seen) \in 1 .. Len(seen) /\ Len(seen) \in DOMAIN Told
    BY <1>3, <1>7, <1>8
  <2>2. Told[Len(seen)] = seen[Len(seen)] /\ Len(seen) # Len(Told)
    BY <1>3, <2>1
  <2>3. ~Terminal(Told[Len(seen)])
    BY <1>5, <2>1, <2>2 DEF Tellable
  <2> QED BY <1>7, <2>2, <2>3 DEF Terminal
<1>10. Small(x).kind = x.kind /\ Small(x).send = x.send
  BY DEF Small
<1>11. x.kind \in {"start", "content", "done", "error"}
  BY <1>2 DEF Event
<1>12. CASE x.kind = "start"
  <2>1. n = 1
    BY <1>3, <1>4, <1>5, <1>12 DEF Tellable
  <2>2. Given = <<>>
    BY <1>3, <1>7, <1>8, <2>1
  <2> QED BY <1>2, <1>6, <1>9, <1>10, <1>12, <2>2 DEF Promise!Fits, x
<1>13. CASE x.kind \in {"content", "done"}
  <2>1. n # 1
    BY <1>3, <1>4, <1>5, <1>13 DEF Tellable
  <2>2. Given # <<>>
    BY <1>3, <1>7, <1>8, <2>1
  <2>3. x.kind = "content" => ds.produced
    BY <1>3, <1>4, <1>5 DEF Tellable
  <2> QED BY <1>2, <1>6, <1>9, <1>10, <1>13, <2>2, <2>3 DEF Promise!Fits, x
<1>14. CASE x.kind = "error"
  BY <1>2, <1>6, <1>9, <1>10, <1>14 DEF Promise!Fits, x
<1> QED BY <1>11, <1>12, <1>13, <1>14

LEMMA AnswersOfReturns ==
  ASSUME Struct, Telling, Bounded, Returns
  PROVE  Answers
<1>1. /\ TypeOK /\ ds \in Stream /\ seen \in Seq(Event) /\ ds.queue \in Seq(Event)
      /\ Live /\ pc \notin Over \cup {"connecting"}
  BY DEF Struct, TypeOK, Stream, Returns, RecvReturns, TryRecv, TryReturns, PollDropped, Live, Over
<1>2. CASE TryRecv
  <2>1. pc' \in {"pop", "try"} /\ UNCHANGED <<ds, conn, seen>>
    BY <1>2 DEF TryRecv
  <2> QED BY <1>1, <2>1, AnswersNothing DEF Over
<1>3. CASE RecvReturns \/ TryReturns \/ PollDropped
  <2>1. /\ ds'.attempt = ds.attempt /\ ds'.produced = ds.produced
    BY <1>1, <1>3, ReturnsAre
  <2>2. conn'.at # "sent" \/ conn' = conn
    BY <1>3 DEF RecvReturns, TryReturns, PollDropped, NoConn
  <2>3. CASE PollDropped \/ (TryReturns /\ ds.queue = <<>>)
    <3>1. pc' = "idle" /\ seen' = seen
      BY <2>3 DEF TryReturns, PollDropped
    <3> QED BY <1>1, <2>1, <2>2, <3>1, AnswersNothing DEF Over
  <2>4. Calling' = Calling
    <3>1. CASE ds.finished
      <4>1. ds.pending = "none"
        BY <3>1 DEF Struct, Places
      <4>2. conn.at = "none"
        BY <1>1, <4>1 DEF Struct, OneExchange
      <4> QED BY <2>2, <4>2 DEF Calling
    <3>2. CASE ~ds.finished
      BY <1>3, <3>2 DEF RecvReturns, TryReturns, PollDropped, Calling
    <3> QED BY <3>1, <3>2
  <2>5. Source' = Source /\ ~Gone
    BY <1>1, <2>1 DEF Source, Gone
  <2>6. CASE (RecvReturns \/ TryReturns) /\ ds.queue # <<>>
    <3> DEFINE x == Head(ds.queue)
    <3>1. pc' = "idle" /\ seen' = Append(seen, x)
      BY <2>6 DEF RecvReturns, TryReturns, Receives
    <3>2. /\ x \in Event /\ x.send = ds.attempt /\ ~Promise!Closed /\ Promise!Fits(Small(x))
      BY <1>1, <2>6, HeadFits
    <3> HIDE DEF x
    <3>3. Given' = Append(Given, Small(x))
      BY <1>1, <3>1, <3>2, GivenGrows
    <3>4. Small(x) = [kind |-> x.kind, send |-> ds.attempt]
          /\ x.kind \in {"start", "content", "done", "error"}
      BY <3>2 DEF Small, Event
    <3>5. Gone' = Gone
      BY <1>1, <3>1 DEF Gone, Over
    <3>6. ds.attempt \in Nat /\ ds.attempt > 0
      BY <1>1 DEF Stream, Bounded, Rounds
    <3> QED BY <2>1, <2>4, <2>5, <3>2, <3>3, <3>4, <3>5, <3>6, PromiseGives
  <2>7. CASE RecvReturns /\ ds.queue = <<>>
    <3>1. pc' = "ended" /\ seen' = seen /\ ds.finished
      BY <2>7 DEF RecvReturns
    <3>2. Given' = Given /\ Gone' = TRUE
      BY <3>1 DEF Given, Gone, Over
    <3>3. Promise!Closed \/ Source = 0
      <4> SUFFICES ASSUME ds.produced PROVE Promise!Closed
        BY DEF Source
      <4>1. Told = seen
        BY <1>1, <2>7 DEF Told
      <4>2. seen # <<>> /\ Terminal(seen[Len(seen)])
        BY <1>1, <3>1, <4>1 DEF Telling, Grammar, Tellable
      <4> QED BY <1>1, <4>2, GivenIs DEF Promise!Closed, Terminal
    <3> QED BY <2>1, <2>4, <2>5, <3>2, <3>3, PromiseSteps
  <2> QED BY <1>3, <2>3, <2>6, <2>7
<1> QED BY <1>2, <1>3 DEF Returns

LEMMA AnswersInit == Init => Promise!Init
<1> SUFFICES ASSUME Init PROVE Promise!Init
  OBVIOUS
<1>1. /\ seen = <<>> /\ ds.produced = FALSE /\ ds.attempt = 1 /\ conn.at # "sent"
      /\ pc = "connecting"
  BY DEF Init, NewStream, Connecting
<1>2. Given = <<>>
  BY <1>1 DEF Given
<1> QED BY <1>1, <1>2 DEF Promise!Init, Over

LEMMA AnswersNext == Struct /\ Telling /\ Bounded /\ [Next]_vars => [Promise!Next]_(Promise!vars)
<1> SUFFICES ASSUME Struct, Telling, Bounded, [Next]_vars PROVE Answers
  BY DEF Answers
<1>1. ASSUME UNCHANGED vars PROVE Answers
  <2>1. UNCHANGED <<pc, ds, conn, seen>>
    BY <1>1 DEF vars, consumerVars
  <2> QED BY <2>1, AnswersNothing
<1> QED BY <1>1, StepIs, AnswersOfConnects, AnswersOfPhase, AnswersOfHead, AnswersOfReads,
           AnswersOfArms, AnswersOfReturns, AnswersOfRest

(* retry.rs:17-28, 343-346, 911-927: whatever is sent again, the client    *)
(* is given the one answer of OneAnswer.                                   *)
THEOREM PromiseIsKept == Spec => KeepsPromise
<1>1. Init => Struct /\ Telling /\ Bounded /\ Promise!Init
  BY StructOfInit, TellingInit, BoundedInit, AnswersInit
<1>2. Struct /\ Telling /\ Bounded /\ [Next]_vars
        => (Struct /\ Telling /\ Bounded)' /\ [Promise!Next]_(Promise!vars)
  BY StructNext, TellingNext, BoundedNext, AnswersNext
<1> QED BY <1>1, <1>2, PTL DEF Spec, KeepsPromise, Promise!Spec
=============================================================================
