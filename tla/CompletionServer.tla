---------------------------- MODULE CompletionServer ----------------------------
(***************************************************************************)
(* The life of a completion request in src/src/server: its admission, the  *)
(* handler (http.rs), the response body that takes over from it            *)
(* (stream.rs), the record and the metric it leaves behind, and the        *)
(* shutdown that waits for it (lifecycle.rs).                              *)
(*                                                                         *)
(* A turn is one request on a connection of its own.  Its future is polled *)
(* by the connection, so a connection that closes drops the turn at        *)
(* whatever await it stands; what a body started on the blocking pool goes *)
(* on without it.  The upstream stream is UpstreamStream's and appears     *)
(* here as the answers it gives.                                           *)
(***************************************************************************)
EXTENDS Naturals, FiniteSets

CONSTANTS
  Turns,       \* requests, each made once
  MaxPermits   \* the concurrency limit

ASSUME TurnsAssumption == IsFiniteSet(Turns)
ASSUME PermitsAssumption == MaxPermits \in Nat \ {0}

VARIABLES
  shutdown,   \* where `serve_until_shutdown` is
  draining,   \* the drain flag
  accepting,  \* the listener is open
  inflight,   \* the drain tracker's count
  permits,    \* free concurrency permits
  emptied,    \* the count has been zero since the drain began
  idle,       \* the count has been zero since the shutdown waits for it
  conn,       \* the connection of each turn
  turn        \* what each turn is doing, and what it left behind

tracker == <<inflight, permits, emptied, idle>>
vars == <<shutdown, draining, accepting, tracker, conn, turn>>

(* The panel's abort fires the token of the request.  The drops fire it as *)
(* well and leave nobody to see it, so `aborted` stands for both.          *)
NewTurn == [at |-> "idle", verdict |-> "none", task |-> "none", recorder |-> FALSE,
            record |-> "none", metric |-> "none", aborted |-> FALSE]

Init ==
  /\ shutdown = "serving" /\ draining = FALSE /\ accepting = TRUE
  /\ inflight = 0 /\ permits = MaxPermits
  /\ emptied = FALSE /\ idle = FALSE
  /\ conn = [t \in Turns |-> [at |-> "none", armed |-> FALSE]]
  /\ turn = [t \in Turns |-> NewTurn]

(* Handler stages up to the response, and bodies, that own the Admission;  *)
(* then the completion task that was handed it.                            *)
HoldsPermit(t) ==
  \/ turn[t].at \in {"reading", "connecting", "first", "completing", "body", "tail", "told"}
  \/ turn[t].task \in {"recording", "releasing"}

HoldsSlot(t) == turn[t].at \in {"added", "refused"} \/ HoldsPermit(t)

Goes(t, at) == turn' = [turn EXCEPT ![t].at = at]
Server == <<shutdown, draining, accepting>>
Open(t) == conn[t].at \in {"serving", "graceful"}

-----------------------------------------------------------------------------
(* The drain tracker *)

(* A waiter is registered before it looks at the count again, so none      *)
(* misses a zero; when it runs on after one is up to the scheduler.        *)
Leave(count) == /\ inflight' = count
                /\ emptied' = (emptied \/ (draining /\ count = 0))
                /\ idle' = (idle \/ (shutdown = "waiting" /\ count = 0))

(* `done` saturates. *)
LeavesInflight == Leave(IF inflight = 0 THEN 0 ELSE inflight - 1)

ReleasesAdmission == permits' = permits + 1 /\ LeavesInflight

ReleasesRefusal == UNCHANGED permits /\ LeavesInflight

-----------------------------------------------------------------------------
(* Connections *)

Accept(t) ==
  /\ accepting /\ conn[t].at = "none"
  /\ conn' = [conn EXCEPT ![t] = [at |-> "serving", armed |-> ~draining]]
  /\ UNCHANGED <<Server, tracker, turn>>

Closes(t) == /\ conn' = [conn EXCEPT ![t].at = "closed"]
             /\ UNCHANGED <<Server, tracker, turn>>

ClientLeaves(t) == Open(t) /\ Closes(t)

(* A connection told to shut down no longer looks at the forced close.     *)
ForceClose(t) == shutdown = "over" /\ conn[t].at = "serving" /\ Closes(t)

(* Mutant: keep-alive ends as soon as the drain begins. *)
GracefulAtOnce(t) ==
  /\ conn[t].at = "serving" /\ conn[t].armed /\ draining
  /\ conn' = [conn EXCEPT ![t].at = IF turn[t].at = "idle" THEN "closed" ELSE "graceful"]
  /\ UNCHANGED <<Server, tracker, turn>>

(* Without a request in progress the connection closes at once.            *)
Graceful(t) ==
  /\ conn[t].at = "serving" /\ conn[t].armed /\ emptied
  /\ conn' = [conn EXCEPT ![t].at = IF turn[t].at = "idle" THEN "closed" ELSE "graceful"]
  /\ UNCHANGED <<Server, tracker, turn>>

-----------------------------------------------------------------------------
(* Admission.  The turn is counted before the drain flag is read. *)

Arrive(t) ==
  /\ conn[t].at = "serving" /\ turn[t].at = "idle"
  /\ inflight' = inflight + 1
  /\ Goes(t, "added")
  /\ UNCHANGED <<Server, permits, emptied, idle, conn>>

(* Mutant: the flag is not looked at again. *)
AdmitUndrained(t) ==
  /\ turn[t].at = "added"
  /\ IF permits = 0 THEN Goes(t, "refused") /\ UNCHANGED permits
     ELSE Goes(t, "reading") /\ permits' = permits - 1
  /\ UNCHANGED <<Server, inflight, emptied, idle, conn>>

Admit(t) ==
  /\ turn[t].at = "added"
  /\ IF draining \/ permits = 0 THEN Goes(t, "refused") /\ UNCHANGED permits
     ELSE Goes(t, "reading") /\ permits' = permits - 1
  /\ UNCHANGED <<Server, inflight, emptied, idle, conn>>

(* The refusal is written, or dropped with its connection; its response    *)
(* gives the slot back.                                                    *)
RefusalLeaves(t) ==
  /\ turn[t].at = "refused"
  /\ Goes(t, "over") /\ ReleasesRefusal
  /\ UNCHANGED <<Server, conn>>

-----------------------------------------------------------------------------
(* The handler *)

Handler == UNCHANGED <<Server, conn>>

BodyArrives(t) ==
  /\ turn[t].at = "reading" /\ Open(t)
  /\ turn' = [turn EXCEPT ![t].at = "connecting", ![t].recorder = TRUE]
  /\ UNCHANGED tracker /\ Handler

(* Too large, or not a request: it has a record of its own.                *)
BodyIsBad(t) ==
  /\ turn[t].at = "reading" /\ Open(t)
  /\ turn' = [turn EXCEPT ![t].at = "completing", ![t].recorder = TRUE,
                          ![t].verdict = "failed"]
  /\ UNCHANGED tracker /\ Handler

(* Not read in time or at all: a local reject without a record.            *)
BodyFails(t) ==
  /\ turn[t].at = "reading" /\ Open(t)
  /\ turn' = [turn EXCEPT ![t].at = "responding", ![t].verdict = "failed"]
  /\ ReleasesAdmission /\ Handler

(* The stream, or an immediate error in place of one.                      *)
StreamOpens(t) ==
  /\ turn[t].at = "connecting" /\ Open(t)
  /\ Goes(t, "first")
  /\ UNCHANGED tracker /\ Handler

StreamFails(t) ==
  /\ turn[t].at = "connecting" /\ Open(t)
  /\ turn' = [turn EXCEPT ![t].at = "completing", ![t].verdict = "failed"]
  /\ UNCHANGED tracker /\ Handler

(* `sse_response` and `json_response` drop what they were given when they  *)
(* return without a body: the admission is among it.  Only a whole JSON    *)
(* answer completes here.                                                  *)
FirstDecides(t, verdict) ==
  /\ turn[t].at = "first" /\ Open(t)
  /\ turn' = [turn EXCEPT ![t].at = "returning", ![t].verdict = verdict]
  /\ ReleasesAdmission /\ Handler

(* The first event, or nothing for a keepalive interval.                   *)
FirstCommits(t) ==
  /\ turn[t].at = "first" /\ Open(t)
  /\ Goes(t, "body")
  /\ UNCHANGED tracker /\ Handler

(* `Recorder::complete`: the first verdict counts. *)
Completed(t, verdict) ==
  IF turn[t].record # "none" THEN turn[t].record
  ELSE IF turn[t].aborted /\ verdict = "disconnected" THEN "aborted" ELSE verdict

(* The error the client must find in the stream is recorded first and then *)
(* becomes the only chunk of a body.                                       *)
FirstTells(t) ==
  /\ turn[t].at = "first" /\ Open(t)
  /\ turn' = [turn EXCEPT ![t].at = "told", ![t].verdict = "failed",
                          ![t].record = Completed(t, "failed")]
  /\ UNCHANGED tracker /\ Handler

HandlerRecords(t) ==
  /\ turn[t].at \in {"completing", "returning"} /\ turn[t].record = "none"
  /\ turn' = [turn EXCEPT ![t].record = Completed(t, turn[t].verdict)]
  /\ UNCHANGED tracker /\ Handler

(* The completion guard, still armed, goes off when the handler returns.   *)
HandlerReturns(t) ==
  /\ turn[t].at \in {"completing", "returning"} /\ turn[t].record # "none"
  /\ turn' = [turn EXCEPT ![t].at = IF Open(t) THEN "responding" ELSE "over",
                          ![t].metric = IF Open(t) THEN @ ELSE "disconnected",
                          ![t].record = Completed(t, "disconnected")]
  /\ IF turn[t].at = "completing" THEN ReleasesAdmission ELSE UNCHANGED tracker
  /\ Handler

ResponseEnds(t) ==
  /\ turn[t].at = "responding" /\ Open(t)
  /\ turn' = [turn EXCEPT ![t].at = "over", ![t].metric = turn[t].verdict]
  /\ UNCHANGED tracker /\ Handler

-----------------------------------------------------------------------------
(* The body, as hyper pulls it *)

(* The stream's outcome is known.  With nothing left to send the same poll *)
(* finalizes; otherwise the tail goes out first.                           *)
BodyDecides(t, verdict) ==
  /\ turn[t].at = "body" /\ Open(t)
  /\ turn[t].aborted <=> verdict = "disconnected"
  /\ \/ turn' = [turn EXCEPT ![t].at = "tail", ![t].verdict = verdict]
     \/ turn' = [turn EXCEPT ![t].at = "finalizing", ![t].verdict = verdict,
                             ![t].task = "recording"]
  /\ UNCHANGED tracker /\ Handler

TailTaken(t) ==
  /\ turn[t].at = "tail" /\ Open(t)
  /\ turn' = [turn EXCEPT ![t].at = "finalizing", ![t].task = "recording"]
  /\ UNCHANGED tracker /\ Handler

(* Mutant: the end of the body does not wait for the task. *)
BodyEndsEarly(t) ==
  /\ turn[t].at = "finalizing" /\ Open(t)
  /\ turn' = [turn EXCEPT ![t].at = "over",
                          ![t].metric = IF turn[t].verdict = "completed"
                                        THEN "completed" ELSE "failed"]
  /\ UNCHANGED tracker /\ Handler

(* End of stream: the metric takes its verdict from the terminal cell,     *)
(* which knows completed and failed.                                       *)
BodyEnds(t) ==
  /\ turn[t].at = "finalizing" /\ turn[t].task = "done" /\ Open(t)
  /\ turn' = [turn EXCEPT ![t].at = "over",
                          ![t].metric = IF turn[t].verdict = "completed"
                                        THEN "completed" ELSE "failed"]
  /\ UNCHANGED tracker /\ Handler

ToldEnds(t) ==
  /\ turn[t].at = "told" /\ Open(t)
  /\ turn' = [turn EXCEPT ![t].at = "over", ![t].metric = "failed"]
  /\ ReleasesAdmission /\ Handler

(* `spawn_complete`: the record, then the admission. *)
TaskRecords(t) ==
  /\ turn[t].task = "recording"
  /\ turn' = [turn EXCEPT ![t].task = "releasing",
                          ![t].record = Completed(t, turn[t].verdict)]
  /\ UNCHANGED tracker /\ Handler

(* Mutant: the admission stays with the body. *)
TaskReleasesOpen(t) ==
  /\ turn[t].task = "releasing" /\ Open(t)
  /\ turn' = [turn EXCEPT ![t].task = "done"]
  /\ ReleasesAdmission /\ Handler

TaskReleases(t) ==
  /\ turn[t].task = "releasing"
  /\ turn' = [turn EXCEPT ![t].task = "done"]
  /\ ReleasesAdmission /\ Handler

-----------------------------------------------------------------------------
(* The turn is dropped where it awaits *)

DropReading(t) ==
  /\ turn[t].at = "reading" /\ ~Open(t)
  /\ turn' = [turn EXCEPT ![t].at = "over", ![t].metric = "disconnected"]
  /\ ReleasesAdmission /\ Handler

(* The completion guard runs before the admission goes. *)
DropConnecting(t) ==
  /\ turn[t].at = "connecting" /\ ~Open(t)
  /\ turn' = [turn EXCEPT ![t].at = "completing", ![t].verdict = "disconnected"]
  /\ UNCHANGED tracker /\ Handler

(* The inner future, with the admission, goes before the guard runs. *)
DropFirst(t) ==
  /\ turn[t].at = "first" /\ ~Open(t)
  /\ turn' = [turn EXCEPT ![t].at = "returning", ![t].verdict = "disconnected"]
  /\ ReleasesAdmission /\ Handler

(* Mutant: a dropped body is forgotten. *)
DropBodyAtOnce(t) ==
  /\ turn[t].at \in {"body", "tail"} /\ ~Open(t)
  /\ turn' = [turn EXCEPT ![t].at = "over", ![t].metric = "disconnected"]
  /\ ReleasesAdmission /\ Handler

DropBody(t) ==
  /\ turn[t].at \in {"body", "tail"} /\ ~Open(t)
  /\ turn' = [turn EXCEPT ![t].at = "over", ![t].metric = "disconnected",
                          ![t].task = "recording",
                          ![t].verdict = IF turn[t].at = "tail" THEN @ ELSE "disconnected"]
  /\ UNCHANGED tracker /\ Handler

DropTold(t) ==
  /\ turn[t].at = "told" /\ ~Open(t)
  /\ turn' = [turn EXCEPT ![t].at = "over", ![t].metric = "disconnected"]
  /\ ReleasesAdmission /\ Handler

DropRest(t) ==
  /\ turn[t].at \in {"finalizing", "responding"} /\ ~Open(t)
  /\ turn' = [turn EXCEPT ![t].at = "over", ![t].metric = "disconnected"]
  /\ UNCHANGED tracker /\ Handler

(* The panel aborts a request that has a record and is not complete.       *)
Abort(t) ==
  /\ turn[t].recorder /\ turn[t].record = "none" /\ ~turn[t].aborted
  /\ turn' = [turn EXCEPT ![t].aborted = TRUE]
  /\ UNCHANGED tracker /\ Handler

-----------------------------------------------------------------------------
(* serve_until_shutdown *)

Lifetime == UNCHANGED <<inflight, permits, conn, turn>>

BeginDrain ==
  /\ shutdown = "serving"
  /\ shutdown' = "draining" /\ draining' = TRUE
  /\ emptied' = (inflight = 0)
  /\ UNCHANGED <<accepting, idle>> /\ Lifetime

(* With a handoff peer the listener closes before the wait. *)
StartWait(reusePort) ==
  /\ shutdown = "draining"
  /\ shutdown' = "waiting" /\ accepting' = ~reusePort
  /\ idle' = (inflight = 0)
  /\ UNCHANGED <<draining, emptied>> /\ Lifetime

(* The wait is over, or its time is. *)
StopServing ==
  /\ shutdown = "waiting"
  /\ shutdown' = "over" /\ accepting' = FALSE
  /\ UNCHANGED <<draining, emptied, idle>> /\ Lifetime

Rests ==
  /\ shutdown = "over"
  /\ \A t \in Turns : conn[t].at # "serving" /\ turn[t].at \in {"idle", "over"}
                      /\ turn[t].task \in {"none", "done"}
  /\ UNCHANGED vars

-----------------------------------------------------------------------------
Shutdown == BeginDrain \/ (\E reusePort \in BOOLEAN : StartWait(reusePort)) \/ StopServing

Connection(t) == Accept(t) \/ ClientLeaves(t) \/ ForceClose(t) \/ Graceful(t)

(* What the client, upstream and hyper's pulls bring about. *)
Progress(t) ==
  \/ Arrive(t)
  \/ BodyArrives(t) \/ BodyIsBad(t) \/ BodyFails(t)
  \/ StreamOpens(t) \/ StreamFails(t)
  \/ \E verdict \in {"completed", "failed"} : FirstDecides(t, verdict)
  \/ FirstCommits(t) \/ FirstTells(t)
  \/ ResponseEnds(t)
  \/ \E verdict \in {"completed", "failed", "disconnected"} : BodyDecides(t, verdict)
  \/ TailTaken(t) \/ BodyEnds(t) \/ ToldEnds(t)
  \/ Abort(t)

(* What runs on its own. *)
Runs(t) ==
  \/ Admit(t) \/ RefusalLeaves(t)
  \/ HandlerRecords(t) \/ HandlerReturns(t)
  \/ TaskRecords(t) \/ TaskReleases(t)
  \/ DropReading(t) \/ DropConnecting(t) \/ DropFirst(t)
  \/ DropBody(t) \/ DropTold(t) \/ DropRest(t)

Next == \/ Shutdown
        \/ \E t \in Turns : Connection(t) \/ Progress(t) \/ Runs(t)
        \/ Rests

(* The runtime polls what is ready and its blocking pool gets through; no  *)
(* fairness is asked of the client or of upstream.                         *)
Spec == Init /\ [][Next]_vars /\ \A t \in Turns : WF_vars(Runs(t))

-----------------------------------------------------------------------------
(* Every variable has its type. *)
Verdicts == {"none", "completed", "failed", "disconnected"}

TypeOK ==
  /\ shutdown \in {"serving", "draining", "waiting", "over"}
  /\ draining \in BOOLEAN /\ accepting \in BOOLEAN
  /\ inflight \in Nat /\ permits \in 0..MaxPermits
  /\ emptied \in BOOLEAN /\ idle \in BOOLEAN
  /\ conn \in [Turns -> [at : {"none", "serving", "graceful", "closed"}, armed : BOOLEAN]]
  /\ turn \in [Turns ->
       [at : {"idle", "added", "refused", "reading", "connecting", "first", "completing",
              "returning", "responding", "body", "tail", "told", "finalizing", "over"},
        verdict : Verdicts, task : {"none", "recording", "releasing", "done"},
        recorder : BOOLEAN, record : Verdicts \cup {"aborted"}, metric : Verdicts,
        aborted : BOOLEAN]]

(* http.rs:1395-1404, 1433-1458: through refusals, drops, bodies and their *)
(* tasks the tracker counts the turns in progress and no permit is lost or *)
(* given back twice (which the saturating count would hide).               *)
SlotsAccounted ==
  /\ inflight = Cardinality({t \in Turns : HoldsSlot(t)})
  /\ permits + Cardinality({t \in Turns : HoldsPermit(t)}) = MaxPermits

(* http.rs:1463-1467: a turn is either seen by the drain or sees it.  Once *)
(* the shutdown's wait has ended no turn is admitted or still in progress. *)
NoTurnAfterDrain ==
  idle => \A t \in Turns : ~HoldsPermit(t)

(* stream.rs:119-122, 662-679: "the slot stays occupied through the drain  *)
(* wait and meta/index writes", for every turn but one whose handler       *)
(* answers without a body after the stream opened.                         *)
SlotCoversStream ==
  \A t \in Turns :
    turn[t].recorder /\ ~HoldsSlot(t) /\ turn[t].at # "returning" => turn[t].record # "none"

(* http.rs:1446-1448: the admission lives as long as the handler, "so      *)
(* `wait_idle` covers the whole request": when the shutdown's wait has     *)
(* ended, every request has its record.                                    *)
WaitIdleCoversTurns ==
  idle =>
    \A t \in Turns : turn[t].recorder => turn[t].record # "none"

(* http.rs:664-670: a connection is told to stop only when no turn that    *)
(* was admitted is in progress anywhere, so no answer under way is cut.    *)
GracefulIsQuiet ==
  \A t \in Turns : conn[t].at = "graceful" => \A u \in Turns : ~HoldsPermit(u)

(* http.rs:1280-1300, stream.rs:105-112: the metric of a turn says what    *)
(* its record says, which is written first; a dropped turn is disconnected *)
(* in the metric whatever was known by then.                               *)
VerdictsAgree ==
  \A t \in Turns :
    /\ turn[t].metric = "completed" => turn[t].record = "completed"
    /\ turn[t].metric = "failed" /\ turn[t].recorder
         => turn[t].record \in {"failed", "disconnected", "aborted"}

(* debuglog.rs:1792-1795: the record is written once, although the         *)
(* handler's guard completes it again on every answer of its own.          *)
RecordIsFinal ==
  [][\A t \in Turns : turn[t].record # "none" => turn'[t].record = turn[t].record]_vars

(* stream.rs:452-490, http.rs:1328-1355: a turn whose connection is gone   *)
(* gives its slot back and leaves its record, wherever it stood, without   *)
(* any help from upstream.                                                 *)
GoneIsOver ==
  \A t \in Turns :
    conn[t].at = "closed" ~> ~HoldsSlot(t) /\ (turn[t].recorder => turn[t].record # "none")
=============================================================================
