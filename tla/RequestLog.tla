----------------------------- MODULE RequestLog -----------------------------
(***************************************************************************)
(* The recorder of one request (`Recorder`, `Shared` and `run_writer` of   *)
(* src/src/debuglog.rs): a bounded queue of write tasks filled under the   *)
(* state mutex, one worker thread that runs them in order, the barrier of  *)
(* `flush`, the panel's abort, and `complete`, which closes the queue,     *)
(* waits for the worker and writes the final record.                       *)
(*                                                                         *)
(* `enqueue` keeps the mutex from its look at `closed` to the end, but the *)
(* worker does not take it: the task may be received between `try_send`    *)
(* and the count of `queued`. Hence an offer is two actions (`Offer`,      *)
(* `CountIn`), with `holder` the producer that still has the mutex.        *)
(***************************************************************************)
EXTENDS Integers, Sequences, SequencesExt, FiniteSets

CONSTANTS
  Producers,     \* tasks of the request that hold a clone of the recorder
  Completers,    \* callers of `complete`: the finalizer and the guard's drop
  QueueDepth,    \* capacity of the channel (4096 in the code)
  CountWidth,    \* bits of the `queued` counter (64 in the code)
  Nobody,
  MaxOffers,     \* bound: tasks offered, the entry meta included
  MaxIoFaults    \* bound: file writes that fail

ASSUME ActorsAssumption == Nobody \notin Producers
ASSUME DepthAssumption == {QueueDepth, CountWidth, MaxOffers} \subseteq Nat \ {0}
                          /\ MaxIoFaults \in Nat
(* The counter can hold a full queue (4096 in a usize).                    *)
ASSUME WidthAssumption == 2 ^ CountWidth \in Nat /\ QueueDepth < 2 ^ CountWidth

VARIABLES
  holder,      \* the producer inside `enqueue`, or Nobody
  closed, tx, hook,   \* of RecorderState: closed, the sender, the abort hook
  aborted, cancelled, \* the abort mark, the request's cancellation token
  chan,        \* the channel of write tasks
  queued,      \* the published backlog, a machine counter
  dropped, folded,    \* drops of this request, those the manager's total has
  worker,      \* the write worker: where it stands and the task in its hands
  buffer, disk,       \* lines of the JSONL files: buffered, flushed
  meta, errorStage,   \* meta.json, and the first error's stage
  flusher,     \* the handler inside `flush`
  aborter,     \* the panel inside `abort_shared`
  completer,   \* each caller of `complete`
  record,      \* what the final meta and the index line say
  active,      \* the directory is in the active set
  ioErrors,    \* kinds of write failure counted for this directory
  offered,     \* every task offered so far, in order, and whether it was taken
  faults

queueVars == <<holder, closed, tx, chan, queued, dropped, folded, offered>>
fileVars == <<buffer, disk, meta, errorStage, ioErrors, faults>>
abortVars == <<hook, aborted, cancelled, aborter>>
endVars == <<completer, record, active>>
vars == <<queueVars, fileVars, abortVars, endVars, worker, flusher>>

Kinds == {"meta", "line", "error", "barrier"}
Task == [kind : Kinds, id : 0 .. MaxOffers]
NoTask == [kind |-> "barrier", id |-> 0]
Barrier == NoTask
NoRecord == [result |-> "none", stage |-> 0, cut |-> FALSE]
Results == {"completed", "failed", "disconnected"}

Modulus == 2 ^ CountWidth
Up(n) == (n + 1) % Modulus

(* Mutant: the counter stops at zero instead of wrapping.                  *)
DownToZero(n) == IF n = 0 THEN 0 ELSE n - 1

Down(n) == (n - 1) % Modulus

-----------------------------------------------------------------------------
(* The producers *)

Accepted(t) == [task |-> t, taken |-> TRUE]
Refused(t) == [task |-> t, taken |-> FALSE]

(* Closed: the drop is counted and folded at once, nobody reads it later.  *)
RefuseLate(t) ==
  /\ dropped' = dropped + 1
  /\ folded' = folded + 1
  /\ offered' = Append(offered, Refused(t))
  /\ UNCHANGED <<holder, chan>>

RefuseFull(t) ==
  /\ dropped' = dropped + 1
  /\ offered' = Append(offered, Refused(t))
  /\ UNCHANGED <<holder, chan, folded>>

Send(p, t) ==
  /\ chan' = Append(chan, t)
  /\ holder' = p
  /\ offered' = Append(offered, Accepted(t))
  /\ UNCHANGED <<dropped, folded>>

HasRoom == Len(chan) < QueueDepth

(* `enqueue` up to `try_send`. The first task of all is the entry meta,    *)
(* which `start` offers before anyone else has the recorder.               *)
Offer(p, kind) ==
  LET t == [kind |-> kind, id |-> Len(offered) + 1]
  IN  /\ holder = Nobody
      /\ Len(offered) < MaxOffers
      /\ flusher = "out"
      /\ \/ closed /\ RefuseLate(t)
         \/ ~closed /\ HasRoom /\ Send(p, t)
         \/ ~closed /\ ~HasRoom /\ RefuseFull(t)
      /\ UNCHANGED <<closed, tx, queued, fileVars, abortVars, endVars, worker, flusher>>

CountIn ==
  /\ holder # Nobody
  /\ queued' = Up(queued)
  /\ holder' = Nobody
  /\ UNCHANGED <<closed, tx, chan, dropped, folded, offered,
                 fileVars, abortVars, endVars, worker, flusher>>

-----------------------------------------------------------------------------
(* `flush`: the WebSocket handler calls it right after `start`, before the *)
(* recorder is shared, so that the queue is still open                     *)

FlushBegins ==
  /\ flusher = "may"
  /\ hook
  /\ flusher' = "sending"
  /\ queued' = Up(queued)
  /\ UNCHANGED <<holder, closed, tx, chan, dropped, folded, offered,
                 fileVars, abortVars, endVars, worker>>

(* A request over HTTP has no barrier.                                     *)
NoFlush ==
  /\ flusher = "may"
  /\ hook
  /\ flusher' = "out"
  /\ UNCHANGED <<queueVars, fileVars, abortVars, endVars, worker>>

(* Mutant: the call does not wait for the worker to meet it.               *)
FlushSendsOnly ==
  /\ flusher = "sending"
  /\ HasRoom
  /\ chan' = Append(chan, Barrier)
  /\ flusher' = "out"
  /\ UNCHANGED <<holder, closed, tx, queued, dropped, folded, offered,
                 fileVars, abortVars, endVars, worker>>

FlushSends ==
  /\ flusher = "sending"
  /\ HasRoom
  /\ chan' = Append(chan, Barrier)
  /\ flusher' = "waiting"
  /\ UNCHANGED <<holder, closed, tx, queued, dropped, folded, offered,
                 fileVars, abortVars, endVars, worker>>

-----------------------------------------------------------------------------
(* The worker *)

(* `recv` and the count that follows it: nothing else reads the counter    *)
(* but the panel.                                                          *)
Receive ==
  /\ worker.at = "recv"
  /\ chan # <<>>
  /\ worker' = [at |-> "run", task |-> Head(chan)]
  /\ chan' = Tail(chan)
  /\ queued' = Down(queued)
  /\ UNCHANGED <<holder, closed, tx, dropped, folded, offered,
                 fileVars, abortVars, endVars, flusher>>

(* A failed write is counted once per kind and directory.                  *)
IoFault(kind) ==
  /\ faults < MaxIoFaults
  /\ faults' = faults + 1
  /\ ioErrors' = ioErrors \cup {kind}

NoFault == UNCHANGED <<faults, ioErrors>>

WriteMeta(content) ==
  \/ NoFault /\ meta' = content
  \/ IoFault("file") /\ UNCHANGED meta

(* Only the first error is kept; its stage is set even if the file fails.  *)
WriteError(id) ==
  IF errorStage = 0
  THEN errorStage' = id /\ (NoFault \/ IoFault("file"))
  ELSE UNCHANGED errorStage /\ NoFault

Run ==
  /\ worker.at = "run"
  /\ worker' = [worker EXCEPT !.at = "ran"]
  /\ LET t == worker.task
     IN  \/ /\ t.kind = "meta"
            /\ WriteMeta("entry")
            /\ UNCHANGED <<buffer, disk, errorStage, flusher>>
         \/ /\ t.kind = "line"
            /\ \/ buffer' = Append(buffer, t.id) /\ NoFault
               \/ UNCHANGED buffer /\ IoFault("jsonl")
            /\ UNCHANGED <<disk, meta, errorStage, flusher>>
         \/ /\ t.kind = "error"
            /\ WriteError(t.id)
            /\ UNCHANGED <<buffer, disk, meta, flusher>>
         \/ /\ t.kind = "barrier"
            /\ flusher' = "out"
            /\ NoFault
            /\ UNCHANGED <<buffer, disk, meta, errorStage>>
  /\ UNCHANGED <<queueVars, abortVars, endVars>>

(* A buffer that cannot be flushed keeps its lines.                        *)
FlushJsonl ==
  \/ /\ disk' = disk \o buffer
     /\ buffer' = <<>>
     /\ NoFault
  \/ /\ buffer # <<>>
     /\ IoFault("jsonl")
     /\ UNCHANGED <<buffer, disk>>

AfterTask ==
  /\ worker.at = "ran"
  /\ worker' = [at |-> "recv", task |-> NoTask]
  /\ IF queued = 0 THEN FlushJsonl ELSE UNCHANGED <<buffer, disk, ioErrors, faults>>
  /\ UNCHANGED <<queueVars, abortVars, endVars, meta, errorStage, flusher>>

(* The channel is closed when the recorder's sender and the clone of a     *)
(* `flush` in progress are gone.                                           *)
ChannelClosed == ~tx /\ flusher # "sending"

(* Mutant: the files are closed without a last flush.                      *)
CloseUnflushed == buffer' = <<>> /\ UNCHANGED disk /\ NoFault

(* A file whose last flush fails is written once more when it is dropped.  *)
CloseFiles ==
  /\ buffer' = <<>>
  /\ \/ disk' = disk \o buffer /\ NoFault
     \/ buffer # <<>> /\ IoFault("jsonl") /\ disk' \in {disk, disk \o buffer}

WorkerEnds ==
  /\ worker.at = "recv"
  /\ chan = <<>>
  /\ ChannelClosed
  /\ worker' = [at |-> "done", task |-> NoTask]
  /\ CloseFiles
  /\ UNCHANGED <<queueVars, abortVars, endVars, meta, errorStage, flusher>>

-----------------------------------------------------------------------------
(* The panel's abort, `abort_shared` *)

(* `set_abort`, when `start` has put the recorder in the active set.       *)
AttachHook ==
  /\ flusher = "may"
  /\ ~hook
  /\ hook' = TRUE
  /\ UNCHANGED <<queueVars, fileVars, endVars, aborted, cancelled, aborter, worker, flusher>>

AbortLooks ==
  /\ aborter = "idle"
  /\ holder = Nobody
  /\ aborter' = IF hook THEN "hooked" ELSE "refused"
  /\ UNCHANGED <<queueVars, fileVars, endVars, hook, aborted, cancelled, worker, flusher>>

(* Mutant: the request is cancelled without the mark.                      *)
AbortUnmarked ==
  /\ aborter = "hooked"
  /\ aborter' = "marked"
  /\ UNCHANGED <<queueVars, fileVars, endVars, hook, aborted, cancelled, worker, flusher>>

AbortMarks ==
  /\ aborter = "hooked"
  /\ aborter' = "marked"
  /\ aborted' = TRUE
  /\ UNCHANGED <<queueVars, fileVars, endVars, hook, cancelled, worker, flusher>>

AbortCancels ==
  /\ aborter = "marked"
  /\ aborter' = "done"
  /\ cancelled' = TRUE
  /\ UNCHANGED <<queueVars, fileVars, endVars, hook, aborted, worker, flusher>>

-----------------------------------------------------------------------------
(* `complete` *)

Fold == folded' = folded + dropped

StillOpen == ~closed

(* Mutant: the recorder keeps its sender.                                  *)
KeepSender == UNCHANGED tx

DropSender == tx' = FALSE

(* The section under the mutex. A request is cut ("disconnected") because  *)
(* its client left or because its token was cancelled.                     *)
Close(c, result) ==
  /\ completer[c].at = "idle"
  /\ holder = Nobody
  /\ flusher = "out"
  /\ StillOpen
  /\ closed' = TRUE
  /\ DropSender
  /\ hook' = FALSE
  /\ Fold
  /\ completer' = [completer EXCEPT ![c] =
                     [at |-> "closed", result |-> result,
                      cut |-> cancelled /\ result = "disconnected"]]
  /\ UNCHANGED <<holder, chan, queued, dropped, offered, fileVars, worker, flusher,
                 aborted, cancelled, aborter, record, active>>

(* Somebody has completed the request already.                             *)
CompleteAgain(c) ==
  /\ completer[c].at = "idle"
  /\ holder = Nobody
  /\ closed
  /\ completer' = [completer EXCEPT ![c].at = "back"]
  /\ UNCHANGED <<queueVars, fileVars, abortVars, record, active, worker, flusher>>

ReadAbortMark(c) ==
  /\ completer[c].at = "closed"
  /\ completer' = [completer EXCEPT
       ![c].at = "waiting",
       ![c].result = IF aborted /\ @ = "disconnected" THEN "aborted" ELSE @]
  /\ UNCHANGED <<queueVars, fileVars, abortVars, record, active, worker, flusher>>

Drained == worker.at = "done"

WriteFinal(c) ==
  /\ completer[c].at = "waiting"
  /\ Drained
  /\ WriteMeta("final")
  /\ completer' = [completer EXCEPT ![c].at = "written"]
  /\ UNCHANGED <<queueVars, abortVars, buffer, disk, errorStage, record, active,
                 worker, flusher>>

(* `append_index` and `release_dir`.                                       *)
AppendAndRelease(c) ==
  /\ completer[c].at = "written"
  /\ record' = [result |-> completer[c].result, stage |-> errorStage,
                cut |-> completer[c].cut]
  /\ active' = FALSE
  /\ completer' = [completer EXCEPT ![c].at = "back"]
  /\ UNCHANGED <<queueVars, fileVars, abortVars, worker, flusher>>

-----------------------------------------------------------------------------
EntryMeta == [kind |-> "meta", id |-> 1]

(* `start` has made the directory, spawned the worker and offered the      *)
(* entry meta.                                                             *)
Init ==
  /\ holder = Nobody
  /\ closed = FALSE /\ tx = TRUE /\ hook = FALSE
  /\ aborted = FALSE /\ cancelled = FALSE
  /\ chan = <<EntryMeta>> /\ queued = 1
  /\ dropped = 0 /\ folded = 0
  /\ worker = [at |-> "recv", task |-> NoTask]
  /\ buffer = <<>> /\ disk = <<>>
  /\ meta = "none" /\ errorStage = 0
  /\ flusher = "may"
  /\ aborter = "idle"
  /\ completer = [c \in Completers |-> [at |-> "idle", result |-> "none", cut |-> FALSE]]
  /\ record = NoRecord
  /\ active = TRUE
  /\ ioErrors = {} /\ faults = 0
  /\ offered = <<Accepted(EntryMeta)>>

Flushing == FlushBegins \/ FlushSends
Working == Receive \/ Run \/ AfterTask \/ WorkerEnds
Completing(c) == \/ CompleteAgain(c)
                 \/ ReadAbortMark(c)
                 \/ WriteFinal(c)
                 \/ AppendAndRelease(c)

(* Everybody has returned and no more is offered.                          *)
Rests ==
  /\ \A c \in Completers : completer[c].at = "back"
  /\ Len(offered) = MaxOffers
  /\ aborter \in {"refused", "done"}
  /\ UNCHANGED vars

Next ==
  \/ \E p \in Producers, k \in {"line", "error"} : Offer(p, k)
  \/ CountIn
  \/ NoFlush \/ Flushing
  \/ Working
  \/ AttachHook \/ AbortLooks \/ AbortMarks \/ AbortCancels
  \/ \E c \in Completers : (\E r \in Results : Close(c, r)) \/ Completing(c)
  \/ Rests

(* Threads that can run do run; nobody is obliged to offer, to abort or to *)
(* complete.                                                               *)
Fairness ==
  /\ WF_vars(CountIn)
  /\ WF_vars(Flushing)
  /\ WF_vars(Working)
  /\ \A c \in Completers : WF_vars(Completing(c))

Spec == Init /\ [][Next]_vars /\ Fairness

-----------------------------------------------------------------------------
(* Properties *)

(* The tasks the queue took, and those it refused, by their place among    *)
(* all that were offered.                                                  *)
Drops == {i \in DOMAIN offered : ~offered[i].taken}
IdsOf(kind) == {i \in DOMAIN offered : offered[i].taken /\ offered[i].task.kind = kind}

TypeOK ==
  /\ holder \in Producers \cup {Nobody}
  /\ {closed, tx, hook, aborted, cancelled, active} \subseteq BOOLEAN
  /\ chan \in Seq(Task) /\ Len(chan) <= QueueDepth
  /\ queued \in 0 .. Modulus - 1
  /\ {dropped, folded} \subseteq 0 .. MaxOffers
  /\ worker.at \in {"recv", "run", "ran", "done"} /\ worker.task \in Task
  /\ meta \in {"none", "entry", "final"} /\ errorStage \in 0 .. MaxOffers
  /\ flusher \in {"may", "sending", "waiting", "out"}
  /\ aborter \in {"idle", "hooked", "marked", "refused", "done"}
  /\ \A c \in Completers :
       completer[c].at \in {"idle", "closed", "waiting", "written", "back"}
  /\ ioErrors \subseteq {"file", "jsonl"} /\ faults \in 0 .. MaxIoFaults

(* Every refused task is a drop, and from the moment the queue is closed   *)
(* the manager's total has each drop of the request exactly once, however  *)
(* late it came: `enqueue` and `complete` split them at `closed`.          *)
DropsCountedOnce ==
  /\ dropped = Cardinality(Drops)
  /\ folded = IF closed THEN dropped ELSE 0

(* The backlog the panel shows is exact whenever nobody is between a step  *)
(* on the channel and its count, although the worker may count a task off  *)
(* before its producer has counted it in and the counter wraps.            *)
BacklogIsExact ==
  holder = Nobody /\ flusher # "sending" => queued = Len(chan)

(* Both counters are right: no drop is lost or told twice, and the backlog *)
(* comes back from every wrap.                                             *)
CountsAreExact == DropsCountedOnce /\ BacklogIsExact

(* The lines of the JSONL files are the accepted ones in the order of      *)
(* their offer, none twice; the missing ones are later, and there are none *)
(* once the worker is done, if no write failed, although the flush on an idle queue may be skipped when   *)
(* the backlog is read between a task and its count.                       *)
LinesInOrder ==
  LET lines == disk \o buffer
  IN  /\ \A i, j \in DOMAIN lines : i < j => lines[i] < lines[j]
      /\ Range(lines) \subseteq IdsOf("line")
      /\ "jsonl" \notin ioErrors =>
           \A i \in IdsOf("line") \ Range(lines), j \in Range(lines) : j < i
      /\ worker.at = "done" /\ "jsonl" \notin ioErrors => Range(disk) = IdsOf("line")

(* The final record of a request is written after everything it was        *)
(* offered: the worker is done, the entry meta does not overwrite it, and  *)
(* the index line has the stage of the earliest error accepted.            *)
FinalIsLast ==
  \A c \in Completers : completer[c].at = "written" =>
    /\ worker.at = "done" /\ chan = <<>> /\ buffer = <<>>
    /\ meta = "final" \/ "file" \in ioErrors
    /\ IdsOf("error") = {} => errorStage = 0
    /\ IdsOf("error") # {} => errorStage \in IdsOf("error")
    /\ \A i \in IdsOf("error") : errorStage <= i

(* When a request is completed its directory is complete: the lines are    *)
(* there in their order and the final meta comes after all else.           *)
LogIsComplete == LinesInOrder /\ FinalIsLast

(* The finalizer and the guard's drop write one index line between them,   *)
(* and it is the right one: a request that ended because the panel         *)
(* cancelled it is recorded as aborted, not as a client that left (the     *)
(* mark is set before the hook is called and read after the queue is       *)
(* closed).                                                                *)
RecordStands ==
  [][record' # record => /\ record = NoRecord /\ active /\ ~active'
                         /\ record'.cut => record'.result = "aborted"]_vars

(* When `flush` has returned, the entry meta is on disk (or its write      *)
(* failed): the WebSocket handler answers only after that.                 *)
FlushIsABarrier ==
  [][(flusher \in {"sending", "waiting"} /\ flusher' = "out")
       => meta # "none" \/ "file" \in ioErrors]_vars

(* The wait of `complete` for the worker always ends and the directory     *)
(* leaves the active set, whatever failed on the way.                      *)
CompleteReturns == closed ~> ~active
=============================================================================
