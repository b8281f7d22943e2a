--------------------------- MODULE RequestLogProofs ---------------------------
(***************************************************************************)
(* What holds of RequestLog for any number of tasks, callers and faults    *)
(* and every depth of the queue.                                           *)
(*                                                                         *)
(* The verdict: whoever closes the queue is alone past that point          *)
(* (OneCloser), and the panel's mark is set before its cancellation, so    *)
(* that a request that was cut finds the mark when it looks (MarkFirst).   *)
(* The barrier: the worker has the entry meta before anything else         *)
(* (MetaFirst), so that it is written when the worker meets the barrier.   *)
(* The counts: how far the backlog is from the queue depends on who is     *)
(* between a step on the channel and its count (Backlog). The lines: what  *)
(* is due follows what is in the files, in the order of offer (DiskInv).   *)
(***************************************************************************)
EXTENDS RequestLog, FiniteSetTheorems, SequenceTheorems, TLAPS

Finishing == {"closed", "waiting", "written"}

CompleterOK ==
  completer \in [Completers -> [at : {"idle", "back"} \cup Finishing,
                                result : Results \cup {"none", "aborted"}, cut : BOOLEAN]]

(* One caller of `complete` has closed the queue, and there is no index    *)
(* line until it writes it.                                                *)
OneCloser ==
  /\ \A c, d \in Completers :
       completer[c].at \in Finishing /\ completer[d].at \in Finishing => c = d
  /\ \A c \in Completers :
       completer[c].at \in Finishing => closed /\ active /\ record = NoRecord
  /\ ~closed => active /\ record = NoRecord

(* The mark is there before the cancellation, and a verdict that has been  *)
(* reached honours it.                                                     *)
MarkFirst ==
  /\ aborter \in {"marked", "done"} => aborted
  /\ cancelled => aborted
  /\ \A c \in Completers : completer[c].cut =>
       /\ aborted
       /\ completer[c].at = "closed" => completer[c].result = "disconnected"
       /\ completer[c].at \in {"waiting", "written"} => completer[c].result = "aborted"

VerdictInv == CompleterOK /\ OneCloser /\ MarkFirst

(* The entry meta is written, or was tried, or is what the worker does     *)
(* next.                                                                   *)
MetaFirst ==
  \/ meta # "none" \/ "file" \in ioErrors
  \/ worker.at = "recv" /\ chan # <<>> /\ Head(chan).kind = "meta"
  \/ worker.at = "run" /\ worker.task.kind = "meta"

BarrierInv ==
  /\ chan \in Seq(Task) /\ offered \in Seq([task : Task, taken : BOOLEAN])
  /\ MetaFirst

-----------------------------------------------------------------------------
(* The verdict *)

LEMMA VerdictInit == Init => VerdictInv
BY DEF Init, VerdictInv, CompleterOK, OneCloser, MarkFirst, Finishing, Results

(* A step of one caller of `complete` leaves the others where they are.    *)
LEMMA CompleterStep ==
  ASSUME VerdictInv, NEW c \in Completers, NEW q, completer' = [completer EXCEPT ![c] = q]
  PROVE  completer'[c] = q /\ \A d \in Completers \ {c} : completer'[d] = completer[d]
BY DEF VerdictInv, CompleterOK

LEMMA CloseStep ==
  ASSUME VerdictInv, NEW c \in Completers, NEW r \in Results, Close(c, r)
  PROVE  VerdictInv'
<1> DEFINE q == [at |-> "closed", result |-> r, cut |-> cancelled /\ r = "disconnected"]
<1>1. /\ completer' = [completer EXCEPT ![c] = q]
      /\ closed' /\ active' = active /\ record' = record
      /\ aborter' = aborter /\ aborted' = aborted /\ cancelled' = cancelled
  BY DEF Close
<1>2. completer'[c] = q /\ \A d \in Completers \ {c} : completer'[d] = completer[d]
  BY <1>1, CompleterStep
<1>3. ~closed /\ active /\ record = NoRecord
      /\ \A d \in Completers : completer[d].at \notin Finishing
  BY DEF Close, StillOpen, VerdictInv, OneCloser
<1>4. q.at = "closed" /\ q.result = r /\ q.cut = (cancelled /\ r = "disconnected")
  OBVIOUS
<1>5. CompleterOK'
  <2>1. q.cut \in BOOLEAN
    BY <1>4
  <2> QED BY <1>1, <2>1, <1>4 DEF VerdictInv, CompleterOK, Finishing
<1>6. OneCloser'
  BY <1>1, <1>2, <1>3, <1>4 DEF OneCloser
<1>7. MarkFirst'
  BY <1>1, <1>2, <1>4 DEF VerdictInv, MarkFirst
<1> QED BY <1>5, <1>6, <1>7 DEF VerdictInv

LEMMA CompletingStep ==
  ASSUME VerdictInv, NEW c \in Completers, Completing(c)
  PROVE  /\ VerdictInv'
         /\ record' # record => /\ record = NoRecord /\ active /\ ~active'
                                /\ record'.cut => record'.result = "aborted"
<1>0. completer[c] \in [at : {"idle", "back"} \cup Finishing,
                        result : Results \cup {"none", "aborted"}, cut : BOOLEAN]
  BY DEF VerdictInv, CompleterOK
<1>1. /\ closed' = closed
      /\ aborter' = aborter /\ aborted' = aborted /\ cancelled' = cancelled
  BY DEF Completing, CompleteAgain, ReadAbortMark, WriteFinal, AppendAndRelease,
         queueVars, abortVars
<1>2. ASSUME NEW q, completer' = [completer EXCEPT ![c] = q],
             q \in [at : {"idle", "back"} \cup Finishing,
                    result : Results \cup {"none", "aborted"}, cut : BOOLEAN],
             q.cut = completer[c].cut
      PROVE  CompleterOK' /\ completer'[c] = q
             /\ \A d \in Completers \ {c} : completer'[d] = completer[d]
  BY <1>2, CompleterStep DEF VerdictInv, CompleterOK
<1>3. CASE CompleteAgain(c)
  <2> DEFINE q == [completer[c] EXCEPT !.at = "back"]
  <2>1. completer' = [completer EXCEPT ![c] = q] /\ closed
        /\ UNCHANGED <<active, record>> /\ completer[c].at = "idle"
    BY <1>3 DEF CompleteAgain, fileVars
  <2>2. CompleterOK' /\ completer'[c] = q
        /\ \A d \in Completers \ {c} : completer'[d] = completer[d]
    BY <1>0, <1>2, <2>1
  <2>3. q.at = "back" /\ q.cut = completer[c].cut
    BY <1>0
  <2> HIDE DEF q
  <2>4. OneCloser'
    BY <1>1, <2>1, <2>2, <2>3 DEF VerdictInv, OneCloser, Finishing
  <2>5. MarkFirst'
    BY <1>1, <2>1, <2>2, <2>3 DEF VerdictInv, MarkFirst
  <2> QED BY <2>1, <2>2, <2>4, <2>5 DEF VerdictInv
<1>4. CASE ReadAbortMark(c)
  <2> DEFINE verdict == IF aborted /\ completer[c].result = "disconnected"
                        THEN "aborted" ELSE completer[c].result
             q == [completer[c] EXCEPT !.at = "waiting", !.result = verdict]
  <2>1. completer' = [completer EXCEPT ![c] = q] /\ UNCHANGED <<active, record>>
        /\ completer[c].at = "closed"
    BY <1>4 DEF ReadAbortMark
  <2>2. q \in [at : {"idle", "back"} \cup Finishing,
               result : Results \cup {"none", "aborted"}, cut : BOOLEAN]
        /\ q.at = "waiting" /\ q.cut = completer[c].cut /\ q.result = verdict
    BY <1>0 DEF Finishing
  <2> HIDE DEF q
  <2>3. CompleterOK' /\ completer'[c] = q
        /\ \A d \in Completers \ {c} : completer'[d] = completer[d]
    BY <1>2, <2>1, <2>2
  <2>4. OneCloser'
    BY <1>1, <2>1, <2>2, <2>3 DEF VerdictInv, OneCloser, Finishing
  <2>5. MarkFirst'
    BY <1>1, <2>1, <2>2, <2>3 DEF VerdictInv, MarkFirst
  <2> QED BY <2>1, <2>3, <2>4, <2>5 DEF VerdictInv
<1>5. CASE WriteFinal(c)
  <2> DEFINE q == [completer[c] EXCEPT !.at = "written"]
  <2>1. completer' = [completer EXCEPT ![c] = q] /\ UNCHANGED <<active, record>>
        /\ completer[c].at = "waiting"
    BY <1>5 DEF WriteFinal
  <2>2. q \in [at : {"idle", "back"} \cup Finishing,
               result : Results \cup {"none", "aborted"}, cut : BOOLEAN]
        /\ q.at = "written" /\ q.cut = completer[c].cut /\ q.result = completer[c].result
    BY <1>0 DEF Finishing
  <2> HIDE DEF q
  <2>3. CompleterOK' /\ completer'[c] = q
        /\ \A d \in Completers \ {c} : completer'[d] = completer[d]
    BY <1>2, <2>1, <2>2
  <2>4. OneCloser'
    BY <1>1, <2>1, <2>2, <2>3 DEF VerdictInv, OneCloser, Finishing
  <2>5. MarkFirst'
    BY <1>1, <2>1, <2>2, <2>3 DEF VerdictInv, MarkFirst
  <2> QED BY <2>1, <2>3, <2>4, <2>5 DEF VerdictInv
<1>6. CASE AppendAndRelease(c)
  <2> DEFINE q == [completer[c] EXCEPT !.at = "back"]
  <2>1. /\ completer' = [completer EXCEPT ![c] = q] /\ completer[c].at = "written"
        /\ active' = FALSE
        /\ record' = [result |-> completer[c].result, stage |-> errorStage,
                      cut |-> completer[c].cut]
    BY <1>6 DEF AppendAndRelease
  <2>2. CompleterOK' /\ completer'[c] = q
        /\ \A d \in Completers \ {c} : completer'[d] = completer[d]
    BY <1>0, <1>2, <2>1
  <2>3. q.at = "back" /\ q.cut = completer[c].cut
    BY <1>0
  <2> HIDE DEF q
  <2>4. /\ closed /\ active /\ record = NoRecord
        /\ \A d \in Completers \ {c} : completer[d].at \notin Finishing
    BY <2>1 DEF VerdictInv, OneCloser, Finishing
  <2>5. OneCloser'
    BY <1>1, <2>2, <2>3, <2>4 DEF OneCloser, Finishing
  <2>6. MarkFirst'
    BY <1>1, <2>1, <2>2, <2>3 DEF VerdictInv, MarkFirst
  <2>7. record'.cut => record'.result = "aborted"
    BY <2>1 DEF VerdictInv, MarkFirst
  <2> QED BY <2>1, <2>2, <2>4, <2>5, <2>6, <2>7 DEF VerdictInv
<1> QED BY <1>3, <1>4, <1>5, <1>6 DEF Completing

LEMMA VerdictNext ==
  ASSUME VerdictInv, [Next]_vars
  PROVE  /\ VerdictInv'
         /\ record' # record => /\ record = NoRecord /\ active /\ ~active'
                                /\ record'.cut => record'.result = "aborted"
<1> USE DEF VerdictInv, CompleterOK, OneCloser, MarkFirst
<1>1. ASSUME NEW p \in Producers, NEW k \in {"line", "error"}, Offer(p, k)
      PROVE  UNCHANGED <<closed, abortVars, endVars>>
  BY <1>1 DEF Offer
<1>2. CASE CountIn \/ NoFlush \/ Flushing \/ Working
  <2>1. UNCHANGED <<closed, abortVars, endVars>>
    BY <1>2 DEF CountIn, NoFlush, Flushing, FlushBegins, FlushSends, Working, Receive, Run,
                AfterTask, WorkerEnds, queueVars
  <2> QED BY <2>1 DEF abortVars, endVars
<1>3. CASE AttachHook \/ AbortLooks
  BY <1>3 DEF AttachHook, AbortLooks, queueVars, endVars
<1>4. CASE AbortMarks
  BY <1>4 DEF AbortMarks, queueVars, endVars
<1>5. CASE AbortCancels
  BY <1>5 DEF AbortCancels, queueVars, endVars
<1>6. CASE Rests \/ UNCHANGED vars
  BY <1>6 DEF Rests, vars, queueVars, abortVars, endVars
<1>7. CASE \E p \in Producers, k \in {"line", "error"} : Offer(p, k)
  BY <1>1, <1>7 DEF abortVars, endVars
<1> QED BY <1>2, <1>3, <1>4, <1>5, <1>6, <1>7, CloseStep, CompletingStep, ZenonT(30)
        DEF Next, Close

-----------------------------------------------------------------------------
(* The barrier *)

LEMMA BarrierInit == Init => BarrierInv
BY DepthAssumption DEF Init, BarrierInv, MetaFirst, EntryMeta, Accepted, Task, Kinds

LEMMA BarrierNext ==
  ASSUME BarrierInv, [Next]_vars
  PROVE  /\ BarrierInv'
         /\ (flusher \in {"sending", "waiting"} /\ flusher' = "out")
              => meta # "none" \/ "file" \in ioErrors
<1>1. ASSUME NEW t \in Task, chan' = Append(chan, t),
             offered' = offered \/ offered' = Append(offered, Accepted(t)),
             UNCHANGED <<meta, ioErrors, worker>>
      PROVE  BarrierInv'
  <2>1. chan' \in Seq(Task) /\ chan' # <<>> /\ (chan # <<>> => Head(chan') = Head(chan))
    BY <1>1 DEF BarrierInv
  <2>2. offered' \in Seq([task : Task, taken : BOOLEAN])
    <3>1. Accepted(t) \in [task : Task, taken : BOOLEAN]
      BY DEF Accepted
    <3>2. CASE offered' = offered
      BY <3>2 DEF BarrierInv
    <3>3. CASE offered' = Append(offered, Accepted(t))
      BY <3>1, <3>3 DEF BarrierInv
    <3> QED BY <1>1, <3>2, <3>3
  <2> QED BY <1>1, <2>1, <2>2 DEF BarrierInv, MetaFirst
<1>2. ASSUME NEW t \in Task, offered' = Append(offered, Refused(t)),
             UNCHANGED <<chan, meta, ioErrors, worker>>
      PROVE  BarrierInv'
  <2>1. offered' \in Seq([task : Task, taken : BOOLEAN])
    <3>1. Refused(t) \in [task : Task, taken : BOOLEAN]
      BY DEF Refused
    <3> QED BY <1>2, <3>1 DEF BarrierInv
  <2> QED BY <1>2, <2>1 DEF BarrierInv, MetaFirst
<1>3. NoTask \in Task
  BY DepthAssumption DEF NoTask, Task, Kinds
<1>4. ASSUME NEW p \in Producers, NEW k \in {"line", "error"}, Offer(p, k)
      PROVE  BarrierInv' /\ flusher' = flusher
  <2> DEFINE t == [kind |-> k, id |-> Len(offered) + 1]
  <2>1. flusher' = flusher /\ UNCHANGED <<meta, ioErrors, worker>>
    BY <1>4 DEF Offer, fileVars
  <2>2. t \in Task
    BY <1>4, DepthAssumption DEF Offer, BarrierInv, Task, Kinds
  <2>3. \/ UNCHANGED chan /\ offered' = Append(offered, Refused(t))
        \/ chan' = Append(chan, t) /\ offered' = Append(offered, Accepted(t))
    BY <1>4 DEF Offer, RefuseLate, RefuseFull, Send
  <2> HIDE DEF t
  <2> QED BY <1>1, <1>2, <2>1, <2>2, <2>3
<1>5. CASE FlushSends
  <2>1. chan' = Append(chan, Barrier) /\ offered' = offered /\ flusher' = "waiting"
        /\ UNCHANGED <<meta, ioErrors, worker>>
    BY <1>5 DEF FlushSends, fileVars
  <2> QED BY <1>1, <1>3, <2>1 DEF Barrier
<1>6. CASE Receive
  <2>1. chan # <<>> /\ worker' = [at |-> "run", task |-> Head(chan)] /\ chan' = Tail(chan)
        /\ worker.at = "recv" /\ UNCHANGED <<offered, meta, ioErrors, flusher>>
    BY <1>6 DEF Receive, fileVars
  <2>2. chan' \in Seq(Task)
    BY <2>1 DEF BarrierInv
  <2>3. MetaFirst'
    BY <2>1 DEF BarrierInv, MetaFirst
  <2> QED BY <2>1, <2>2, <2>3 DEF BarrierInv
<1>7. CASE Run
  <2>1. UNCHANGED <<chan, offered>> /\ worker.at = "run"
    BY <1>7 DEF Run, queueVars
  <2>2. ioErrors \subseteq ioErrors'
    BY <1>7 DEF Run, WriteMeta, WriteError, NoFault, IoFault
  <2>3. worker.task.kind = "meta" => meta' = "entry" \/ "file" \in ioErrors'
    BY <1>7 DEF Run, WriteMeta, NoFault, IoFault
  <2>4. meta' = meta \/ meta' = "entry"
    BY <1>7 DEF Run, WriteMeta
  <2>5. flusher' # flusher => worker.task.kind = "barrier"
    BY <1>7 DEF Run
  <2> QED BY <2>1, <2>2, <2>3, <2>4, <2>5 DEF BarrierInv, MetaFirst
<1>8. CASE AfterTask \/ WorkerEnds
  <2>1. UNCHANGED <<chan, offered, meta, flusher>> /\ worker.at # "run"
        /\ (worker.at = "recv" => chan = <<>>)
    BY <1>8 DEF AfterTask, WorkerEnds, queueVars
  <2>2. ioErrors \subseteq ioErrors'
    BY <1>8 DEF AfterTask, WorkerEnds, FlushJsonl, CloseFiles, NoFault, IoFault
  <2> QED BY <2>1, <2>2 DEF BarrierInv, MetaFirst
<1>9. ASSUME NEW c \in Completers, Completing(c)
      PROVE  BarrierInv' /\ flusher' = flusher
  <2>1. UNCHANGED <<chan, offered, worker, flusher>>
    BY <1>9 DEF Completing, CompleteAgain, ReadAbortMark, WriteFinal, AppendAndRelease,
                queueVars
  <2>2. ioErrors \subseteq ioErrors' /\ (meta' = meta \/ meta' = "final")
    BY <1>9 DEF Completing, CompleteAgain, ReadAbortMark, WriteFinal, AppendAndRelease,
                WriteMeta, NoFault, IoFault, fileVars
  <2> QED BY <2>1, <2>2 DEF BarrierInv, MetaFirst
<1>10. ASSUME NEW c \in Completers, NEW r \in Results, Close(c, r)
       PROVE  BarrierInv' /\ flusher' = flusher
  BY <1>10 DEF Close, Fold, DropSender, fileVars, BarrierInv, MetaFirst
<1>11. CASE CountIn \/ NoFlush \/ FlushBegins
  BY <1>11 DEF CountIn, NoFlush, FlushBegins, queueVars, fileVars, BarrierInv, MetaFirst
<1>12. CASE AttachHook \/ AbortLooks \/ AbortMarks \/ AbortCancels
  BY <1>12 DEF AttachHook, AbortLooks, AbortMarks, AbortCancels, queueVars, fileVars,
               BarrierInv, MetaFirst
<1>13. CASE Rests \/ UNCHANGED vars
  BY <1>13 DEF Rests, vars, queueVars, fileVars, BarrierInv, MetaFirst
<1> QED BY <1>4, <1>5, <1>6, <1>7, <1>8, <1>9, <1>10, <1>11, <1>12, <1>13
        DEF Next, Flushing, Working

-----------------------------------------------------------------------------
(* `complete` (debuglog.rs:1823-1868) writes one index line, whoever of    *)
(* the finalizer and the guard's drop is first, and a request the panel    *)
(* has cancelled is recorded as aborted.                                   *)
THEOREM VerdictStands == Spec => RecordStands
<1>1. VerdictInv /\ [Next]_vars =>
        [record' # record => /\ record = NoRecord /\ active /\ ~active'
                             /\ record'.cut => record'.result = "aborted"]_vars
  BY VerdictNext
<1>2. VerdictInv /\ [Next]_vars => VerdictInv'
  BY VerdictNext
<1> QED BY VerdictInit, <1>1, <1>2, PTL DEF Spec, RecordStands

(* `flush` (debuglog.rs:1644-1660) returns when the entry meta is on disk, *)
(* or its write has failed, however long the queue is.                     *)
THEOREM FlushReturnsLate == Spec => FlushIsABarrier
<1>1. BarrierInv /\ [Next]_vars =>
        [(flusher \in {"sending", "waiting"} /\ flusher' = "out")
           => meta # "none" \/ "file" \in ioErrors]_vars
  <2> SUFFICES ASSUME BarrierInv, Next, flusher \in {"sending", "waiting"}, flusher' = "out"
               PROVE  meta # "none" \/ "file" \in ioErrors
    OBVIOUS
  <2> QED BY BarrierNext
<1>2. BarrierInv /\ [Next]_vars => BarrierInv'
  BY BarrierNext
<1> QED BY BarrierInit, <1>1, <1>2, PTL DEF Spec, FlushIsABarrier
-----------------------------------------------------------------------------
(* The queue *)

(* What the worker has not run yet, the task in its hands first.           *)
Due == (IF worker.at = "run" THEN <<worker.task>> ELSE <<>>) \o chan

(* The barrier is in the queue while the handler waits for it, and once.   *)
BarrierOnce ==
  \A i, j \in DOMAIN Due :
    Due[i].kind = "barrier" => flusher = "waiting" /\ (Due[j].kind = "barrier" => i = j)

QueueInv ==
  /\ BarrierInv /\ BarrierOnce
  /\ worker.at \in {"recv", "run", "ran", "done"} /\ worker.task \in Task

LEMMA TailOfOne ==
  ASSUME NEW S, NEW one \in Seq(S), Len(one) = 1, NEW rest \in Seq(S)
  PROVE  /\ one \o rest \in Seq(S) /\ one \o rest # <<>> /\ (one \o rest)[1] = one[1]
         /\ Tail(one \o rest) = rest
<1> DEFINE all == one \o rest
<1>1. /\ all \in Seq(S) /\ Len(all) = 1 + Len(rest)
      /\ \A i \in 1 .. 1 + Len(rest) : all[i] = IF i <= 1 THEN one[i] ELSE rest[i - 1]
  <2>1. /\ all \in Seq(S) /\ Len(all) = Len(one) + Len(rest)
        /\ \A i \in 1 .. Len(one) + Len(rest) :
             all[i] = IF i <= Len(one) THEN one[i] ELSE rest[i - Len(one)]
    BY ConcatProperties, Zenon
  <2> HIDE DEF all
  <2> QED BY <2>1
<1> HIDE DEF all
<1>2. Len(rest) \in Nat /\ all # <<>> /\ all[1] = one[1]
  BY <1>1
<1>3. Tail(all) \in Seq(S) /\ Len(Tail(all)) = Len(rest)
      /\ \A i \in 1 .. Len(rest) : Tail(all)[i] = all[i + 1]
  BY <1>1, <1>2
<1>4. ASSUME NEW i \in 1 .. Len(rest) PROVE Tail(all)[i] = rest[i]
  <2>1. i + 1 \in 1 .. 1 + Len(rest) /\ ~(i + 1 <= 1) /\ (i + 1) - 1 = i
    BY <1>2
  <2> QED BY <1>1, <1>3, <2>1
<1>5. Tail(all) = rest
  BY <1>3, <1>4, SeqEqual
<1> QED BY <1>1, <1>2, <1>5 DEF all

LEMMA DueIs ==
  ASSUME chan \in Seq(Task), worker.task \in Task
  PROVE  /\ Due \in Seq(Task)
         /\ worker.at # "run" => Due = chan
         /\ worker.at = "run" => /\ Due[1] = worker.task /\ Due # <<>>
                                 /\ Tail(Due) = chan
<1> DEFINE one == <<worker.task>>
<1>1. one \in Seq(Task) /\ Len(one) = 1 /\ one[1] = worker.task
  OBVIOUS
<1>2. CASE worker.at = "run"
  <2> HIDE DEF one
  <2>1. Due = one \o chan
    BY <1>2 DEF Due, one
  <2>2. Due \in Seq(Task) /\ Due # <<>> /\ Due[1] = one[1] /\ Tail(Due) = chan
    BY <1>1, <2>1, TailOfOne
  <2> QED BY <1>1, <1>2, <2>2
<1>3. CASE worker.at # "run"
  BY <1>3 DEF Due
<1> QED BY <1>2, <1>3

LEMMA DueOnAppend ==
  ASSUME QueueInv, NEW t \in Task, chan' = Append(chan, t), worker' = worker
  PROVE  Due' = Append(Due, t)
<1> DEFINE one == IF worker.at = "run" THEN <<worker.task>> ELSE <<>>
<1>1. one \in Seq(Task) /\ chan \in Seq(Task)
  BY DEF QueueInv, BarrierInv
<1>2. Due = one \o chan /\ Due' = one \o Append(chan, t)
  BY DEF Due
<1> HIDE DEF one
<1>3. chan' = chan \o <<t>> /\ Due' = one \o chan'
  BY <1>1, <1>2, AppendIsConcat
<1>4. (one \o chan) \o <<t>> = one \o (chan \o <<t>>)
  BY <1>1, ConcatAssociative
<1>5. Due \in Seq(Task) /\ Append(Due, t) = Due \o <<t>>
  BY <1>1, <1>2, AppendIsConcat
<1> QED BY <1>2, <1>3, <1>4, <1>5

LEMMA DueOnReceive ==
  ASSUME QueueInv, Receive
  PROVE  Due' = Due
<1>1. chan \in Seq(Task) /\ chan # <<>> /\ worker.at # "run"
      /\ chan' = Tail(chan) /\ worker'.at = "run" /\ worker'.task = Head(chan)
  BY DEF Receive, QueueInv, BarrierInv
<1>2. Due = chan /\ Due' = <<Head(chan)>> \o Tail(chan)
  BY <1>1 DEF Due
<1>3. \A S : \A x \in Seq(S) : x # <<>> => <<Head(x)>> \o Tail(x) = x
  BY HeadTailProperties, SeqEqual
<1> QED BY <1>1, <1>2, <1>3

LEMMA DueOnRun ==
  ASSUME QueueInv, Run
  PROVE  /\ Due # <<>> /\ Due \in Seq(Task) /\ Due[1] = worker.task /\ Due' = Tail(Due)
         /\ worker.task \in Task
<1>1. worker.at = "run" /\ worker' = [worker EXCEPT !.at = "ran"] /\ chan' = chan
  BY DEF Run, queueVars
<1>2. chan \in Seq(Task) /\ worker.task \in Task
  BY DEF QueueInv, BarrierInv
<1>3. worker'.at # "run"
  BY <1>1
<1>4. Due' = chan
  BY <1>1, <1>3 DEF Due
<1> QED BY <1>1, <1>2, <1>4, DueIs

LEMMA DueOnRest ==
  ASSUME QueueInv, chan' = chan, worker' = worker \/ AfterTask \/ WorkerEnds
  PROVE  Due' = Due
<1>1. CASE worker' = worker
  BY <1>1 DEF Due
<1>2. CASE AfterTask \/ WorkerEnds
  <2>1. worker.at # "run" /\ worker'.at # "run"
    BY <1>2 DEF AfterTask, WorkerEnds
  <2> QED BY <2>1 DEF Due
<1> QED BY <1>1, <1>2

LEMMA QueueInit == Init => QueueInv
<1> SUFFICES ASSUME Init PROVE QueueInv
  OBVIOUS
<1>1. worker = [at |-> "recv", task |-> NoTask] /\ chan = <<EntryMeta>> /\ NoTask \in Task
  BY DepthAssumption DEF Init, NoTask, Task, Kinds
<1>2. Due = <<EntryMeta>>
  BY <1>1 DEF Due
<1>3. BarrierOnce
  BY <1>2 DEF BarrierOnce, EntryMeta
<1> QED BY <1>1, <1>3, BarrierInit DEF QueueInv

LEMMA QueueNext ==
  ASSUME QueueInv, [Next]_vars
  PROVE  QueueInv'
<1>1. BarrierInv'
  BY BarrierNext DEF QueueInv
<1>2. chan \in Seq(Task) /\ Due \in Seq(Task) /\ NoTask \in Task
  BY DueIs, DepthAssumption DEF QueueInv, BarrierInv, NoTask, Task, Kinds
<1>3. worker'.at \in {"recv", "run", "ran", "done"} /\ worker'.task \in Task
  <2>1. CASE Receive
    <3>1. chan # <<>> /\ worker' = [at |-> "run", task |-> Head(chan)]
      BY <2>1 DEF Receive
    <3>2. Head(chan) \in Task
      BY <1>2, <3>1
    <3> QED BY <3>1, <3>2
  <2>2. CASE Run
    <3>1. worker' = [worker EXCEPT !.at = "ran"]
      BY <2>2 DEF Run
    <3>2. worker'.at \in {"ran"} \cup {worker.at} /\ worker'.task = worker.task
      BY <3>1
    <3> QED BY <3>2 DEF QueueInv
  <2>3. CASE AfterTask \/ WorkerEnds
    BY <1>2, <2>3 DEF AfterTask, WorkerEnds
  <2>4. CASE worker' = worker
    BY <2>4 DEF QueueInv
  <2> QED BY <2>1, <2>2, <2>3, <2>4
          DEF Next, vars, Flushing, Working, Offer, CountIn, NoFlush, FlushBegins, FlushSends,
              AttachHook, AbortLooks, AbortMarks, AbortCancels, Close, Completing,
              CompleteAgain, ReadAbortMark, WriteFinal, AppendAndRelease, Rests
<1> SUFFICES BarrierOnce'
  BY <1>1, <1>3 DEF QueueInv
<1>4. ASSUME Due' = Due, flusher' = flusher \/ flusher # "waiting" PROVE BarrierOnce'
  BY <1>4 DEF QueueInv, BarrierOnce
<1>5. ASSUME NEW t \in Task, Due' = Append(Due, t),
             \/ t.kind # "barrier" /\ flusher' = flusher
             \/ flusher # "waiting" /\ flusher' = "waiting"
      PROVE  BarrierOnce'
  <2>1. /\ DOMAIN Due = 1 .. Len(Due) /\ Len(Due) \in Nat
        /\ DOMAIN (Due') = 1 .. Len(Due) + 1 /\ Due'[Len(Due) + 1] = t
        /\ \A i \in DOMAIN Due : Due'[i] = Due[i]
    BY <1>2, <1>5
  <2> QED BY <1>5, <2>1 DEF QueueInv, BarrierOnce
<1>6. ASSUME NEW p \in Producers, NEW k \in {"line", "error"}, Offer(p, k)
      PROVE  BarrierOnce'
  <2> DEFINE t == [kind |-> k, id |-> Len(offered) + 1]
  <2>1. t \in Task /\ t.kind # "barrier"
    BY <1>6, DepthAssumption DEF Offer, QueueInv, BarrierInv, Task, Kinds
  <2>2. (chan' = chan \/ chan' = Append(chan, t)) /\ worker' = worker /\ flusher' = flusher
    BY <1>6 DEF Offer, RefuseLate, RefuseFull, Send
  <2> HIDE DEF t
  <2>3. Due' = Due \/ Due' = Append(Due, t)
    BY <2>1, <2>2, DueOnAppend, DueOnRest
  <2> QED BY <1>4, <1>5, <2>1, <2>2, <2>3
<1>7. CASE FlushSends
  <2>1. chan' = Append(chan, Barrier) /\ worker' = worker
        /\ flusher = "sending" /\ flusher' = "waiting"
    BY <1>7 DEF FlushSends
  <2> QED BY <1>2, <1>5, <2>1, DueOnAppend DEF Barrier
<1>8. CASE Receive
  <2>1. flusher' = flusher
    BY <1>8 DEF Receive
  <2> QED BY <1>4, <1>8, <2>1, DueOnReceive
<1>9. CASE Run
  <2>1. Due # <<>> /\ Due \in Seq(Task) /\ Due[1] = worker.task /\ Due' = Tail(Due)
    BY <1>9, DueOnRun
  <2>2. /\ DOMAIN Due = 1 .. Len(Due) /\ Len(Due) \in Nat /\ Len(Due) >= 1
        /\ DOMAIN (Due') = 1 .. Len(Due) - 1
        /\ \A i \in 1 .. Len(Due) - 1 : Due'[i] = Due[i + 1]
    BY <2>1
  <2>3. flusher' # flusher => Due[1].kind = "barrier"
    BY <1>9, <2>1 DEF Run
  <2> QED BY <2>2, <2>3 DEF QueueInv, BarrierOnce
<1>10. CASE AfterTask \/ WorkerEnds
  <2>1. chan' = chan /\ flusher' = flusher
    BY <1>10 DEF AfterTask, WorkerEnds, queueVars
  <2> QED BY <1>4, <1>10, <2>1, DueOnRest
<1>11. ASSUME chan' = chan, worker' = worker, flusher' = flusher \/ flusher = "may"
       PROVE  BarrierOnce'
  BY <1>4, <1>11, DueOnRest
<1>12. CASE CountIn \/ NoFlush \/ FlushBegins
  BY <1>11, <1>12 DEF CountIn, NoFlush, FlushBegins, queueVars
<1>13. CASE AttachHook \/ AbortLooks \/ AbortMarks \/ AbortCancels
  BY <1>11, <1>13 DEF AttachHook, AbortLooks, AbortMarks, AbortCancels, queueVars
<1>14. ASSUME NEW c \in Completers, Completing(c) \/ (\E r \in Results : Close(c, r))
       PROVE  BarrierOnce'
  BY <1>11, <1>14 DEF Completing, CompleteAgain, ReadAbortMark, WriteFinal, AppendAndRelease,
                      Close, queueVars
<1>15. CASE Rests \/ UNCHANGED vars
  BY <1>11, <1>15 DEF Rests, vars, queueVars
<1> QED BY <1>6, <1>7, <1>8, <1>9, <1>10, <1>12, <1>13, <1>14, <1>15
        DEF Next, Flushing, Working

-----------------------------------------------------------------------------
(* The counts *)

(* The backlog is one short while a producer has sent and not counted, and *)
(* one ahead while a flush has counted and not sent.                       *)
Backlog ==
  /\ holder # Nobody => flusher = "out" /\ queued = Down(Len(chan))
  /\ flusher = "sending" => queued = Up(Len(chan))
  /\ BacklogIsExact

CountInv ==
  /\ offered \in Seq([task : Task, taken : BOOLEAN])
  /\ chan \in Seq(Task) /\ Len(chan) <= QueueDepth
  /\ dropped \in Nat
  /\ DropsCountedOnce /\ Backlog

LEMMA CounterTurns ==
  ASSUME NEW n \in 0 .. Modulus - 1
  PROVE  /\ Modulus \in Nat /\ QueueDepth \in Nat \ {0} /\ QueueDepth < Modulus
         /\ Up(n) = IF n = Modulus - 1 THEN 0 ELSE n + 1
         /\ Down(n) = IF n = 0 THEN Modulus - 1 ELSE n - 1
         /\ Up(n) \in 0 .. Modulus - 1 /\ Down(n) \in 0 .. Modulus - 1
         /\ Down(Up(n)) = n /\ Up(Down(n)) = n
<1>1. Modulus \in Nat /\ QueueDepth \in Nat \ {0} /\ QueueDepth < Modulus
  BY DepthAssumption, WidthAssumption DEF Modulus
<1> HIDE DEF Modulus
<1>2. ASSUME NEW k \in 0 .. Modulus - 1 PROVE k % Modulus = k
  BY <1>1, <1>2
<1>3. Modulus % Modulus = 0 /\ (-1) % Modulus = Modulus - 1
  BY <1>1
<1>4. ASSUME NEW k \in 0 .. Modulus - 1
      PROVE  /\ Up(k) = IF k = Modulus - 1 THEN 0 ELSE k + 1
             /\ Down(k) = IF k = 0 THEN Modulus - 1 ELSE k - 1
  <2>1. CASE k = Modulus - 1
    BY <1>1, <1>2, <1>3, <2>1 DEF Up, Down
  <2>2. CASE k # Modulus - 1
    BY <1>1, <1>2, <1>3, <2>2 DEF Up, Down
  <2> QED BY <2>1, <2>2
<1>5. /\ Up(n) = IF n = Modulus - 1 THEN 0 ELSE n + 1
      /\ Down(n) = IF n = 0 THEN Modulus - 1 ELSE n - 1
  BY <1>4
<1>6. Up(n) \in 0 .. Modulus - 1 /\ Down(n) \in 0 .. Modulus - 1
  BY <1>1, <1>5
<1>7. Down(Up(n)) = n /\ Up(Down(n)) = n
  BY <1>1, <1>4, <1>5, <1>6
<1> QED BY <1>1, <1>5, <1>6, <1>7

(* A task that is offered is a drop exactly if it was refused.             *)
LEMMA DropsGrow ==
  ASSUME offered \in Seq([task : Task, taken : BOOLEAN]), NEW t \in Task,
         NEW b \in BOOLEAN, offered' = Append(offered, [task |-> t, taken |-> b])
  PROVE  /\ offered' \in Seq([task : Task, taken : BOOLEAN])
         /\ Cardinality(Drops)' = IF b THEN Cardinality(Drops) ELSE Cardinality(Drops) + 1
         /\ \A k \in Kinds : IdsOf(k)' = IF b /\ t.kind = k THEN IdsOf(k) \cup {Len(offered)'}
                                        ELSE IdsOf(k)
         /\ Len(offered)' = Len(offered) + 1
<1> DEFINE o == [task |-> t, taken |-> b]
<1>1. o \in [task : Task, taken : BOOLEAN] /\ o.task = t /\ o.taken = b
  OBVIOUS
<1> HIDE DEF o
<1>2. offered' = Append(offered, o)
  BY DEF o
<1>3. /\ offered' \in Seq([task : Task, taken : BOOLEAN])
      /\ Len(offered)' = Len(offered) + 1 /\ Len(offered) \in Nat
      /\ DOMAIN offered = 1 .. Len(offered) /\ DOMAIN offered' = 1 .. Len(offered) + 1
      /\ \A i \in DOMAIN offered : offered'[i] = offered[i]
      /\ offered'[Len(offered) + 1] = o
  BY <1>1, <1>2
<1>4. Drops' = IF b THEN Drops ELSE Drops \cup {Len(offered) + 1}
  BY <1>1, <1>3 DEF Drops
<1>5. IsFiniteSet(Drops) /\ Len(offered) + 1 \notin Drops
  <2>1. IsFiniteSet(1 .. Len(offered))
    BY <1>3, FS_Interval
  <2> QED BY <1>3, <2>1, FS_Subset DEF Drops
<1>6. Cardinality(Drops)' = IF b THEN Cardinality(Drops) ELSE Cardinality(Drops) + 1
  BY <1>4, <1>5, FS_AddElement
<1>7. ASSUME NEW k \in Kinds
      PROVE  IdsOf(k)' = IF b /\ t.kind = k THEN IdsOf(k) \cup {Len(offered) + 1} ELSE IdsOf(k)
  BY <1>1, <1>3 DEF IdsOf
<1> QED BY <1>3, <1>6, <1>7

LEMMA CountInit == Init => CountInv
<1> SUFFICES ASSUME Init PROVE CountInv
  OBVIOUS
<1>1. EntryMeta \in Task /\ MaxOffers \in Nat \ {0}
  BY DepthAssumption DEF EntryMeta, Task, Kinds
<1>2. offered \in Seq([task : Task, taken : BOOLEAN]) /\ offered[1].taken = TRUE
      /\ DOMAIN offered = {1}
  BY <1>1 DEF Init, Accepted
<1>3. chan \in Seq(Task) /\ Len(chan) = 1
  BY <1>1 DEF Init
<1>4. Drops = {}
  BY <1>2 DEF Drops
<1>5. Cardinality(Drops) = 0
  BY <1>4, FS_EmptySet
<1> QED BY <1>2, <1>3, <1>5, DepthAssumption
        DEF Init, CountInv, DropsCountedOnce, Backlog, BacklogIsExact

LEMMA CountOfOffer ==
  ASSUME CountInv, NEW p \in Producers, NEW k \in {"line", "error"}, Offer(p, k)
  PROVE  CountInv'
<1> DEFINE t == [kind |-> k, id |-> Len(offered) + 1]
<1>1. t \in Task
  BY DepthAssumption DEF Offer, CountInv, Task, Kinds
<1>2. holder = Nobody /\ flusher = "out" /\ UNCHANGED <<flusher, queued, closed>>
      /\ queued = Len(chan) /\ p # Nobody
  BY ActorsAssumption DEF Offer, CountInv, Backlog, BacklogIsExact
<1>3. CASE closed /\ RefuseLate(t)
  <2>1. offered' = Append(offered, [task |-> t, taken |-> FALSE])
        /\ dropped' = dropped + 1 /\ folded' = folded + 1 /\ UNCHANGED <<holder, chan>>
    BY <1>3 DEF RefuseLate, Refused
  <2> HIDE DEF t
  <2>2. /\ offered' \in Seq([task : Task, taken : BOOLEAN])
        /\ Cardinality(Drops)' = Cardinality(Drops) + 1
    BY <1>1, <2>1, DropsGrow DEF CountInv
  <2> QED BY <1>2, <1>3, <2>1, <2>2 DEF CountInv, DropsCountedOnce, Backlog, BacklogIsExact
<1>4. CASE ~closed /\ HasRoom /\ Send(p, t)
  <2>1. offered' = Append(offered, [task |-> t, taken |-> TRUE])
        /\ chan' = Append(chan, t) /\ holder' = p /\ UNCHANGED <<dropped, folded>>
    BY <1>4 DEF Send, Accepted
  <2> HIDE DEF t
  <2>2. /\ offered' \in Seq([task : Task, taken : BOOLEAN])
        /\ Cardinality(Drops)' = Cardinality(Drops)
    BY <1>1, <2>1, DropsGrow DEF CountInv
  <2>3. chan' \in Seq(Task) /\ Len(chan') = Len(chan) + 1 /\ Len(chan') <= QueueDepth
    <3>1. chan \in Seq(Task) /\ Len(chan) < QueueDepth /\ chan' = Append(chan, t)
      BY <1>4, <2>1 DEF HasRoom, CountInv
    <3>2. QueueDepth \in Nat /\ Len(chan) \in Nat
      BY <3>1, DepthAssumption
    <3>3. chan' \in Seq(Task) /\ Len(chan') = Len(chan) + 1
      BY <1>1, <3>1
    <3> QED BY <3>1, <3>2, <3>3
  <2>4. queued' = Down(Len(chan'))
    <3>1. Len(chan) + 1 \in 0 .. Modulus - 1
      BY <2>3, DepthAssumption, WidthAssumption DEF CountInv, Modulus
    <3> QED BY <1>2, <2>3, <3>1, CounterTurns DEF CountInv
  <2> QED BY <1>2, <2>1, <2>2, <2>3, <2>4
          DEF CountInv, DropsCountedOnce, Backlog, BacklogIsExact
<1>5. CASE ~closed /\ ~HasRoom /\ RefuseFull(t)
  <2>1. offered' = Append(offered, [task |-> t, taken |-> FALSE])
        /\ dropped' = dropped + 1 /\ UNCHANGED <<holder, chan, folded>>
    BY <1>5 DEF RefuseFull, Refused
  <2> HIDE DEF t
  <2>2. /\ offered' \in Seq([task : Task, taken : BOOLEAN])
        /\ Cardinality(Drops)' = Cardinality(Drops) + 1
    BY <1>1, <2>1, DropsGrow DEF CountInv
  <2> QED BY <1>2, <1>5, <2>1, <2>2 DEF CountInv, DropsCountedOnce, Backlog, BacklogIsExact
<1> QED BY <1>3, <1>4, <1>5 DEF Offer

(* The steps on the channel and its counter.                               *)
LEMMA CountOfQueue ==
  ASSUME CountInv, CountIn \/ FlushBegins \/ FlushSends \/ Receive
  PROVE  CountInv'
<1>1. Len(chan) \in 0 .. Modulus - 1 /\ Len(chan) \in Nat /\ Modulus \in Nat
      /\ QueueDepth \in Nat /\ QueueDepth < Modulus
  BY DepthAssumption, WidthAssumption DEF CountInv, Modulus
<1>2. NoTask \in Task
  BY DepthAssumption DEF NoTask, Task, Kinds
<1>3. UNCHANGED <<offered, dropped, folded, closed>>
  BY DEF CountIn, FlushBegins, FlushSends, Receive
<1>4. DropsCountedOnce'
  BY <1>3 DEF CountInv, DropsCountedOnce, Drops
<1>5. CASE CountIn
  <2>1. holder' = Nobody /\ queued' = Len(chan) /\ UNCHANGED <<flusher, chan>>
        /\ flusher = "out"
    BY <1>1, <1>5, CounterTurns DEF CountIn, CountInv, Backlog
  <2> QED BY <1>3, <1>4, <2>1 DEF CountInv, Backlog, BacklogIsExact
<1>6. CASE FlushBegins
  <2>1. flusher' = "sending" /\ holder = Nobody /\ UNCHANGED <<holder, chan>>
        /\ queued' = Up(Len(chan))
    BY <1>6 DEF FlushBegins, CountInv, Backlog, BacklogIsExact
  <2> QED BY <1>3, <1>4, <2>1 DEF CountInv, Backlog, BacklogIsExact
<1>7. CASE FlushSends
  <2>1. chan' = Append(chan, Barrier) /\ Len(chan) < QueueDepth /\ flusher' = "waiting"
        /\ queued' = Up(Len(chan)) /\ holder = Nobody /\ UNCHANGED holder
    BY <1>7 DEF FlushSends, HasRoom, CountInv, Backlog
  <2>2. chan' \in Seq(Task) /\ Len(chan') = Len(chan) + 1
    BY <1>2, <2>1 DEF Barrier, CountInv
  <2>3. queued' = Len(chan')
    BY <1>1, <2>1, <2>2, CounterTurns
  <2> QED BY <1>1, <1>3, <1>4, <2>1, <2>2, <2>3 DEF CountInv, Backlog, BacklogIsExact
<1>8. CASE Receive
  <2>1. chan # <<>> /\ chan' = Tail(chan) /\ queued' = Down(queued)
        /\ UNCHANGED <<holder, flusher>>
    BY <1>8 DEF Receive
  <2>2. chan' \in Seq(Task) /\ Len(chan') = Len(chan) - 1 /\ Len(chan) > 0
    BY <2>1 DEF CountInv
  <2>3. Len(chan') \in 0 .. Modulus - 1 /\ Down(Len(chan)) = Len(chan')
    <3>1. Len(chan) # 0 /\ Len(chan) - 1 \in 0 .. Modulus - 1
      BY <1>1, <2>2
    <3>2. Down(Len(chan)) = Len(chan) - 1
      BY <1>1, <3>1, CounterTurns
    <3> QED BY <2>2, <3>1, <3>2
  <2>4. Down(Up(Len(chan))) = Up(Down(Len(chan)))
    BY <1>1, CounterTurns
  <2>5. /\ holder # Nobody => queued' = Down(Len(chan'))
        /\ flusher = "sending" => queued' = Up(Len(chan'))
        /\ holder = Nobody /\ flusher # "sending" => queued' = Len(chan')
    BY <2>1, <2>3, <2>4 DEF CountInv, Backlog, BacklogIsExact
  <2> QED BY <1>1, <1>3, <1>4, <2>1, <2>2, <2>5 DEF CountInv, Backlog, BacklogIsExact
<1> QED BY <1>5, <1>6, <1>7, <1>8

LEMMA CountNext ==
  ASSUME QueueInv, CountInv, [Next]_vars
  PROVE  CountInv'
<1>1. ASSUME UNCHANGED <<offered, chan, dropped, queued, holder>>,
             folded' = (IF closed' THEN dropped ELSE 0),
             flusher' = flusher \/ (flusher' = "out" /\ flusher # "sending")
      PROVE  CountInv'
  <2>1. Drops' = Drops
    BY <1>1 DEF Drops
  <2>2. DropsCountedOnce'
    BY <1>1, <2>1 DEF CountInv, DropsCountedOnce
  <2>3. Backlog'
    BY <1>1 DEF CountInv, Backlog, BacklogIsExact
  <2> QED BY <1>1, <2>2, <2>3 DEF CountInv
<1>2. folded = IF closed THEN dropped ELSE 0
  BY DEF CountInv, DropsCountedOnce
<1>3. ASSUME NEW c \in Completers, NEW r \in Results, Close(c, r)
      PROVE  CountInv'
  <2>1. UNCHANGED <<offered, chan, dropped, queued, holder, flusher>>
        /\ ~closed /\ closed' /\ folded' = folded + dropped /\ dropped \in Nat
    BY <1>3 DEF Close, StillOpen, Fold, CountInv
  <2> QED BY <1>1, <1>2, <2>1
<1>4. ASSUME NEW c \in Completers, Completing(c)
      PROVE  CountInv'
  BY <1>1, <1>2, <1>4 DEF Completing, CompleteAgain, ReadAbortMark, WriteFinal,
                          AppendAndRelease, queueVars
<1>5. CASE NoFlush \/ Run \/ AfterTask \/ WorkerEnds
  <2>1. CASE Run
    <3>1. flusher' # flusher => worker.task.kind = "barrier" /\ flusher' = "out"
      BY <2>1 DEF Run
    <3>2. worker.task.kind = "barrier" => flusher = "waiting"
      <4>1. 1 \in DOMAIN Due /\ Due[1] = worker.task
        BY <2>1, DueOnRun
      <4> QED BY <4>1 DEF QueueInv, BarrierOnce
    <3>3. UNCHANGED <<offered, chan, dropped, queued, holder, folded, closed>>
      BY <2>1 DEF Run, queueVars
    <3> QED BY <1>1, <1>2, <3>1, <3>2, <3>3
  <2>2. CASE NoFlush \/ AfterTask \/ WorkerEnds
    BY <1>1, <1>2, <2>2 DEF NoFlush, AfterTask, WorkerEnds, queueVars
  <2> QED BY <1>5, <2>1, <2>2
<1>6. CASE AttachHook \/ AbortLooks \/ AbortMarks \/ AbortCancels
  BY <1>1, <1>2, <1>6 DEF AttachHook, AbortLooks, AbortMarks, AbortCancels, queueVars
<1>7. CASE Rests \/ UNCHANGED vars
  BY <1>1, <1>2, <1>7 DEF Rests, vars, queueVars
<1> QED BY <1>3, <1>4, <1>5, <1>6, <1>7, CountOfOffer, CountOfQueue
        DEF Next, Flushing, Working

(* `enqueue` and `complete` (debuglog.rs) split the drops at `closed`, and *)
(* the published backlog comes back from every wrap.                       *)
THEOREM CountsHold == Spec => []CountsAreExact
<1>1. CountInv => CountsAreExact
  BY DEF CountInv, CountsAreExact, Backlog
<1> QED BY <1>1, QueueInit, QueueNext, CountInit, CountNext, PTL DEF Spec
-----------------------------------------------------------------------------
(* The lines and the final record *)

Increasing(s) == \A i, j \in DOMAIN s : i < j => s[i] < s[j]
IdsIn(tasks, kind) == {tasks[i].id : i \in {j \in DOMAIN tasks : tasks[j].kind = kind}}

(* The tasks that are due were accepted, and come in the order of offer.   *)
DueInOrder ==
  /\ \A i \in DOMAIN Due : Due[i].kind # "barrier" => Due[i].id \in IdsOf(Due[i].kind)
  /\ \A i, j \in DOMAIN Due :
       i < j /\ Due[i].kind # "barrier" /\ Due[j].kind # "barrier" => Due[i].id < Due[j].id

(* A line that was accepted is in the files or still due, and what is due  *)
(* comes after what is in the files.                                       *)
LinesKept ==
  LET lines == disk \o buffer
  IN  /\ disk \in Seq(Nat) /\ buffer \in Seq(Nat)
      /\ Increasing(lines)
      /\ Range(lines) \subseteq IdsOf("line")
      /\ \A n \in Range(lines), d \in IdsIn(Due, "line") : n < d
      /\ "jsonl" \notin ioErrors => IdsOf("line") \subseteq Range(lines) \cup IdsIn(Due, "line")

(* The first error the worker runs is the first that was accepted.         *)
FirstError ==
  /\ errorStage = 0 => IdsOf("error") \subseteq IdsIn(Due, "error")
  /\ errorStage # 0 => errorStage \in IdsOf("error")
  /\ \A i \in IdsOf("error") : errorStage <= i

(* The worker ends after the queue is closed and nothing follows.          *)
EndsLast ==
  /\ ~tx => closed
  /\ closed => flusher = "out"
  /\ worker.at = "done" => closed /\ chan = <<>> /\ buffer = <<>>
  /\ \A c \in Completers :
       completer[c].at = "written" => worker.at = "done" /\ (meta = "final" \/ "file" \in ioErrors)

DiskInv == DueInOrder /\ LinesKept /\ FirstError /\ EndsLast

LEMMA IdsOfAppend ==
  ASSUME NEW s \in Seq(Task), NEW t \in Task, NEW kind
  PROVE  IdsIn(Append(s, t), kind) = IdsIn(s, kind) \cup (IF t.kind = kind THEN {t.id} ELSE {})
<1> DEFINE a == Append(s, t)
<1>1. /\ DOMAIN a = 1 .. Len(s) + 1 /\ DOMAIN s = 1 .. Len(s) /\ Len(s) \in Nat
      /\ a[Len(s) + 1] = t /\ \A i \in 1 .. Len(s) : a[i] = s[i]
  OBVIOUS
<1> HIDE DEF a
<1>2. DOMAIN a = DOMAIN s \cup {Len(s) + 1} /\ \A i \in DOMAIN s : a[i] = s[i]
  BY <1>1
<1>3. IdsIn(a, kind) = IdsIn(s, kind) \cup (IF t.kind = kind THEN {t.id} ELSE {})
  BY <1>1, <1>2 DEF IdsIn
<1> QED BY <1>3 DEF a

LEMMA IdsOfTail ==
  ASSUME NEW s \in Seq(Task), s # <<>>, NEW kind
  PROVE  /\ IdsIn(s, kind) = IdsIn(Tail(s), kind) \cup (IF s[1].kind = kind THEN {s[1].id} ELSE {})
         /\ \A id \in IdsIn(Tail(s), kind) :
              \E i \in DOMAIN s : i > 1 /\ s[i].kind = kind /\ s[i].id = id
<1> DEFINE r == Tail(s)
<1>1. /\ DOMAIN r = 1 .. Len(s) - 1 /\ DOMAIN s = 1 .. Len(s) /\ Len(s) \in Nat /\ Len(s) >= 1
      /\ \A i \in 1 .. Len(s) - 1 : r[i] = s[i + 1]
  OBVIOUS
<1> HIDE DEF r
<1>2. ASSUME NEW i \in DOMAIN r PROVE i + 1 \in DOMAIN s /\ r[i] = s[i + 1] /\ i + 1 > 1
  BY <1>1
<1>3. ASSUME NEW i \in DOMAIN s, i # 1 PROVE i - 1 \in DOMAIN r /\ r[i - 1] = s[i] /\ i > 1
  <2>1. i - 1 \in DOMAIN r /\ (i - 1) + 1 = i /\ i > 1
    BY <1>1, <1>3
  <2> QED BY <1>1, <2>1
<1>4. 1 \in DOMAIN s
  BY <1>1
<1>5. \A id \in IdsIn(r, kind) : \E i \in DOMAIN s : i > 1 /\ s[i].kind = kind /\ s[i].id = id
  BY <1>2 DEF IdsIn
<1>6. ASSUME NEW id \in IdsIn(s, kind)
      PROVE  id \in IdsIn(r, kind) \/ (s[1].kind = kind /\ s[1].id = id)
  <2>1. PICK i \in DOMAIN s : s[i].kind = kind /\ s[i].id = id
    BY <1>6 DEF IdsIn
  <2>2. CASE i # 1
    BY <1>3, <2>1, <2>2 DEF IdsIn
  <2> QED BY <2>1, <2>2
<1>7. \A id \in IdsIn(r, kind) : id \in IdsIn(s, kind)
  BY <1>5 DEF IdsIn
<1>8. s[1].kind = kind => s[1].id \in IdsIn(s, kind)
  BY <1>4 DEF IdsIn
<1>9. IdsIn(s, kind) = IdsIn(r, kind) \cup (IF s[1].kind = kind THEN {s[1].id} ELSE {})
  BY <1>6, <1>7, <1>8
<1> QED BY <1>5, <1>9 DEF r

LEMMA LongerStaysIncreasing ==
  ASSUME NEW s \in Seq(Nat), NEW n \in Nat, Increasing(s), \A m \in Range(s) : m < n
  PROVE  Increasing(Append(s, n)) /\ Range(Append(s, n)) = Range(s) \cup {n}
<1> DEFINE a == Append(s, n)
<1>1. /\ DOMAIN a = 1 .. Len(s) + 1 /\ DOMAIN s = 1 .. Len(s) /\ Len(s) \in Nat
      /\ a[Len(s) + 1] = n /\ \A i \in 1 .. Len(s) : a[i] = s[i]
  OBVIOUS
<1> HIDE DEF a
<1>2. \A i \in 1 .. Len(s) : s[i] < n
  BY <1>1 DEF Range
<1>3. Increasing(a)
  <2> SUFFICES ASSUME NEW i \in 1 .. Len(s) + 1, NEW j \in 1 .. Len(s) + 1, i < j
               PROVE  a[i] < a[j]
    BY <1>1 DEF Increasing
  <2>1. i \in 1 .. Len(s)
    BY <1>1
  <2>2. CASE j = Len(s) + 1
    BY <1>1, <1>2, <2>1, <2>2
  <2>3. CASE j \in 1 .. Len(s)
    BY <1>1, <2>1, <2>3 DEF Increasing
  <2> QED BY <1>1, <2>2, <2>3, SMTT(30)
<1>4. DOMAIN a = DOMAIN s \cup {Len(s) + 1} /\ \A i \in DOMAIN s : a[i] = s[i]
  BY <1>1
<1>5. Range(a) = Range(s) \cup {n}
  BY <1>1, <1>4 DEF Range
<1> QED BY <1>3, <1>5 DEF a

(* What the files hold is the same after a flush, and less after one that  *)
(* failed.                                                                 *)
LEMMA Flushed ==
  ASSUME NEW d \in Seq(Nat), NEW b \in Seq(Nat)
  PROVE  /\ (d \o b) \o <<>> = d \o b /\ d \o <<>> = d /\ d \o b \in Seq(Nat)
         /\ Increasing(d \o b) => Increasing(d)
         /\ Range(d) \subseteq Range(d \o b)
         /\ \A n \in Nat : d \o Append(b, n) = Append(d \o b, n)
<1> DEFINE all == d \o b
<1>1. /\ all \in Seq(Nat) /\ Len(all) = Len(d) + Len(b)
      /\ \A i \in 1 .. Len(d) + Len(b) : all[i] = IF i <= Len(d) THEN d[i] ELSE b[i - Len(d)]
  BY ConcatProperties, Zenon
<1>2. all \o <<>> = all /\ d \o <<>> = d
  <2> HIDE DEF all
  <2> QED BY <1>1, ConcatEmptySeq
<1>3. ASSUME NEW n \in Nat PROVE d \o Append(b, n) = Append(all, n)
  <2>1. Append(b, n) = b \o <<n>> /\ <<n>> \in Seq(Nat)
    BY AppendIsConcat
  <2>2. (d \o b) \o <<n>> = d \o (b \o <<n>>)
    BY <2>1, ConcatAssociative, SMTT(30)
  <2> HIDE DEF all
  <2>3. Append(all, n) = all \o <<n>>
    BY <1>1, AppendIsConcat
  <2> QED BY <2>1, <2>2, <2>3 DEF all
<1> HIDE DEF all
<1>4. DOMAIN d = 1 .. Len(d) /\ Len(d) \in Nat /\ Len(b) \in Nat
      /\ DOMAIN all = 1 .. Len(d) + Len(b)
  BY <1>1
<1>5. \A i \in DOMAIN d : i \in DOMAIN all /\ all[i] = d[i]
  BY <1>1, <1>4
<1>6. Increasing(all) => Increasing(d)
  BY <1>5 DEF Increasing
<1>7. Range(d) \subseteq Range(all)
  BY <1>5 DEF Range
<1> QED BY <1>1, <1>2, <1>3, <1>6, <1>7 DEF all
LEMMA DiskInit == Init => DiskInv
<1> SUFFICES ASSUME Init PROVE DiskInv
  OBVIOUS
<1>1. EntryMeta \in Task /\ EntryMeta.kind = "meta" /\ EntryMeta.id = 1
  BY DepthAssumption DEF EntryMeta, Task, Kinds
<1>2. /\ DOMAIN offered = {1} /\ offered[1].taken = TRUE /\ offered[1].task = EntryMeta
      /\ worker.at = "recv" /\ disk = <<>> /\ buffer = <<>> /\ errorStage = 0
  BY DEF Init, Accepted
<1>3. Due = <<EntryMeta>> /\ DOMAIN Due = {1} /\ Due[1] = EntryMeta
  BY <1>1, <1>2 DEF Init, Due
<1>4. IdsOf("meta") = {1} /\ IdsOf("line") = {} /\ IdsOf("error") = {}
  BY <1>1, <1>2 DEF IdsOf
<1>5. DueInOrder
  BY <1>1, <1>3, <1>4 DEF DueInOrder
<1>6. disk \o buffer = <<>> /\ disk \in Seq(Nat) /\ buffer \in Seq(Nat)
  BY <1>2
<1>7. Range(disk \o buffer) = {} /\ Increasing(disk \o buffer)
  BY <1>6 DEF Range, Increasing
<1>8. LinesKept
  BY <1>4, <1>6, <1>7 DEF LinesKept
<1>9. FirstError
  BY <1>2, <1>4 DEF FirstError
<1>10. EndsLast
  BY DEF Init, EndsLast
<1> QED BY <1>5, <1>8, <1>9, <1>10 DEF DiskInv

LEMMA AcceptedIsNumbered ==
  ASSUME CountInv, NEW kind
  PROVE  IdsOf(kind) \subseteq 1 .. Len(offered) /\ Len(offered) \in Nat
BY DEF CountInv, IdsOf

LEMMA DiskOfOffer ==
  ASSUME QueueInv, CountInv, DiskInv,
         NEW p \in Producers, NEW k \in {"line", "error"}, Offer(p, k)
  PROVE  DiskInv'
<1> DEFINE t == [kind |-> k, id |-> Len(offered) + 1]
<1>1. t \in Task /\ t.kind = k /\ t.id = Len(offered) + 1 /\ k \in Kinds /\ k # "barrier"
  BY DepthAssumption DEF Offer, CountInv, Task, Kinds
<1>2. UNCHANGED <<closed, tx, disk, buffer, meta, errorStage, ioErrors, completer, worker, flusher>>
  BY DEF Offer, fileVars, endVars
<1>3. offered \in Seq([task : Task, taken : BOOLEAN]) /\ Len(offered) \in Nat
      /\ {"line", "error", "meta", "barrier"} = Kinds
  BY DEF CountInv, Kinds
<1>4. CASE chan' = chan /\ offered' = Append(offered, Refused(t))
  <2> HIDE DEF t
  <2>1. offered' = Append(offered, [task |-> t, taken |-> FALSE])
    BY <1>4 DEF Refused
  <2>2. \A kind \in Kinds : IdsOf(kind)' = IdsOf(kind)
    BY <1>1, <1>3, <2>1, DropsGrow
  <2>3. Due' = Due
    BY <1>2, <1>4, DueOnRest
  <2>4. Due \in Seq(Task)
    BY DueIs DEF QueueInv, BarrierInv
  <2>5. DueInOrder'
    <3>1. \A i \in DOMAIN Due : Due[i].kind \in Kinds
      <4>1. \A x \in Task : x.kind \in Kinds
        BY DEF Task
      <4>2. \A i \in DOMAIN Due : Due[i] \in Task
        BY <2>4
      <4> QED BY <4>1, <4>2
    <3> QED BY <2>2, <2>3, <3>1 DEF DiskInv, DueInOrder
  <2>6. LinesKept'
    BY <1>2, <1>3, <2>2, <2>3 DEF DiskInv, LinesKept
  <2>7. FirstError'
    BY <1>2, <1>3, <2>2, <2>3 DEF DiskInv, FirstError
  <2>8. EndsLast'
    BY <1>2, <1>4 DEF DiskInv, EndsLast
  <2> QED BY <2>5, <2>6, <2>7, <2>8 DEF DiskInv
<1>5. CASE ~closed /\ chan' = Append(chan, t) /\ offered' = Append(offered, Accepted(t))
  <2> HIDE DEF t
  <2>1. offered' = Append(offered, [task |-> t, taken |-> TRUE])
    BY <1>5 DEF Accepted
  <2>2. \A kind \in Kinds :
          IdsOf(kind)' = IF kind = k THEN IdsOf(kind) \cup {t.id} ELSE IdsOf(kind)
    BY <1>1, <1>3, <2>1, DropsGrow
  <2>3. Due' = Append(Due, t) /\ Due \in Seq(Task)
    BY <1>1, <1>2, <1>5, DueOnAppend, DueIs DEF QueueInv, BarrierInv
  <2>4. /\ DOMAIN Due = 1 .. Len(Due) /\ Len(Due) \in Nat
        /\ DOMAIN (Due') = 1 .. Len(Due) + 1 /\ Due'[Len(Due) + 1] = t
        /\ \A i \in DOMAIN Due : Due'[i] = Due[i] /\ Due[i].kind \in Kinds
    <3> DEFINE due == Due
    <3>1. due \in Seq(Task) /\ Due' = Append(due, t)
      BY <2>3
    <3> HIDE DEF due
    <3>2. /\ DOMAIN due = 1 .. Len(due) /\ Len(due) \in Nat
          /\ DOMAIN (Due') = 1 .. Len(due) + 1 /\ Due'[Len(due) + 1] = t
          /\ \A i \in DOMAIN due : Due'[i] = due[i] /\ due[i] \in Task
      BY <1>1, <3>1
    <3>3. \A x \in Task : x.kind \in Kinds
      BY DEF Task
    <3> QED BY <3>2, <3>3 DEF due
  <2>5. \A kind : IdsIn(Due', kind) = IdsIn(Due, kind) \cup (IF k = kind THEN {t.id} ELSE {})
    BY <1>1, <2>3, IdsOfAppend
  <2>6. \A kind \in Kinds : \A i \in IdsOf(kind) : i \in Nat /\ i < t.id
    BY <1>1, AcceptedIsNumbered
  <2>7. DueInOrder'
    <3>1. ASSUME NEW i \in DOMAIN (Due'), Due'[i].kind # "barrier"
          PROVE  (Due[i].id \in IdsOf(Due[i].kind))'
      <4>1. CASE i \in DOMAIN Due
        <5>1. Due[i].id \in IdsOf(Due[i].kind) /\ Due'[i] = Due[i] /\ Due[i].kind \in Kinds
          BY <2>4, <3>1, <4>1 DEF DiskInv, DueInOrder
        <5>2. ASSUME NEW n, n \in IdsOf(Due[i].kind) PROVE (n \in IdsOf(Due[i].kind))'
          <6>1. \A kind \in Kinds : n \in IdsOf(kind) => n \in IdsOf(kind)'
            BY <2>2
          <6> QED BY <5>1, <5>2, <6>1 DEF IdsOf
        <5> QED BY <5>1, <5>2 DEF IdsOf
      <4>2. CASE i = Len(Due) + 1
        BY <1>1, <2>2, <2>4, <4>2
      <4> QED BY <2>4, <4>1, <4>2
    <3>2. ASSUME NEW i \in DOMAIN (Due'), NEW j \in DOMAIN (Due'), i < j,
                 Due'[i].kind # "barrier", Due'[j].kind # "barrier"
          PROVE  Due'[i].id < Due'[j].id
      <4>1. i \in DOMAIN Due
        BY <2>4, <3>2
      <4>2. CASE j \in DOMAIN Due
        BY <2>4, <3>2, <4>1, <4>2 DEF DiskInv, DueInOrder
      <4>3. CASE j = Len(Due) + 1
        <5>1. Due[i].id \in IdsOf(Due[i].kind)
          BY <2>4, <3>2, <4>1 DEF DiskInv, DueInOrder
        <5> QED BY <2>4, <2>6, <4>1, <4>3, <5>1
      <4> QED BY <2>4, <4>2, <4>3
    <3> QED BY <3>1, <3>2 DEF DueInOrder
  <2>8. LinesKept'
    <3> DEFINE lines == disk \o buffer
    <3>1. lines' = lines
      BY <1>2
    <3>2. /\ disk \in Seq(Nat) /\ buffer \in Seq(Nat) /\ Increasing(lines)
          /\ Range(lines) \subseteq IdsOf("line")
          /\ \A n \in Range(lines), d \in IdsIn(Due, "line") : n < d
          /\ "jsonl" \notin ioErrors => IdsOf("line") \subseteq Range(lines) \cup IdsIn(Due, "line")
      BY DEF DiskInv, LinesKept
    <3> HIDE DEF lines
    <3>3. \A n \in Range(lines) : n < t.id
      BY <1>3, <2>6, <3>2
    <3>4. /\ IdsOf("line") \subseteq IdsOf("line")'
          /\ IdsOf("line")' \subseteq IdsOf("line") \cup IdsIn(Due', "line")
      BY <1>3, <2>2, <2>5
    <3>5. \A n \in Range(lines), d \in IdsIn(Due', "line") : n < d
      BY <2>5, <3>2, <3>3
    <3>6. "jsonl" \notin ioErrors' => IdsOf("line")' \subseteq Range(lines) \cup IdsIn(Due', "line")
      BY <1>2, <2>5, <3>2, <3>4
    <3>7. Increasing(lines') /\ Range(lines') \subseteq IdsOf("line")'
          /\ disk' \in Seq(Nat) /\ buffer' \in Seq(Nat)
      BY <1>2, <3>1, <3>2, <3>4
    <3> QED BY <3>1, <3>5, <3>6, <3>7 DEF LinesKept, lines
  <2>9. FirstError'
    BY <1>1, <1>2, <1>3, <2>2, <2>5, <2>6 DEF DiskInv, FirstError
  <2>10. EndsLast'
    BY <1>2, <1>5 DEF DiskInv, EndsLast
  <2> QED BY <2>7, <2>8, <2>9, <2>10 DEF DiskInv
<1> QED BY <1>4, <1>5 DEF Offer, RefuseLate, RefuseFull, Send

(* The barrier is no line and no error.                                    *)
LEMMA DiskOfBarrier ==
  ASSUME QueueInv, DiskInv, FlushSends
  PROVE  DiskInv'
<1>1. /\ chan' = Append(chan, Barrier) /\ flusher = "sending" /\ flusher' = "waiting"
      /\ UNCHANGED <<closed, tx, offered, disk, buffer, meta, errorStage, ioErrors,
                     completer, worker>>
  BY DEF FlushSends, fileVars, endVars
<1>2. Barrier \in Task /\ Barrier.kind = "barrier"
  BY DepthAssumption DEF Barrier, NoTask, Task, Kinds
<1>3. Due' = Append(Due, Barrier) /\ Due \in Seq(Task)
  BY <1>1, <1>2, DueOnAppend, DueIs DEF QueueInv, BarrierInv
<1>4. /\ DOMAIN Due = 1 .. Len(Due) /\ Len(Due) \in Nat
      /\ DOMAIN (Due') = 1 .. Len(Due) + 1 /\ Due'[Len(Due) + 1] = Barrier
      /\ \A i \in DOMAIN Due : Due'[i] = Due[i]
  BY <1>2, <1>3
<1>5. \A kind \in {"line", "error"} : IdsIn(Due', kind) = IdsIn(Due, kind)
  <2>1. \A kind : IdsIn(Due', kind)
                   = IdsIn(Due, kind) \cup (IF Barrier.kind = kind THEN {Barrier.id} ELSE {})
    BY <1>2, <1>3, IdsOfAppend
  <2> QED BY <1>2, <2>1
<1>6. \A kind : IdsOf(kind)' = IdsOf(kind)
  BY <1>1 DEF IdsOf
<1>7. DueInOrder'
  BY <1>2, <1>4, <1>6 DEF DiskInv, DueInOrder
<1>8. LinesKept'
  BY <1>1, <1>5, <1>6 DEF DiskInv, LinesKept
<1>9. FirstError'
  BY <1>1, <1>5, <1>6 DEF DiskInv, FirstError
<1>10. EndsLast'
  BY <1>1 DEF DiskInv, EndsLast
<1> QED BY <1>7, <1>8, <1>9, <1>10 DEF DiskInv

LEMMA DiskOfRun ==
  ASSUME QueueInv, CountInv, DiskInv, Run
  PROVE  DiskInv'
<1> DEFINE t == worker.task
<1>1. /\ Due # <<>> /\ Due \in Seq(Task) /\ Due[1] = t /\ Due' = Tail(Due) /\ t \in Task
  BY DueOnRun
<1>2. /\ worker.at = "run" /\ worker'.at = "ran"
      /\ UNCHANGED <<offered, closed, tx, chan, disk, completer>>
      /\ flusher' = flusher \/ flusher' = "out"
      /\ ioErrors \subseteq ioErrors' /\ ioErrors' \subseteq ioErrors \cup {"file", "jsonl"}
  BY DEF Run, queueVars, endVars, WriteMeta, WriteError, NoFault, IoFault
<1>3. \A kind : IdsOf(kind)' = IdsOf(kind)
  BY <1>2 DEF IdsOf
<1>4. \A kind : /\ IdsIn(Due, kind) = IdsIn(Due', kind) \cup (IF t.kind = kind THEN {t.id} ELSE {})
                /\ \A id \in IdsIn(Due', kind) :
                     \E i \in DOMAIN Due : i > 1 /\ Due[i].kind = kind /\ Due[i].id = id
  BY <1>1, IdsOfTail
<1>5. /\ DOMAIN Due = 1 .. Len(Due) /\ Len(Due) \in Nat /\ Len(Due) >= 1
      /\ DOMAIN (Due') = 1 .. Len(Due) - 1
      /\ \A i \in 1 .. Len(Due) - 1 : Due'[i] = Due[i + 1]
  BY <1>1
<1>6. t.kind # "barrier" =>
        /\ t.id \in IdsOf(t.kind) /\ t.id \in Nat /\ t.id >= 1
        /\ \A kind \in Kinds \ {"barrier"} : \A id \in IdsIn(Due', kind) : t.id < id
  <2>1. t.kind # "barrier" => t.id \in IdsOf(t.kind)
    BY <1>1, <1>5 DEF DiskInv, DueInOrder
  <2>2. ASSUME t.kind # "barrier", NEW kind \in Kinds \ {"barrier"}, NEW id \in IdsIn(Due', kind)
        PROVE  t.id < id
    <3>1. PICK i \in DOMAIN Due : i > 1 /\ Due[i].kind = kind /\ Due[i].id = id
      BY <1>4, <2>2
    <3>2. 1 \in DOMAIN Due /\ 1 < i
      BY <1>5, <3>1
    <3> QED BY <1>1, <2>2, <3>1, <3>2 DEF DiskInv, DueInOrder
  <2> QED BY <2>1, <2>2, AcceptedIsNumbered
<1>7. DueInOrder'
  <2>1. \A i \in DOMAIN (Due') : i + 1 \in DOMAIN Due /\ Due'[i] = Due[i + 1] /\ i \in Nat
    BY <1>5
  <2>2. \A i, j \in DOMAIN (Due') : i < j => i + 1 < j + 1
    BY <2>1
  <2>3. \A i \in DOMAIN (Due') : Due'[i].kind # "barrier" => Due'[i].id \in IdsOf(Due'[i].kind)
    BY <2>1 DEF DiskInv, DueInOrder
  <2>4. \A i, j \in DOMAIN (Due') :
          i < j /\ Due'[i].kind # "barrier" /\ Due'[j].kind # "barrier" => Due'[i].id < Due'[j].id
    BY <2>1, <2>2 DEF DiskInv, DueInOrder
  <2> QED BY <1>2, <2>3, <2>4 DEF DueInOrder, IdsOf
<1>8. EndsLast'
  BY <1>2 DEF DiskInv, EndsLast
<1>9. LinesKept'
  <2> DEFINE lines == disk \o buffer
  <2>1. /\ disk \in Seq(Nat) /\ buffer \in Seq(Nat) /\ Increasing(lines)
        /\ Range(lines) \subseteq IdsOf("line")
        /\ \A n \in Range(lines), d \in IdsIn(Due, "line") : n < d
        /\ "jsonl" \notin ioErrors => IdsOf("line") \subseteq Range(lines) \cup IdsIn(Due, "line")
    BY DEF DiskInv, LinesKept
  <2>2. CASE t.kind = "line" /\ buffer' = Append(buffer, t.id) /\ ioErrors' = ioErrors
    <3>1. t.id \in Nat /\ t.id \in IdsOf("line") /\ t.id \in IdsIn(Due, "line")
      BY <1>4, <1>6, <2>2
    <3>2. lines' = Append(lines, t.id) /\ lines \in Seq(Nat)
      BY <1>2, <2>1, <2>2, <3>1, Flushed
    <3> HIDE DEF lines
    <3>3. Increasing(lines') /\ Range(lines') = Range(lines) \cup {t.id}
      BY <2>1, <3>1, <3>2, LongerStaysIncreasing
    <3>4. IdsIn(Due, "line") = IdsIn(Due', "line") \cup {t.id}
      BY <1>4, <2>2
    <3>5. \A id \in IdsIn(Due', "line") : t.id < id
      BY <1>6, <2>2 DEF Kinds
    <3>6. /\ Range(lines') \subseteq IdsOf("line")'
          /\ \A n \in Range(lines'), d \in IdsIn(Due', "line") : n < d
          /\ "jsonl" \notin ioErrors' =>
               IdsOf("line")' \subseteq Range(lines') \cup IdsIn(Due', "line")
      BY <1>3, <2>1, <2>2, <3>1, <3>3, <3>4, <3>5
    <3>7. disk' \in Seq(Nat) /\ buffer' \in Seq(Nat)
      BY <1>2, <2>1, <2>2, <3>1
    <3> QED BY <3>3, <3>6, <3>7 DEF LinesKept, lines
  <2>3. CASE buffer' = buffer /\ (t.kind = "line" => "jsonl" \in ioErrors')
    <3>1. lines' = lines
      BY <1>2, <2>3
    <3> HIDE DEF lines
    <3>2. IdsIn(Due', "line") \subseteq IdsIn(Due, "line")
          /\ (t.kind # "line" => IdsIn(Due', "line") = IdsIn(Due, "line"))
      BY <1>4
    <3>3. /\ Range(lines') \subseteq IdsOf("line")' /\ Increasing(lines')
          /\ \A n \in Range(lines'), d \in IdsIn(Due', "line") : n < d
          /\ "jsonl" \notin ioErrors' =>
               IdsOf("line")' \subseteq Range(lines') \cup IdsIn(Due', "line")
      BY <1>2, <1>3, <2>1, <2>3, <3>1, <3>2
    <3>4. disk' \in Seq(Nat) /\ buffer' \in Seq(Nat)
      BY <1>2, <2>1, <2>3
    <3> QED BY <3>3, <3>4 DEF LinesKept, lines
  <2> QED BY <2>2, <2>3 DEF Run, NoFault, IoFault
<1>10. FirstError'
  <2>1. /\ errorStage = 0 => IdsOf("error") \subseteq IdsIn(Due, "error")
        /\ errorStage # 0 => errorStage \in IdsOf("error")
        /\ \A i \in IdsOf("error") : errorStage <= i
    BY DEF DiskInv, FirstError
  <2>2. CASE t.kind = "error" /\ errorStage = 0
    <3>1. errorStage' = t.id
      BY <2>2 DEF Run, WriteError
    <3>2. t.id \in IdsOf("error") /\ t.id \in Nat /\ t.id >= 1
      BY <1>6, <2>2
    <3>3. ASSUME NEW i \in IdsOf("error") PROVE t.id <= i
      <4>1. i \in IdsIn(Due', "error") \cup {t.id} /\ i \in Nat
        BY <1>4, <2>1, <2>2, AcceptedIsNumbered
      <4>2. i \in IdsIn(Due', "error") => t.id < i
        BY <1>6, <2>2 DEF Kinds
      <4> QED BY <3>2, <4>1, <4>2
    <3> QED BY <1>3, <3>1, <3>2, <3>3 DEF FirstError
  <2>3. CASE t.kind # "error" \/ errorStage # 0
    <3>1. errorStage' = errorStage
      BY <2>3 DEF Run, WriteError
    <3>2. t.kind # "error" => IdsIn(Due', "error") = IdsIn(Due, "error")
      BY <1>4
    <3> QED BY <1>3, <2>1, <2>3, <3>1, <3>2 DEF FirstError
  <2> QED BY <2>2, <2>3
<1> QED BY <1>7, <1>8, <1>9, <1>10 DEF DiskInv
(* A step that leaves the tasks and the errors alone and the lines of the  *)
(* files either as they are or, after a fault, fewer.                      *)
LEMMA DiskOfFiles ==
  ASSUME QueueInv, DiskInv, Due' = Due, UNCHANGED <<offered, errorStage>>,
         ioErrors \subseteq ioErrors',
         \/ disk' = disk /\ buffer' = buffer
         \/ disk' = disk \o buffer /\ buffer' = <<>>
         \/ disk' = disk /\ buffer' = <<>> /\ "jsonl" \in ioErrors'
  PROVE  (DueInOrder /\ LinesKept /\ FirstError)'
<1>1. \A kind : IdsOf(kind)' = IdsOf(kind)
  BY DEF IdsOf
<1>2. DueInOrder'
  BY DEF DiskInv, DueInOrder, IdsOf
<1>3. FirstError'
  BY <1>1 DEF DiskInv, FirstError
<1>4. /\ disk \in Seq(Nat) /\ buffer \in Seq(Nat) /\ Increasing(disk \o buffer)
      /\ Range(disk \o buffer) \subseteq IdsOf("line")
      /\ \A n \in Range(disk \o buffer), d \in IdsIn(Due, "line") : n < d
      /\ "jsonl" \notin ioErrors =>
           IdsOf("line") \subseteq Range(disk \o buffer) \cup IdsIn(Due, "line")
  BY DEF DiskInv, LinesKept
<1>5. /\ (disk \o buffer) \o <<>> = disk \o buffer /\ disk \o <<>> = disk
      /\ disk \o buffer \in Seq(Nat)
      /\ Increasing(disk) /\ Range(disk) \subseteq Range(disk \o buffer)
  BY <1>4, Flushed
<1>6. <<>> \in Seq(Nat)
  OBVIOUS
<1>7. CASE disk' = disk /\ buffer' = <<>> /\ "jsonl" \in ioErrors'
  <2>1. (disk \o buffer)' = disk
    BY <1>5, <1>7
  <2>2. disk' \in Seq(Nat) /\ buffer' \in Seq(Nat)
    BY <1>4, <1>6, <1>7
  <2> QED BY <1>1, <1>2, <1>3, <1>4, <1>5, <1>7, <2>1, <2>2 DEF LinesKept
<1>8. CASE (disk' = disk /\ buffer' = buffer) \/ (disk' = disk \o buffer /\ buffer' = <<>>)
  <2>1. (disk \o buffer)' = disk \o buffer
    BY <1>5, <1>8
  <2>2. disk' \in Seq(Nat) /\ buffer' \in Seq(Nat)
    BY <1>4, <1>5, <1>6, <1>8
  <2> QED BY <1>1, <1>2, <1>3, <1>4, <2>1, <2>2 DEF LinesKept
<1> QED BY <1>7, <1>8

LEMMA DiskOfWorker ==
  ASSUME QueueInv, DiskInv, Receive \/ AfterTask \/ WorkerEnds
  PROVE  DiskInv'
<1>1. CASE Receive
  <2>1. UNCHANGED <<offered, errorStage, ioErrors, disk, buffer, tx, closed, flusher, meta, completer>>
        /\ worker'.at = "run" /\ worker.at = "recv"
    BY <1>1 DEF Receive, fileVars, endVars
  <2>2. EndsLast'
    BY <2>1 DEF DiskInv, EndsLast
  <2> QED BY <1>1, <2>1, <2>2, DueOnReceive, DiskOfFiles DEF DiskInv
<1>2. CASE AfterTask
  <2>1. UNCHANGED <<offered, errorStage, tx, closed, chan, flusher, meta, completer>>
        /\ worker'.at = "recv" /\ worker.at = "ran" /\ ioErrors \subseteq ioErrors'
    BY <1>2 DEF AfterTask, FlushJsonl, NoFault, IoFault, queueVars, endVars
  <2>2. \/ disk' = disk /\ buffer' = buffer
        \/ disk' = disk \o buffer /\ buffer' = <<>>
    BY <1>2 DEF AfterTask, FlushJsonl
  <2>3. EndsLast'
    BY <2>1 DEF DiskInv, EndsLast
  <2>4. Due' = Due
    BY <1>2, <2>1, DueOnRest
  <2> QED BY <2>1, <2>2, <2>3, <2>4, DiskOfFiles DEF DiskInv
<1>3. CASE WorkerEnds
  <2>1. UNCHANGED <<offered, errorStage, tx, closed, chan, flusher, meta, completer>>
        /\ worker'.at = "done" /\ worker.at = "recv" /\ ioErrors \subseteq ioErrors'
        /\ ~tx /\ chan = <<>> /\ buffer' = <<>>
    BY <1>3 DEF WorkerEnds, ChannelClosed, CloseFiles, NoFault, IoFault, queueVars, endVars
  <2>2. \/ disk' = disk \o buffer /\ buffer' = <<>>
        \/ disk' = disk /\ buffer' = <<>> /\ "jsonl" \in ioErrors'
    BY <1>3 DEF WorkerEnds, CloseFiles, IoFault
  <2>3. EndsLast'
    BY <2>1 DEF DiskInv, EndsLast
  <2>4. Due' = Due
    BY <1>3, <2>1, DueOnRest
  <2> QED BY <2>1, <2>2, <2>3, <2>4, DiskOfFiles DEF DiskInv
<1> QED BY <1>1, <1>2, <1>3

LEMMA DiskOfCompleter ==
  ASSUME VerdictInv, QueueInv, DiskInv, NEW c \in Completers,
         Completing(c) \/ \E r \in Results : Close(c, r)
  PROVE  DiskInv'
<1>1. /\ UNCHANGED <<offered, errorStage, disk, buffer, chan, flusher, worker>>
      /\ ioErrors \subseteq ioErrors'
  BY DEF Close, Completing, CompleteAgain, ReadAbortMark, WriteFinal, AppendAndRelease,
         WriteMeta, NoFault, IoFault, queueVars, fileVars
<1>2. Due' = Due
  BY <1>1, DueOnRest
<1>3. (DueInOrder /\ LinesKept /\ FirstError)'
  BY <1>1, <1>2, DiskOfFiles
<1>4. meta' = meta \/ meta' = "final"
  BY DEF Close, Completing, CompleteAgain, ReadAbortMark, WriteFinal, AppendAndRelease,
         WriteMeta, fileVars
<1>5. \A d \in Completers \ {c} : completer'[d] = completer[d]
  BY DEF VerdictInv, CompleterOK, Close, Completing, CompleteAgain, ReadAbortMark, WriteFinal,
         AppendAndRelease
<1>6. /\ closed => closed' /\ tx' = tx
      /\ closed' # closed => flusher = "out" /\ closed'
      /\ tx' # tx => closed'
  BY DEF Close, StillOpen, Completing, CompleteAgain, ReadAbortMark, WriteFinal,
         AppendAndRelease, queueVars
<1>7. completer'[c].at = "written" =>
        worker.at = "done" /\ (meta' = "final" \/ "file" \in ioErrors')
  <2>1. CASE WriteFinal(c)
    BY <2>1 DEF WriteFinal, Drained, WriteMeta, IoFault
  <2>2. CASE ~WriteFinal(c)
    <3>1. completer'[c].at # "written"
      BY <2>2 DEF VerdictInv, CompleterOK, Close, Completing, CompleteAgain, ReadAbortMark,
                  AppendAndRelease
    <3> QED BY <3>1
  <2> QED BY <2>1, <2>2
<1>8. EndsLast'
  BY <1>1, <1>4, <1>5, <1>6, <1>7 DEF DiskInv, EndsLast
<1> QED BY <1>3, <1>8 DEF DiskInv

LEMMA DiskNext ==
  ASSUME VerdictInv, QueueInv, CountInv, DiskInv, [Next]_vars
  PROVE  DiskInv'
<1>1. ASSUME UNCHANGED <<offered, errorStage, ioErrors, disk, buffer, chan, worker,
                         tx, closed, meta, completer>>,
             flusher' = flusher \/ flusher' = "out" \/ flusher = "may"
      PROVE  DiskInv'
  <2>1. Due' = Due
    BY <1>1, DueOnRest
  <2>2. EndsLast'
    BY <1>1 DEF DiskInv, EndsLast
  <2> QED BY <1>1, <2>1, <2>2, DiskOfFiles DEF DiskInv
<1>2. CASE CountIn \/ NoFlush \/ FlushBegins
  BY <1>1, <1>2 DEF CountIn, NoFlush, FlushBegins, queueVars, fileVars, endVars
<1>3. CASE AttachHook \/ AbortLooks \/ AbortMarks \/ AbortCancels
  BY <1>1, <1>3 DEF AttachHook, AbortLooks, AbortMarks, AbortCancels, queueVars, fileVars, endVars
<1>4. CASE Rests \/ UNCHANGED vars
  BY <1>1, <1>4 DEF Rests, vars, queueVars, fileVars, endVars
<1> QED BY <1>2, <1>3, <1>4, DiskOfOffer, DiskOfBarrier, DiskOfRun, DiskOfWorker,
           DiskOfCompleter
        DEF Next, Flushing, Working

LEMMA DiskIsComplete ==
  ASSUME QueueInv, CountInv, DiskInv
  PROVE  LogIsComplete
<1>1. worker.at = "done" => Due = <<>> /\ buffer = <<>> /\ chan = <<>>
  BY DEF DiskInv, EndsLast, Due
<1>2. \A kind : IdsIn(<<>>, kind) = {}
  BY DEF IdsIn
<1>3. /\ disk \in Seq(Nat) /\ buffer \in Seq(Nat) /\ Increasing(disk \o buffer)
      /\ Range(disk \o buffer) \subseteq IdsOf("line")
      /\ \A n \in Range(disk \o buffer), d \in IdsIn(Due, "line") : n < d
      /\ "jsonl" \notin ioErrors =>
           IdsOf("line") \subseteq Range(disk \o buffer) \cup IdsIn(Due, "line")
  BY DEF DiskInv, LinesKept
<1>4. worker.at = "done" => disk \o buffer = disk
  BY <1>1, <1>3, Flushed
<1>5. worker.at = "done" /\ "jsonl" \notin ioErrors => Range(disk) = IdsOf("line")
  BY <1>1, <1>2, <1>3, <1>4
<1>6. "jsonl" \notin ioErrors =>
        \A i \in IdsOf("line") \ Range(disk \o buffer), j \in Range(disk \o buffer) : j < i
  BY <1>3
<1>7. LinesInOrder
  BY <1>3, <1>5, <1>6 DEF LinesInOrder, Increasing
<1>8. FinalIsLast
  <2> SUFFICES ASSUME NEW c \in Completers, completer[c].at = "written"
               PROVE  /\ worker.at = "done" /\ chan = <<>> /\ buffer = <<>>
                      /\ meta = "final" \/ "file" \in ioErrors
                      /\ IdsOf("error") = {} => errorStage = 0
                      /\ IdsOf("error") # {} => errorStage \in IdsOf("error")
                      /\ \A i \in IdsOf("error") : errorStage <= i
    BY DEF FinalIsLast
  <2>1. worker.at = "done" /\ (meta = "final" \/ "file" \in ioErrors)
    BY DEF DiskInv, EndsLast
  <2>2. IdsIn(Due, "error") = {}
    BY <1>1, <1>2, <2>1
  <2> QED BY <1>1, <2>1, <2>2 DEF DiskInv, FirstError
<1> QED BY <1>7, <1>8 DEF LogIsComplete

(* `complete` waits for the worker (debuglog.rs:1823-1868): the lines that *)
(* were accepted are in the files in their order, and the final record     *)
(* comes after them with the stage of the first error.                     *)
THEOREM LogHolds == Spec => []LogIsComplete
<1> DEFINE All == VerdictInv /\ QueueInv /\ CountInv /\ DiskInv
<1>1. Init => All
  BY VerdictInit, QueueInit, CountInit, DiskInit
<1>2. All /\ [Next]_vars => All'
  BY VerdictNext, QueueNext, CountNext, DiskNext
<1>3. All => LogIsComplete
  BY DiskIsComplete
<1> QED BY <1>1, <1>2, <1>3, PTL DEF Spec
=============================================================================
