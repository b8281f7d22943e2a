------------------------------ MODULE RateGate ------------------------------
(***************************************************************************)
(* The rate gate of src/src/upstream/gate.rs: admission of every upstream  *)
(* send, the cooldown latch with its drip probes, window pacing, the       *)
(* persisted deadline and the ring of latch transitions.                   *)
(*                                                                         *)
(* Every method of the gate runs under one mutex, so each is one action.   *)
(* What interleaves is what happens between them: a request sleeps without *)
(* the lock, `note_upstream_error` reads the clock before it takes the     *)
(* lock, upstream answers arrive late, the parameters are hot reloaded and *)
(* the process restarts with only the state file left.                     *)
(*                                                                         *)
(* The upstream is part of the model: `meter` is the per-minute counter it *)
(* keeps over its own bucket boundary (`skew` ticks from the configured    *)
(* estimate) and `embargo` the deadline it has declared.                   *)
(***************************************************************************)
EXTENDS Integers, Sequences, FiniteSets

CONSTANTS
  Requests,        \* upstream sends in progress, reused one after the other
  Configs,         \* the parameter blocks `set_params` may receive
  Hints,           \* the reset declarations an upstream refusal may carry
  Period,          \* ticks in the upstream counting period (60 s in the code)
  DefaultMaxHold, DefaultDrip, DefaultLatch, DefaultGuard,
  EventCap,        \* capacity of the transition ring (64 in the code)
  NoTime,          \* the absent instant
  MaxTime,         \* bound: the clock stops here
  MaxLeaks,        \* bound: sleepers whose task is dropped
  MaxIoFaults      \* bound: failed writes or removals of the state file

ASSUME PeriodAssumption == Period \in Nat \ {0} /\ DefaultGuard \in Nat \ {0}
                           /\ 2 * DefaultGuard < Period
ASSUME DefaultsAssumption == {DefaultMaxHold, DefaultDrip, DefaultLatch} \subseteq Nat \ {0}
ASSUME BoundsAssumption == /\ MaxTime \in Nat /\ MaxLeaks \in Nat /\ MaxIoFaults \in Nat
                           /\ EventCap \in Nat \ {0}
ASSUME NoTimeAssumption == NoTime \notin Int
ASSUME ConfigsAssumption ==
  Configs \subseteq [maxRpm : Int, maxHold : Nat, drip : Nat, latch : Nat,
                     offset : Int, guard : Nat]
ASSUME HintsAssumption ==
  Hints \subseteq [kind : {"none", "seconds", "minutes"}, n : Nat]

VARIABLES
  now,           \* the wall clock
  params,        \* normalised parameters, as `set_params` leaves them
  bucketStart, bucketUsed,
  limitedUntil, nextDrip,
  waiters,
  events,        \* the transition ring, oldest first
  file,          \* `limited_until` of the state file, NoTime when absent
  phase,         \* what each request is doing
  wake,          \* when a sleeping request's timer fires
  cancelled,     \* requests whose cancellation token has fired
  noted,         \* the clock reading and hint of a refusal being noted
  ioFaults,      \* state file operations that failed so far
  skew,          \* upstream's real boundary minus the configured estimate
  meter,         \* upstream's own bucket: where it starts, what it counted
  embargo        \* upstream's declared deadline, when it was told, the sends since

gateVars == <<params, bucketStart, bucketUsed, limitedUntil, nextDrip, waiters, events>>
requestVars == <<phase, wake, cancelled, noted>>
upstreamVars == <<skew, meter, embargo>>
vars == <<now, gateVars, file, ioFaults, requestVars, upstreamVars>>

Phases == {"idle", "sleeping", "sent", "streaming", "refused"}
Times == Nat \cup {NoTime}
Event == [kind : {"latched", "released", "expired", "restored"}, at : Nat, until : Nat]

-----------------------------------------------------------------------------
(* Parameters and windows *)

OrDefault(value, fallback) == IF value = 0 THEN fallback ELSE value

GuardOf(c) == IF c.guard = 0 \/ 2 * c.guard >= Period THEN DefaultGuard ELSE c.guard

Normalised(c) ==
  [quota    |-> c.maxRpm,
   maxHold  |-> OrDefault(c.maxHold, DefaultMaxHold),
   drip     |-> OrDefault(c.drip, DefaultDrip),
   latch    |-> OrDefault(c.latch, DefaultLatch),
   open     |-> (c.offset + GuardOf(c)) % Period,
   usable   |-> Period - 2 * GuardOf(c)]

MinuteBase(t) == t - (t % Period)

(* The most recent window opening at or before t. *)
WindowStart(t) ==
  LET open == MinuteBase(t) + params.open
  IN  IF open > t THEN open - Period ELSE open

Sendable(t) == t - WindowStart(t) < params.usable

(* `rate_limit_reset`: seconds are exact, minutes align up to the last     *)
(* tick of a minute, and a failure without a declaration has no instant.   *)
RateLimitReset(hint, t) ==
  LET target == t + hint.n * Period
      edge   == MinuteBase(target) + Period - 1
  IN  CASE hint.kind = "none"    -> NoTime
        [] hint.kind = "seconds" -> t + hint.n
        [] hint.kind = "minutes" -> IF edge <= target THEN edge + Period ELSE edge

-----------------------------------------------------------------------------
(* Upstream's own view of what it received *)

(* The estimate is `offset`, that is open - guard with guard =             *)
(* (Period - usable) / 2; upstream's real boundary is `skew` away from it. *)
RealStart(t) ==
  LET guard    == (Period - params.usable) \div 2
      boundary == (params.open - guard + skew) % Period
      start    == MinuteBase(t) + boundary
  IN  IF start > t THEN start - Period ELSE start

NoMeter == [start |-> NoTime, count |-> 0]
NoEmbargo == [until |-> NoTime, told |-> NoTime, sent |-> NoTime, overtaken |-> FALSE]

Embargoed == embargo.until # NoTime /\ now < embargo.until

(* A send reaches upstream; its count matters only under a quota. *)
Receive ==
  /\ meter' = IF params.quota <= 0 THEN NoMeter
              ELSE IF meter.start = RealStart(now)
              THEN [meter EXCEPT !.count = @ + 1]
              ELSE [start |-> RealStart(now), count |-> 1]
  /\ embargo' = IF Embargoed THEN [embargo EXCEPT !.sent = now, !.overtaken = FALSE]
                ELSE embargo
  /\ UNCHANGED skew

-----------------------------------------------------------------------------
(* The state file and the transition ring, both written under the lock *)

(* A failed write or removal is logged and forgotten. *)
IoFault == /\ ioFaults < MaxIoFaults
           /\ ioFaults' = ioFaults + 1
           /\ file' = file

(* Mutant: the deadline stays in memory. *)
PersistStateNever(until) == UNCHANGED <<file, ioFaults>>

PersistState(until) == \/ file' = until /\ UNCHANGED ioFaults
                       \/ IoFault

(* Mutant: unlatching leaves the file behind. *)
ClearStateNever == UNCHANGED <<file, ioFaults>>

ClearState == \/ file' = NoTime /\ UNCHANGED ioFaults
              \/ file # NoTime /\ IoFault

Push(ring, kind, until) ==
  LET kept == IF Len(ring) = EventCap THEN Tail(ring) ELSE ring
  IN  Append(kept, [kind |-> kind, at |-> now, until |-> until])

Due == limitedUntil # NoTime /\ now >= limitedUntil
Latched == limitedUntil # NoTime /\ now < limitedUntil

ExpireIfDue ==
  IF Due
  THEN /\ events' = Push(events, "expired", limitedUntil)
       /\ limitedUntil' = NoTime /\ nextDrip' = NoTime
       /\ ClearState
  ELSE UNCHANGED <<events, limitedUntil, nextDrip, file, ioFaults>>

(* An expired bucket's usage does not carry over. *)
Used == IF bucketStart = WindowStart(now) THEN bucketUsed ELSE 0

RollBucket(taken) == /\ bucketStart' = WindowStart(now)
                     /\ bucketUsed' = Used + taken

-----------------------------------------------------------------------------
(* `wait`: one evaluation at the call and one at each wake up *)

Sleepers == {r \in Requests : phase[r] = "sleeping"}

Evaluating(r) == /\ \/ phase[r] = "idle"
                    \/ phase[r] = "sleeping" /\ now >= wake[r]
                 /\ r \notin cancelled

(* The waiters slot a woken request gives back at the head of the loop. *)
Slot(r) == IF phase[r] = "sleeping" THEN 1 ELSE 0

LeavesFor(r, next) == /\ phase' = [phase EXCEPT ![r] = next]
                      /\ wake' = [wake EXCEPT ![r] = NoTime]
                      /\ waiters' = waiters - Slot(r)
                      /\ UNCHANGED <<now, params, cancelled, noted>>

DripOpen == nextDrip = NoTime \/ now >= nextDrip

(* Mutant: probes are spaced and not paced. *)
QuotaOpenAlways == TRUE

QuotaOpen == params.quota <= 0 \/ Used < params.quota

AdmitProbe(r) ==
  /\ Evaluating(r) /\ Latched
  /\ Sendable(now) /\ DripOpen /\ QuotaOpen
  /\ nextDrip' = now + params.drip
  /\ RollBucket(1)
  /\ LeavesFor(r, "sent")
  /\ Receive
  /\ UNCHANGED <<limitedUntil, events, file, ioFaults>>

RejectLatched(r) ==
  /\ Evaluating(r) /\ Latched
  /\ ~(Sendable(now) /\ DripOpen /\ QuotaOpen)
  /\ RollBucket(0)
  /\ LeavesFor(r, "idle")
  /\ UNCHANGED <<nextDrip, limitedUntil, events, file, ioFaults, upstreamVars>>

AdmitUnpaced(r) ==
  /\ Evaluating(r) /\ ~Latched
  /\ params.quota <= 0
  /\ ExpireIfDue /\ RollBucket(0)
  /\ LeavesFor(r, "sent")
  /\ Receive

AdmitPaced(r) ==
  /\ Evaluating(r) /\ ~Latched
  /\ params.quota > 0 /\ Sendable(now) /\ Used < params.quota
  /\ ExpireIfDue /\ RollBucket(1)
  /\ LeavesFor(r, "sent")
  /\ Receive

WindowFull == params.quota > 0 /\ ~(Sendable(now) /\ Used < params.quota)
UntilNextWindow == WindowStart(now) + Period - now

RejectHold(r) ==
  /\ Evaluating(r) /\ ~Latched
  /\ WindowFull /\ UntilNextWindow > params.maxHold
  /\ ExpireIfDue /\ RollBucket(0)
  /\ LeavesFor(r, "idle")
  /\ UNCHANGED upstreamVars

SleepToWindow(r) ==
  /\ Evaluating(r) /\ ~Latched
  /\ WindowFull /\ UntilNextWindow <= params.maxHold
  /\ ExpireIfDue /\ RollBucket(0)
  /\ phase' = [phase EXCEPT ![r] = "sleeping"]
  /\ wake' = [wake EXCEPT ![r] = now + UntilNextWindow]
  /\ waiters' = waiters - Slot(r) + 1
  /\ UNCHANGED <<now, params, cancelled, noted, upstreamVars>>

(* Cancellation wins over the timer in either arm of the select, and is    *)
(* checked before anything is settled.                                     *)
WaitCancelled(r) ==
  /\ phase[r] \in {"idle", "sleeping"} /\ r \in cancelled
  /\ phase' = [phase EXCEPT ![r] = "idle"]
  /\ wake' = [wake EXCEPT ![r] = NoTime]
  /\ waiters' = waiters - Slot(r)
  /\ cancelled' = cancelled \ {r}
  /\ UNCHANGED <<now, params, bucketStart, bucketUsed, limitedUntil, nextDrip,
                 events, file, ioFaults, noted, upstreamVars>>

-----------------------------------------------------------------------------
(* The callers of the gate *)

(* The request's token fires: client disconnect or drain. *)
Cancel(r) ==
  /\ phase[r] \in {"idle", "sleeping"} /\ r \notin cancelled
  /\ cancelled' = cancelled \cup {r}
  /\ UNCHANGED <<now, gateVars, file, ioFaults, phase, wake, noted, upstreamVars>>

(* The future that awaits `wait` is dropped where it sleeps: its task is   *)
(* aborted or the request future goes away with the connection.            *)
DropWaiter(r) ==
  /\ phase[r] = "sleeping"
  /\ waiters - Cardinality(Sleepers) < MaxLeaks
  /\ phase' = [phase EXCEPT ![r] = "idle"]
  /\ wake' = [wake EXCEPT ![r] = NoTime]
  /\ cancelled' = cancelled \ {r}
  /\ UNCHANGED <<now, gateVars, file, ioFaults, noted, upstreamVars>>

(* The first frame of an attempt: `note_upstream_success`. *)
UpstreamAccepts(r) ==
  /\ phase[r] = "sent"
  /\ phase' = [phase EXCEPT ![r] = "streaming"]
  /\ IF limitedUntil # NoTime
     THEN /\ events' = Push(events, "released", limitedUntil)
          /\ limitedUntil' = NoTime /\ nextDrip' = NoTime
          /\ ClearState
     ELSE UNCHANGED <<events, limitedUntil, nextDrip, file, ioFaults>>
  /\ embargo' = NoEmbargo
  /\ UNCHANGED <<now, params, bucketStart, bucketUsed, waiters, wake, cancelled,
                 noted, skew, meter>>

(* A refusal, before or after the first frame. `note_upstream_error` reads *)
(* the clock here and takes the lock in NoteUpstreamError.                 *)
UpstreamRefuses(r) ==
  /\ phase[r] \in {"sent", "streaming"}
  /\ phase' = [phase EXCEPT ![r] = "refused"]
  /\ \E hint \in Hints : noted' = [noted EXCEPT ![r] = [at |-> now, hint |-> hint]]
  /\ UNCHANGED <<now, gateVars, file, ioFaults, wake, cancelled, upstreamVars>>

(* The stream ends in any other way: nothing for the gate. *)
UpstreamEnds(r) ==
  /\ phase[r] \in {"sent", "streaming"}
  /\ phase' = [phase EXCEPT ![r] = "idle"]
  /\ UNCHANGED <<now, gateVars, file, ioFaults, wake, cancelled, noted, upstreamVars>>

NoNote == [at |-> NoTime, hint |-> NoTime]

Deadline(note) ==
  LET hinted == RateLimitReset(note.hint, note.at)
  IN  IF hinted = NoTime THEN note.at + params.latch ELSE hinted

Extends(until) == limitedUntil = NoTime \/ until > limitedUntil

(* Upstream has declared a deadline, read at the given time. A send may    *)
(* have been made under the one before, since that reading: then it is     *)
(* overtaken, because the drip starts anew from the reading.               *)
Declared(until, at) ==
  LET sent == IF Embargoed THEN embargo.sent ELSE NoTime
  IN  [until |-> until, told |-> at, sent |-> sent,
       overtaken |-> sent # NoTime /\ at < sent]

NoteUpstreamError(r) ==
  /\ phase[r] = "refused"
  /\ LET until == Deadline(noted[r]) IN
     /\ IF Extends(until)
        THEN /\ limitedUntil' = until
             /\ nextDrip' = noted[r].at + params.drip
             /\ events' = Push(events, "latched", until)
             /\ PersistState(until)
        ELSE UNCHANGED <<limitedUntil, nextDrip, events, file, ioFaults>>
     /\ embargo' = IF embargo.until = NoTime \/ until > embargo.until
                   THEN Declared(until, noted[r].at)
                   ELSE embargo
  /\ phase' = [phase EXCEPT ![r] = "idle"]
  /\ noted' = [noted EXCEPT ![r] = NoNote]
  /\ UNCHANGED <<now, params, bucketStart, bucketUsed, waiters, wake, cancelled,
                 skew, meter>>

-----------------------------------------------------------------------------
(* The panel, hot reload, restart and the clock *)

Stats ==
  /\ ExpireIfDue /\ RollBucket(0)
  /\ UNCHANGED <<now, params, waiters, requestVars, upstreamVars>>

Guard(p) == (Period - p.usable) \div 2

(* `set_params` keeps the latch and the counts. A new window means a new   *)
(* estimate of upstream's boundary, and upstream is only promised a full   *)
(* bucket under one estimate, so its counter starts again.                 *)
SetParams(c) ==
  LET p == Normalised(c)
      sameWindow == <<p.quota, p.open, p.usable>> =
                    <<params.quota, params.open, params.usable>>
  IN  /\ params' = p
      /\ IF sameWindow
         THEN UNCHANGED <<meter, skew>>
         ELSE meter' = NoMeter /\ skew' \in -Guard(p)..Guard(p)
      /\ UNCHANGED <<now, bucketStart, bucketUsed, limitedUntil, nextDrip, waiters,
                     events, file, ioFaults, requestVars, embargo>>

Fresh == /\ bucketStart' = 0 /\ bucketUsed' = 0 /\ waiters' = 0
         /\ phase' = [r \in Requests |-> "idle"]
         /\ wake' = [r \in Requests |-> NoTime]
         /\ cancelled' = {}
         /\ noted' = [r \in Requests |-> NoNote]
         /\ meter' = NoMeter

(* The process dies at any point and starts again: `with_clock`, that is   *)
(* `set_params` on a fresh state and then `restore_state`.                 *)
Restart(c) ==
  LET p == Normalised(c) IN
  /\ params' = p
  /\ skew' \in -Guard(p)..Guard(p)
  /\ Fresh
  /\ IF file # NoTime /\ file > now
     THEN /\ limitedUntil' = file /\ nextDrip' = now + p.drip
          /\ events' = Push(<<>>, "restored", file)
          /\ UNCHANGED <<file, ioFaults>>
     ELSE /\ limitedUntil' = NoTime /\ nextDrip' = NoTime
          /\ events' = <<>>
          /\ ClearState
  /\ UNCHANGED <<now, embargo>>

Tick == /\ now < MaxTime
        /\ now' = now + 1
        /\ UNCHANGED <<gateVars, file, ioFaults, requestVars, upstreamVars>>

(* The first start, on a machine without a state file. The clock is at     *)
(* least one period past the epoch.                                        *)
Init ==
  /\ now = Period
  /\ \E c \in Configs : /\ params = Normalised(c)
                        /\ skew \in -Guard(Normalised(c))..Guard(Normalised(c))
  /\ bucketStart = 0 /\ bucketUsed = 0
  /\ limitedUntil = NoTime /\ nextDrip = NoTime
  /\ waiters = 0 /\ events = <<>>
  /\ file = NoTime /\ ioFaults = 0
  /\ phase = [r \in Requests |-> "idle"]
  /\ wake = [r \in Requests |-> NoTime]
  /\ cancelled = {}
  /\ noted = [r \in Requests |-> NoNote]
  /\ meter = NoMeter /\ embargo = NoEmbargo

Wait(r) ==
  \/ AdmitProbe(r) \/ RejectLatched(r)
  \/ AdmitUnpaced(r) \/ AdmitPaced(r) \/ RejectHold(r) \/ SleepToWindow(r)
  \/ WaitCancelled(r)

Caller(r) ==
  \/ Cancel(r) \/ DropWaiter(r)
  \/ UpstreamAccepts(r) \/ UpstreamRefuses(r) \/ UpstreamEnds(r)
  \/ NoteUpstreamError(r)

InProcess == \/ \E r \in Requests : Wait(r) \/ Caller(r)
             \/ Stats
             \/ \E c \in Configs : SetParams(c)

Next == \/ InProcess
        \/ \E c \in Configs : Restart(c)
        \/ Tick

Spec == Init /\ [][Next]_vars

-----------------------------------------------------------------------------
(* Properties *)

Params == [quota : Int, maxHold : Nat \ {0}, drip : Nat \ {0}, latch : Nat \ {0},
           open : 0..(Period - 1), usable : 1..Period]

Notes == [at : Nat, hint : Hints] \cup {NoNote}
Embargoes == [until : Times, told : Times, sent : Times, overtaken : BOOLEAN]

(* Every variable of the gate and of its callers has its type. *)
TypeOK ==
  /\ now \in Nat
  /\ params \in Params
  /\ bucketStart \in Nat /\ bucketUsed \in Nat
  /\ limitedUntil \in Times /\ nextDrip \in Times
  /\ waiters \in Int
  /\ events \in Seq(Event)
  /\ file \in Times /\ ioFaults \in Nat
  /\ phase \in [Requests -> Phases]
  /\ wake \in [Requests -> Times]
  /\ cancelled \in SUBSET Requests
  /\ noted \in [Requests -> Notes]
  /\ skew \in Int
  /\ meter \in [start : Times, count : Nat]
  /\ embargo \in Embargoes

(* gate.rs:184-188, "every sendable interval is a strict subset of one     *)
(* real upstream bucket": with the real boundary anywhere within the       *)
(* guard, upstream never counts more sends in one of ITS buckets than the  *)
(* quota, drip probes, wake-up races and latch expiries included.          *)
UpstreamQuota == params.quota > 0 => meter.count <= params.quota

(* Absent I/O failures the file holds the deadline in memory at all times, *)
(* so no interleaving of latch, release, expiry and crash leaves a ghost   *)
(* latch or loses a live one (gate.rs:503-507, 542-545).                   *)
FileMirrorsLatch == ioFaults = 0 => file = limitedUntil

(* The requests currently sleeping are what `waiters` counts (gate.rs:156  *)
(* and gate.rs:258).                                                       *)
WaitersAreSleepers == waiters = Cardinality(Sleepers)

Admits(r) == phase[r] \in {"idle", "sleeping"} /\ phase'[r] = "sent"

MinDrip(p) == \A c \in Configs : p <= Normalised(c).drip

(* Under a deadline upstream has declared and not taken back by accepting  *)
(* a send, every send is at least the shortest configured drip interval    *)
(* after the reading of the refusal that set the deadline, and so is it    *)
(* after the send before, in this process and across restarts. One pair of *)
(* sends may be closer: a refusal read before the first of them and noted  *)
(* after it extends the deadline and starts the drip anew from its own,    *)
(* earlier, reading (gate.rs:484-497).                                     *)
ProbesAreSpaced ==
  [][\A r \in Requests :
       Admits(r) /\ Embargoed /\ ioFaults = 0
         => \E c \in Configs :
              /\ MinDrip(Normalised(c).drip)
              /\ now >= embargo.told + Normalised(c).drip
              /\ embargo.sent # NoTime /\ ~embargo.overtaken
                   => now >= embargo.sent + Normalised(c).drip]_vars

(* The latch only extends (gate.rs:470): while it lasts no step, a restart *)
(* included, moves the deadline back or drops it, unless upstream accepted *)
(* a send.                                                                 *)
LatchOnlyExtends ==
  [][Latched /\ ioFaults' = 0
       => \/ limitedUntil' # NoTime /\ limitedUntil' >= limitedUntil
          \/ \E r \in Requests : phase[r] = "sent" /\ phase'[r] = "streaming"]_vars

(* What upstream has declared is kept to: the deadline itself only extends,*)
(* and until it is over, or upstream accepts a send, the sends made are    *)
(* probes spaced as above, whatever crashes, reloads and late answers come *)
(* between.                                                                *)
DeadlineIsKept == ProbesAreSpaced /\ LatchOnlyExtends
=============================================================================
