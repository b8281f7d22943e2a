--------------------------- MODULE RateGateProofs ---------------------------
(***************************************************************************)
(* What holds of RateGate, and of the timeline rebuilt from its ring of    *)
(* transitions, for every value of the constants.                          *)
(***************************************************************************)
EXTENDS GateTimeline, WellFoundedInduction, TLAPS

USE DEF Times, gateVars, requestVars, upstreamVars

-----------------------------------------------------------------------------
(* Arithmetic *)

LEMMA ModRange ==
  ASSUME NEW a \in Int, NEW b \in Nat \ {0}
  PROVE  a % b \in 0..(b - 1)
OBVIOUS

LEMMA DivMod ==
  ASSUME NEW a \in Int, NEW b \in Nat \ {0}
  PROVE  \E q \in Int : a = q * b + (a % b)
<1>1. a \div b \in Int
  OBVIOUS
<1>2. a = (a \div b) * b + (a % b)
  OBVIOUS
<1> QED BY <1>1, <1>2

(* A normalised block is one `set_params` may store, whatever it was given. *)
LEMMA NormalisedType ==
  ASSUME NEW c \in Configs
  PROVE  Normalised(c) \in Params
<1> DEFINE g == GuardOf(c)
<1>1. c \in [maxRpm : Int, maxHold : Nat, drip : Nat, latch : Nat, offset : Int, guard : Nat]
  BY ConfigsAssumption
<1>2. g \in Nat /\ 1 <= g /\ 2 * g < Period
  BY <1>1, PeriodAssumption DEF GuardOf
<1>3. (c.offset + g) % Period \in 0..(Period - 1)
  <2>1. c.offset + g \in Int
    BY <1>1, <1>2
  <2> QED BY <2>1, ModRange, PeriodAssumption
<1>4. Period - 2 * g \in 1..Period
  BY <1>2, PeriodAssumption
<1>5. /\ OrDefault(c.maxHold, DefaultMaxHold) \in Nat \ {0}
      /\ OrDefault(c.drip, DefaultDrip) \in Nat \ {0}
      /\ OrDefault(c.latch, DefaultLatch) \in Nat \ {0}
  BY <1>1, DefaultsAssumption DEF OrDefault
<1> HIDE DEF g
<1>6. Normalised(c) = [quota |-> c.maxRpm,
                       maxHold |-> OrDefault(c.maxHold, DefaultMaxHold),
                       drip |-> OrDefault(c.drip, DefaultDrip),
                       latch |-> OrDefault(c.latch, DefaultLatch),
                       open |-> (c.offset + g) % Period,
                       usable |-> Period - 2 * g]
  BY DEF Normalised, g
<1> QED BY <1>1, <1>3, <1>4, <1>5, <1>6 DEF Params

(* A window opens at most one period before the instant it contains. *)
LEMMA WindowStartBounds ==
  ASSUME NEW t \in Nat, t >= Period, params \in Params
  PROVE  /\ WindowStart(t) \in Nat
         /\ WindowStart(t) <= t
         /\ t < WindowStart(t) + Period
<1>1. t % Period \in 0..(Period - 1)
  BY ModRange, PeriodAssumption
<1>2. params.open \in 0..(Period - 1)
  BY DEF Params
<1>3. t - (t % Period) >= Period - (t % Period) /\ Period \in Nat /\ Period >= 1
  BY <1>1, PeriodAssumption
<1> DEFINE m == t % Period
<1>4. m \in 0..(Period - 1)
  BY <1>1
<1>5. t - m >= Period
  <2>1. \E q \in Int : t = q * Period + m
    <3>1. t \in Int /\ Period \in Nat \ {0}
      BY PeriodAssumption
    <3> QED BY <3>1, DivMod DEF m
  <2>2. PICK q \in Int : t = q * Period + m
    BY <2>1
  <2> HIDE DEF m
  <2>3. q >= 1
    <3> SUFFICES ASSUME q <= 0 PROVE FALSE
      BY <2>2
    <3>1. q * Period <= 0
      BY <1>3
    <3> QED BY <3>1, <2>2, <1>4, <1>3
  <2>4. q * Period >= Period
    BY <2>3, <1>3
  <2> QED BY <2>2, <2>4, <1>3, <1>4
<1>6. WindowStart(t) = IF (t - m) + params.open > t
                        THEN ((t - m) + params.open) - Period
                        ELSE (t - m) + params.open
  BY DEF WindowStart, MinuteBase, m
<1> HIDE DEF m
<1> QED BY <1>2, <1>3, <1>4, <1>5, <1>6

LEMMA RealStartType ==
  ASSUME NEW t \in Nat, t >= Period, params \in Params, skew \in Int
  PROVE  RealStart(t) \in Nat
<1> DEFINE guard == (Period - params.usable) \div 2
           b == (params.open - guard + skew) % Period
           m == t % Period
<1>1. Period \in Nat /\ Period >= 1 /\ params.open \in Int /\ params.usable \in Int
  BY PeriodAssumption DEF Params
<1>2. guard \in Int
  BY <1>1
<1>3. b \in 0..(Period - 1)
  <2> HIDE DEF guard
  <2>1. params.open - guard + skew \in Int
    BY <1>1, <1>2
  <2> QED BY <2>1, ModRange, PeriodAssumption
<1>4. m \in 0..(Period - 1)
  BY ModRange, PeriodAssumption
<1>5. RealStart(t) = IF (t - m) + b > t THEN ((t - m) + b) - Period ELSE (t - m) + b
  BY DEF RealStart, MinuteBase, guard, b, m
<1> HIDE DEF b, m
<1> QED BY <1>1, <1>3, <1>4, <1>5

-----------------------------------------------------------------------------
(* The operators the actions share *)

LEMMA PushType ==
  ASSUME NEW ring \in Seq(Event), NEW until \in Nat, now \in Nat,
         NEW kind \in {"latched", "released", "expired", "restored"}
  PROVE  Push(ring, kind, until) \in Seq(Event)
<1> DEFINE kept == IF Len(ring) = EventCap THEN Tail(ring) ELSE ring
<1>1. kept \in Seq(Event)
  BY BoundsAssumption
<1>2. [kind |-> kind, at |-> now, until |-> until] \in Event
  BY DEF Event
<1> HIDE DEF kept
<1>3. Append(kept, [kind |-> kind, at |-> now, until |-> until]) \in Seq(Event)
  BY <1>1, <1>2
<1> QED BY <1>3 DEF Push, kept

(* A refusal that carries a declaration, and one that does not, both yield *)
(* an instant.                                                             *)
LEMMA DeadlineType ==
  ASSUME NEW at \in Nat, NEW hint \in Hints, params \in Params
  PROVE  Deadline([at |-> at, hint |-> hint]) \in Nat
<1>1. /\ hint.kind \in {"none", "seconds", "minutes"} /\ hint.n \in Nat
      /\ Period \in Nat /\ params.latch \in Nat
  BY HintsAssumption, PeriodAssumption DEF Params
<1> DEFINE target == at + hint.n * Period
           edge == (target - (target % Period)) + (Period - 1)
           reset == RateLimitReset(hint, at)
<1>2. target \in Nat
  BY <1>1
<1>3. edge \in Nat
  <2> HIDE DEF target
  <2>1. target % Period \in 0..(Period - 1)
    BY <1>2, ModRange, PeriodAssumption
  <2> QED BY <2>1, <1>1, <1>2
<1>4. reset \in Nat \cup {NoTime}
  <2> HIDE DEF target, edge
  <2>1. CASE hint.kind = "none"
    BY <2>1 DEF RateLimitReset, reset
  <2>2. CASE hint.kind = "seconds"
    BY <2>2, <1>1 DEF RateLimitReset, reset
  <2>3. CASE hint.kind = "minutes"
    <3>1. reset = IF edge <= target THEN edge + Period ELSE edge
      BY <2>3, <1>1, <1>2 DEF RateLimitReset, MinuteBase, reset, edge, target
    <3> QED BY <3>1, <1>1, <1>2, <1>3
  <2> QED BY <2>1, <2>2, <2>3, <1>1
<1> HIDE DEF reset
<1> QED BY <1>1, <1>4 DEF Deadline, reset

GateTypes == /\ bucketStart \in Nat /\ bucketUsed \in Nat
             /\ limitedUntil \in Times /\ nextDrip \in Times
             /\ events \in Seq(Event) /\ file \in Times /\ ioFaults \in Nat

ClockTypes == now \in Nat /\ now >= Period /\ params \in Params

LEMMA RollBucketType ==
  ASSUME ClockTypes, GateTypes, NEW taken \in Nat, RollBucket(taken)
  PROVE  bucketStart' \in Nat /\ bucketUsed' \in Nat
BY WindowStartBounds DEF RollBucket, Used, ClockTypes, GateTypes

LEMMA ExpireIfDueType ==
  ASSUME ClockTypes, GateTypes, ExpireIfDue
  PROVE  /\ limitedUntil' \in Times /\ nextDrip' \in Times
         /\ events' \in Seq(Event) /\ file' \in Times /\ ioFaults' \in Nat
<1>1. CASE Due
  <2>1. limitedUntil \in Nat
    BY <1>1 DEF Due, GateTypes
  <2>2. events' = Push(events, "expired", limitedUntil)
    BY <1>1 DEF ExpireIfDue
  <2>3. events' \in Seq(Event)
    BY <2>1, <2>2, PushType DEF ClockTypes, GateTypes
  <2> QED BY <1>1, <2>3 DEF ExpireIfDue, ClearState, IoFault, GateTypes
<1>2. CASE ~Due
  BY <1>2 DEF ExpireIfDue, GateTypes
<1> QED BY <1>1, <1>2

LEMMA ReceiveType ==
  ASSUME ClockTypes, skew \in Int, meter \in [start : Times, count : Nat],
         embargo \in Embargoes, Receive
  PROVE  /\ skew' \in Int
         /\ meter' \in [start : Times, count : Nat]
         /\ embargo' \in Embargoes
<1>1. RealStart(now) \in Nat
  BY RealStartType DEF ClockTypes
<1>2. embargo' \in Embargoes
  <2>1. now \in Times
    BY DEF ClockTypes
  <2>2. [embargo EXCEPT !.sent = now, !.overtaken = FALSE] \in Embargoes
    BY <2>1 DEF Embargoes
  <2> QED BY <2>2 DEF Receive
<1> QED BY <1>1, <1>2 DEF Receive, NoMeter

LEMMA DeclaredType ==
  ASSUME embargo \in Embargoes, NEW until \in Nat, NEW at \in Nat
  PROVE  Declared(until, at) \in Embargoes
<1> DEFINE sent == IF Embargoed THEN embargo.sent ELSE NoTime
           late == sent # NoTime /\ at < sent
<1>1. sent \in Times /\ late \in BOOLEAN
  BY DEF Embargoes
<1>2. Declared(until, at) = [until |-> until, told |-> at, sent |-> sent, overtaken |-> late]
  BY DEF Declared
<1> HIDE DEF sent, late
<1> QED BY <1>1, <1>2 DEF Embargoes

-----------------------------------------------------------------------------
(* Type correctness. A request whose refusal waits for the lock has its    *)
(* clock reading and hint at hand, and the clock starts past the epoch.    *)
IInv == /\ TypeOK
        /\ now >= Period
        /\ \A r \in Requests : phase[r] = "refused" => noted[r] # NoNote

RequestTypes == /\ phase \in [Requests -> Phases]
                /\ wake \in [Requests -> Times]
                /\ cancelled \in SUBSET Requests
                /\ noted \in [Requests -> Notes]
                /\ waiters \in Int
                /\ \A r \in Requests : phase[r] = "refused" => noted[r] # NoNote

UpstreamTypes == /\ skew \in Int
                 /\ meter \in [start : Times, count : Nat]
                 /\ embargo \in Embargoes

LEMMA IInvParts == IInv <=> ClockTypes /\ GateTypes /\ RequestTypes /\ UpstreamTypes
BY DEF IInv, TypeOK, ClockTypes, GateTypes, RequestTypes, UpstreamTypes

LEMMA LeavesForType ==
  ASSUME ClockTypes, RequestTypes, NEW r \in Requests, NEW next \in Phases \ {"refused"},
         LeavesFor(r, next)
  PROVE  ClockTypes' /\ RequestTypes'
BY DEF ClockTypes, RequestTypes, LeavesFor, Slot, Phases

THEOREM InitTypes == Init => IInv
<1> SUFFICES ASSUME Init PROVE ClockTypes /\ GateTypes /\ RequestTypes /\ UpstreamTypes
  BY IInvParts
<1>1. PICK c \in Configs : /\ params = Normalised(c)
                           /\ skew \in -Guard(Normalised(c))..Guard(Normalised(c))
  BY DEF Init
<1>2. params \in Params
  BY <1>1, NormalisedType
<1>3. skew \in Int
  BY <1>1, <1>2, PeriodAssumption DEF Guard, Params
<1>4. ClockTypes
  BY <1>2, PeriodAssumption DEF Init, ClockTypes
<1>5. GateTypes
  BY DEF Init, GateTypes
<1>6. RequestTypes
  BY DEF Init, RequestTypes, Phases, Notes
<1>7. UpstreamTypes
  BY <1>3 DEF Init, UpstreamTypes, NoMeter, NoEmbargo, Embargoes
<1> QED BY <1>4, <1>5, <1>6, <1>7

(* An evaluation that settles the latch and rolls the bucket. *)
LEMMA SettledTypes ==
  ASSUME ClockTypes, GateTypes, ExpireIfDue, NEW taken \in Nat, RollBucket(taken)
  PROVE  GateTypes'
BY ExpireIfDueType, RollBucketType DEF GateTypes

LEMMA WaitTypes ==
  ASSUME IInv, NEW r \in Requests, Wait(r)
  PROVE  IInv'
<1> SUFFICES ClockTypes' /\ GateTypes' /\ RequestTypes' /\ UpstreamTypes'
  BY IInvParts, PTL
<1>0. ClockTypes /\ GateTypes /\ RequestTypes /\ UpstreamTypes
  BY IInvParts
<1>1. CASE AdmitProbe(r)
  <2>1. ClockTypes' /\ RequestTypes'
    BY <1>0, <1>1, LeavesForType DEF AdmitProbe, Phases
  <2>2. GateTypes'
    <3>1. nextDrip' \in Nat
      BY <1>0, <1>1 DEF AdmitProbe, ClockTypes, Params
    <3>2. bucketStart' \in Nat /\ bucketUsed' \in Nat
      BY <1>0, <1>1, RollBucketType DEF AdmitProbe
    <3> QED BY <1>0, <1>1, <3>1, <3>2 DEF AdmitProbe, GateTypes
  <2>3. UpstreamTypes'
    BY <1>0, <1>1, ReceiveType DEF AdmitProbe, UpstreamTypes
  <2> QED BY <2>1, <2>2, <2>3
<1>2. CASE RejectLatched(r)
  <2>1. ClockTypes' /\ RequestTypes'
    BY <1>0, <1>2, LeavesForType DEF RejectLatched, Phases
  <2>2. GateTypes'
    BY <1>0, <1>2, RollBucketType DEF RejectLatched, GateTypes
  <2>3. UpstreamTypes'
    BY <1>0, <1>2 DEF RejectLatched, UpstreamTypes
  <2> QED BY <2>1, <2>2, <2>3
<1>3. CASE AdmitUnpaced(r)
  <2>1. ClockTypes' /\ RequestTypes'
    BY <1>0, <1>3, LeavesForType DEF AdmitUnpaced, Phases
  <2>2. GateTypes'
    BY <1>0, <1>3, SettledTypes DEF AdmitUnpaced
  <2>3. UpstreamTypes'
    BY <1>0, <1>3, ReceiveType DEF AdmitUnpaced, UpstreamTypes
  <2> QED BY <2>1, <2>2, <2>3
<1>4. CASE AdmitPaced(r)
  <2>1. ClockTypes' /\ RequestTypes'
    BY <1>0, <1>4, LeavesForType DEF AdmitPaced, Phases
  <2>2. GateTypes'
    BY <1>0, <1>4, SettledTypes DEF AdmitPaced
  <2>3. UpstreamTypes'
    BY <1>0, <1>4, ReceiveType DEF AdmitPaced, UpstreamTypes
  <2> QED BY <2>1, <2>2, <2>3
<1>5. CASE RejectHold(r)
  <2>1. ClockTypes' /\ RequestTypes'
    BY <1>0, <1>5, LeavesForType DEF RejectHold, Phases
  <2>2. GateTypes'
    BY <1>0, <1>5, SettledTypes DEF RejectHold
  <2>3. UpstreamTypes'
    BY <1>0, <1>5 DEF RejectHold, UpstreamTypes
  <2> QED BY <2>1, <2>2, <2>3
<1>6. CASE SleepToWindow(r)
  <2>1. WindowStart(now) \in Nat /\ Period \in Nat /\ now < WindowStart(now) + Period
    BY <1>0, WindowStartBounds, PeriodAssumption DEF ClockTypes
  <2>2. now + UntilNextWindow \in Nat
    BY <1>0, <2>1 DEF UntilNextWindow, ClockTypes
  <2>3. RequestTypes'
    BY <1>0, <1>6, <2>2 DEF SleepToWindow, RequestTypes, Slot, Phases
  <2>4. GateTypes'
    BY <1>0, <1>6, SettledTypes DEF SleepToWindow
  <2> QED BY <1>0, <1>6, <2>3, <2>4 DEF SleepToWindow, ClockTypes, UpstreamTypes
<1>7. CASE WaitCancelled(r)
  <2>1. RequestTypes'
    BY <1>0, <1>7 DEF WaitCancelled, RequestTypes, Slot, Phases
  <2> QED BY <1>0, <1>7, <2>1 DEF WaitCancelled, ClockTypes, GateTypes, UpstreamTypes
<1> QED BY <1>1, <1>2, <1>3, <1>4, <1>5, <1>6, <1>7 DEF Wait

(* A refusal being noted sets an instant. *)
LEMMA NotedDeadline ==
  ASSUME ClockTypes, RequestTypes, NEW r \in Requests, phase[r] = "refused"
  PROVE  Deadline(noted[r]) \in Nat
<1>1. PICK at \in Nat, hint \in Hints : noted[r] = [at |-> at, hint |-> hint]
  BY DEF RequestTypes, Notes
<1> QED BY <1>1, DeadlineType DEF ClockTypes

LEMMA CallerTypes ==
  ASSUME IInv, NEW r \in Requests, Caller(r)
  PROVE  IInv'
<1> SUFFICES ClockTypes' /\ GateTypes' /\ RequestTypes' /\ UpstreamTypes'
  BY IInvParts, PTL
<1>0. ClockTypes /\ GateTypes /\ RequestTypes /\ UpstreamTypes
  BY IInvParts
<1>1. CASE Cancel(r)
  BY <1>0, <1>1 DEF Cancel, ClockTypes, GateTypes, RequestTypes, UpstreamTypes
<1>2. CASE DropWaiter(r)
  BY <1>0, <1>2 DEF DropWaiter, ClockTypes, GateTypes, RequestTypes, UpstreamTypes, Phases
<1>3. CASE UpstreamAccepts(r)
  <2>1. CASE limitedUntil # NoTime
    <3>1. events' \in Seq(Event)
      BY <1>0, <1>3, <2>1, PushType DEF UpstreamAccepts, GateTypes, ClockTypes
    <3>2. GateTypes'
      BY <1>0, <1>3, <2>1, <3>1 DEF UpstreamAccepts, GateTypes, ClearState, IoFault
    <3> QED BY <1>0, <1>3, <3>2 DEF UpstreamAccepts, ClockTypes, RequestTypes,
                                   UpstreamTypes, NoEmbargo, Embargoes, Phases
  <2>2. CASE limitedUntil = NoTime
    BY <1>0, <1>3, <2>2 DEF UpstreamAccepts, ClockTypes, GateTypes, RequestTypes,
                            UpstreamTypes, NoEmbargo, Embargoes, Phases
  <2> QED BY <2>1, <2>2
<1>4. CASE UpstreamRefuses(r)
  <2>1. PICK hint \in Hints : noted' = [noted EXCEPT ![r] = [at |-> now, hint |-> hint]]
    BY <1>4 DEF UpstreamRefuses
  <2>2. [at |-> now, hint |-> hint] \in Notes /\ [at |-> now, hint |-> hint] # NoNote
    BY <1>0, NoTimeAssumption DEF Notes, NoNote, ClockTypes
  <2>3. RequestTypes'
    BY <1>0, <1>4, <2>1, <2>2 DEF UpstreamRefuses, RequestTypes, Phases
  <2> QED BY <1>0, <1>4, <2>3 DEF UpstreamRefuses, ClockTypes, GateTypes, UpstreamTypes
<1>5. CASE UpstreamEnds(r)
  BY <1>0, <1>5 DEF UpstreamEnds, ClockTypes, GateTypes, RequestTypes, UpstreamTypes, Phases
<1>6. CASE NoteUpstreamError(r)
  <2>1. PICK at \in Nat, hint \in Hints : noted[r] = [at |-> at, hint |-> hint]
    BY <1>0, <1>6 DEF NoteUpstreamError, RequestTypes, Notes
  <2> DEFINE until == Deadline(noted[r])
  <2>2. until \in Nat
    BY <1>0, <2>1, DeadlineType DEF ClockTypes
  <2> HIDE DEF until
  <2>3. GateTypes'
    <3>1. CASE Extends(until)
      <4>1. events' = Push(events, "latched", until) /\ PersistState(until)
            /\ limitedUntil' = until /\ nextDrip' = noted[r].at + params.drip
        BY <1>6, <3>1 DEF NoteUpstreamError, until
      <4>2. events' \in Seq(Event)
        BY <1>0, <4>1, <2>2, PushType DEF GateTypes, ClockTypes
      <4>3. nextDrip' \in Nat
        BY <1>0, <4>1, <2>1 DEF ClockTypes, Params
      <4> QED BY <1>0, <1>6, <2>2, <4>1, <4>2, <4>3
              DEF NoteUpstreamError, GateTypes, PersistState, IoFault
    <3>2. CASE ~Extends(until)
      BY <1>0, <1>6, <3>2 DEF NoteUpstreamError, GateTypes, until
    <3> QED BY <3>1, <3>2
  <2>4. UpstreamTypes'
    BY <1>0, <1>6, <2>1, <2>2, DeclaredType DEF NoteUpstreamError, UpstreamTypes, until
  <2>5. RequestTypes'
    BY <1>0, <1>6 DEF NoteUpstreamError, RequestTypes, Phases, Notes
  <2> QED BY <1>0, <1>6, <2>3, <2>4, <2>5 DEF NoteUpstreamError, ClockTypes
<1> QED BY <1>1, <1>2, <1>3, <1>4, <1>5, <1>6 DEF Caller

LEMMA SkewType ==
  ASSUME NEW p \in Params, NEW x \in -Guard(p)..Guard(p)
  PROVE  x \in Int
BY PeriodAssumption DEF Guard, Params

LEMMA RestartTypes ==
  ASSUME IInv, NEW c \in Configs, Restart(c)
  PROVE  IInv'
<1> SUFFICES ClockTypes' /\ GateTypes' /\ RequestTypes' /\ UpstreamTypes'
  BY IInvParts, PTL
<1>0. ClockTypes /\ GateTypes /\ RequestTypes /\ UpstreamTypes
  BY IInvParts
<1> DEFINE p == Normalised(c)
<1>1. p \in Params
  BY NormalisedType
<1>2. /\ params' = p /\ skew' \in -Guard(p)..Guard(p)
      /\ Fresh /\ now' = now /\ embargo' = embargo
  BY DEF Restart
<1>3. \/ /\ file \in Nat
         /\ limitedUntil' = file /\ nextDrip' = now + p.drip
         /\ events' = Push(<<>>, "restored", file)
         /\ UNCHANGED <<file, ioFaults>>
      \/ /\ limitedUntil' = NoTime /\ nextDrip' = NoTime
         /\ events' = <<>> /\ ClearState
  BY <1>0 DEF Restart, GateTypes
<1> HIDE DEF p
<1>4. RequestTypes'
  BY <1>2 DEF Fresh, RequestTypes, Phases, Notes
<1>5. UpstreamTypes'
  BY <1>0, <1>1, <1>2, SkewType DEF Fresh, UpstreamTypes, NoMeter
<1>6. GateTypes'
  <2>1. bucketStart' \in Nat /\ bucketUsed' \in Nat
    BY <1>2 DEF Fresh
  <2>2. CASE /\ file \in Nat
             /\ limitedUntil' = file /\ nextDrip' = now + p.drip
             /\ events' = Push(<<>>, "restored", file)
             /\ UNCHANGED <<file, ioFaults>>
    <3>1. events' \in Seq(Event)
      <4>1. <<>> \in Seq(Event) /\ now \in Nat
        BY <1>0 DEF ClockTypes
      <4>2. Push(<<>>, "restored", file) \in Seq(Event)
        BY <4>1, <2>2, PushType
      <4> QED BY <4>2, <2>2
    <3>2. nextDrip' \in Nat
      BY <1>0, <1>1, <2>2, SMTT(30) DEF ClockTypes, Params
    <3> QED BY <1>0, <2>1, <2>2, <3>1, <3>2 DEF GateTypes
  <2>3. CASE /\ limitedUntil' = NoTime /\ nextDrip' = NoTime
             /\ events' = <<>> /\ ClearState
    BY <1>0, <2>1, <2>3 DEF GateTypes, ClearState, IoFault
  <2> QED BY <1>3, <2>2, <2>3
<1> QED BY <1>0, <1>1, <1>2, <1>4, <1>5, <1>6 DEF ClockTypes

LEMMA SetParamsTypes ==
  ASSUME IInv, NEW c \in Configs, SetParams(c)
  PROVE  IInv'
<1> SUFFICES ClockTypes' /\ GateTypes' /\ RequestTypes' /\ UpstreamTypes'
  BY IInvParts, PTL
<1>0. ClockTypes /\ GateTypes /\ RequestTypes /\ UpstreamTypes
  BY IInvParts
<1> DEFINE p == Normalised(c)
<1>1. p \in Params
  BY NormalisedType
<1>2. UpstreamTypes'
  <2>1. \/ UNCHANGED <<meter, skew>>
        \/ meter' = NoMeter /\ skew' \in -Guard(p)..Guard(p)
    BY DEF SetParams
  <2> HIDE DEF p
  <2>2. embargo' = embargo
    BY DEF SetParams
  <2> QED BY <1>0, <1>1, <2>1, <2>2, SkewType DEF UpstreamTypes, NoMeter
<1>3. params' = p
  BY DEF SetParams
<1> HIDE DEF p
<1> QED BY <1>0, <1>1, <1>2, <1>3 DEF SetParams, ClockTypes, GateTypes, RequestTypes

(* Every step of the gate, its callers and its restarts keeps the types.   *)
THEOREM NextTypes == IInv /\ [Next]_vars => IInv'
<1> SUFFICES ASSUME IInv, [Next]_vars PROVE IInv'
  OBVIOUS
<1>0. ClockTypes /\ GateTypes /\ RequestTypes /\ UpstreamTypes
  BY IInvParts
<1>1. CASE \E r \in Requests : Wait(r)
  BY <1>1, WaitTypes
<1>2. CASE \E r \in Requests : Caller(r)
  BY <1>2, CallerTypes
<1>3. CASE Stats
  <2>1. GateTypes'
    BY <1>0, <1>3, SettledTypes DEF Stats
  <2>2. ClockTypes' /\ RequestTypes' /\ UpstreamTypes'
    BY <1>0, <1>3 DEF Stats, ClockTypes, RequestTypes, UpstreamTypes
  <2> QED BY <2>1, <2>2, IInvParts, PTL
<1>4. CASE \E c \in Configs : SetParams(c)
  BY <1>4, SetParamsTypes
<1>5. CASE \E c \in Configs : Restart(c)
  BY <1>5, RestartTypes
<1>6. CASE Tick
  BY <1>6, PeriodAssumption DEF Tick, IInv, TypeOK
<1>7. CASE UNCHANGED vars
  BY <1>7 DEF vars, IInv, TypeOK
<1> QED BY <1>1, <1>2, <1>3, <1>4, <1>5, <1>6, <1>7 DEF Next, InProcess

THEOREM Invariance == Spec => []IInv
BY InitTypes, NextTypes, PTL DEF Spec

(* RateGate is type correct.                                               *)
THEOREM TypeCorrect == Spec => []TypeOK
<1>1. IInv => TypeOK
  BY DEF IInv
<1> QED BY <1>1, Invariance, PTL

-----------------------------------------------------------------------------
(* The state file *)

(* Without I/O failures the state file holds the latch of the memory: what *)
(* a crash at any point leaves to the next process is the latch it had.    *)
THEOREM FileIsLatch == Spec => []FileMirrorsLatch
<1>1. Init => FileMirrorsLatch
  BY DEF Init, FileMirrorsLatch
<1>2. IInv /\ FileMirrorsLatch /\ [Next]_vars => FileMirrorsLatch'
  <2> SUFFICES ASSUME IInv, FileMirrorsLatch, [Next]_vars, ioFaults' = 0
               PROVE  file' = limitedUntil'
    BY DEF FileMirrorsLatch
  <2>0. ioFaults \in Nat /\ file \in Times /\ limitedUntil \in Times
    BY DEF IInv, TypeOK
  <2>1. ~IoFault
    BY <2>0 DEF IoFault
  <2>2. ClearState => file' = NoTime /\ ioFaults = 0
    BY <2>1 DEF ClearState
  <2>3. ExpireIfDue => file' = limitedUntil'
    BY <2>0, <2>2 DEF ExpireIfDue, FileMirrorsLatch
  <2>4. ASSUME NEW r \in Requests, Wait(r)
        PROVE  file' = limitedUntil'
    BY <2>3, <2>4 DEF Wait, AdmitProbe, RejectLatched, AdmitUnpaced, AdmitPaced,
                      RejectHold, SleepToWindow, WaitCancelled, FileMirrorsLatch
  <2>5. ASSUME NEW r \in Requests, Caller(r)
        PROVE  file' = limitedUntil'
    <3>1. CASE UpstreamAccepts(r)
      BY <3>1, <2>2 DEF UpstreamAccepts, FileMirrorsLatch
    <3>2. CASE NoteUpstreamError(r)
      BY <3>2, <2>1 DEF NoteUpstreamError, PersistState, FileMirrorsLatch
    <3>3. CASE Cancel(r) \/ DropWaiter(r) \/ UpstreamRefuses(r) \/ UpstreamEnds(r)
      BY <3>3 DEF Cancel, DropWaiter, UpstreamRefuses, UpstreamEnds, FileMirrorsLatch
    <3> QED BY <2>5, <3>1, <3>2, <3>3 DEF Caller
  <2>6. ASSUME NEW c \in Configs, Restart(c)
        PROVE  file' = limitedUntil'
    BY <2>6, <2>2 DEF Restart
  <2>7. CASE Stats \/ (\E c \in Configs : SetParams(c)) \/ Tick \/ UNCHANGED vars
    BY <2>3, <2>7 DEF Stats, SetParams, Tick, vars, FileMirrorsLatch
  <2> QED BY <2>4, <2>5, <2>6, <2>7 DEF Next, InProcess
<1> QED BY <1>1, <1>2, Invariance, PTL DEF Spec
-----------------------------------------------------------------------------
(* The quota: the promise the window pacing makes to upstream, for every   *)
(* period, guard, quota and set of callers, is that upstream never counts  *)
(* more sends in one of its own minute buckets than the quota allows.      *)

(* Two instants a whole number of periods from the same phase, both in the *)
(* period that ends at t, are one.                                         *)
LEMMA OneBoundaryPerPeriod ==
  ASSUME NEW P \in Nat \ {0}, NEW a \in Int, NEW c \in Int, NEW b \in Int, NEW t \in Int,
         a * P + b <= t, t < (a * P + b) + P,
         c * P + b <= t, t < (c * P + b) + P
  PROVE  a = c
<1>1. ~(a < c)
  <2> SUFFICES ASSUME a + 1 <= c PROVE FALSE
    OBVIOUS
  <2>1. (a + 1) * P <= c * P
    OBVIOUS
  <2>2. (a + 1) * P = a * P + P
    OBVIOUS
  <2> QED BY <2>1, <2>2
<1>2. ~(c < a)
  <2> SUFFICES ASSUME c + 1 <= a PROVE FALSE
    OBVIOUS
  <2>1. (c + 1) * P <= a * P
    OBVIOUS
  <2>2. (c + 1) * P = c * P + P
    OBVIOUS
  <2> QED BY <2>1, <2>2
<1> QED BY <1>1, <1>2

(* A window opening is a whole number of periods from the configured phase. *)
LEMMA WindowStartPhase ==
  ASSUME NEW t \in Nat, t >= Period, params \in Params
  PROVE  \E q \in Int : WindowStart(t) = q * Period + params.open
<1>1. Period \in Nat /\ Period >= 1 /\ params.open \in Int
  BY PeriodAssumption DEF Params
<1>2. PICK q \in Int : t = q * Period + (t % Period)
  <2>1. t \in Int /\ Period \in Nat \ {0}
    BY PeriodAssumption
  <2> QED BY <2>1, DivMod
<1>3. t % Period \in Int
  BY <1>1, ModRange, PeriodAssumption
<1>4. MinuteBase(t) = q * Period
  BY <1>1, <1>2, <1>3 DEF MinuteBase
<1>5. WindowStart(t) \in {q * Period + params.open, (q * Period + params.open) - Period}
  BY <1>4 DEF WindowStart
<1>6. (q - 1) * Period + params.open = (q * Period + params.open) - Period
  BY <1>1
<1>7. CASE WindowStart(t) = q * Period + params.open
  BY <1>7
<1>8. CASE WindowStart(t) = (q * Period + params.open) - Period
  <2>1. q - 1 \in Int /\ WindowStart(t) = (q - 1) * Period + params.open
    BY <1>6, <1>8
  <2> QED BY <2>1
<1> QED BY <1>5, <1>7, <1>8

(* Windows do not move back.                                               *)
LEMMA WindowStartMonotone ==
  ASSUME NEW s \in Nat, NEW t \in Nat, s >= Period, s <= t, params \in Params
  PROVE  WindowStart(s) <= WindowStart(t)
<1>1. t >= Period /\ Period \in Nat /\ Period >= 1 /\ params.open \in Int
  BY PeriodAssumption DEF Params
<1>2. /\ WindowStart(s) \in Nat /\ WindowStart(t) \in Nat
      /\ WindowStart(s) <= s /\ t < WindowStart(t) + Period
  BY <1>1, WindowStartBounds
<1>3. PICK q \in Int : WindowStart(s) = q * Period + params.open
  BY WindowStartPhase
<1>4. PICK p \in Int : WindowStart(t) = p * Period + params.open
  BY <1>1, WindowStartPhase
<1>5. q * Period < p * Period + Period
  BY <1>1, <1>2, <1>3, <1>4
<1>6. q <= p
  <2> SUFFICES ASSUME p + 1 <= q PROVE FALSE
    OBVIOUS
  <2>1. (p + 1) * Period <= q * Period
    BY <1>1
  <2>2. (p + 1) * Period = p * Period + Period
    BY <1>1
  <2> QED BY <1>1, <1>5, <2>1, <2>2
<1>7. q * Period <= p * Period
  BY <1>1, <1>6
<1> QED BY <1>1, <1>3, <1>4, <1>7

(* The sendable interval is inside one real bucket (gate.rs:184-188): the  *)
(* real bucket of a sendable instant opens `Guard - skew` before the       *)
(* window, wherever in the guard the real boundary is.                     *)
LEMMA SendableInRealBucket ==
  ASSUME NEW t \in Nat, t >= Period, params \in Params,
         skew \in -Guard(params)..Guard(params), Sendable(t)
  PROVE  RealStart(t) = WindowStart(t) - Guard(params) + skew
<1> DEFINE g == Guard(params)
           e == params.open - g + skew
           b == e % Period
           m == t % Period
           w == WindowStart(t)
<1>1. Period \in Nat \ {0} /\ params.open \in Int /\ params.usable \in 1..Period
  BY PeriodAssumption DEF Params
<1>2. g \in Nat /\ params.usable + 2 * g <= Period
  BY <1>1 DEF Guard
<1>3. skew \in Int /\ -g <= skew /\ skew <= g /\ e \in Int
  BY <1>1, <1>2
<1>4. PICK a \in Int : e = a * Period + b
  BY <1>1, <1>3, DivMod
<1>5. b \in 0..(Period - 1) /\ m \in 0..(Period - 1)
  <2> HIDE DEF e
  <2>1. b \in 0..(Period - 1)
    BY <1>1, <1>3, ModRange
  <2>2. m \in 0..(Period - 1)
    BY <1>1, ModRange, SMTT(30)
  <2> QED BY <2>1, <2>2
<1>6. PICK k \in Int : t = k * Period + m
  <2>1. t \in Int
    OBVIOUS
  <2> QED BY <1>1, <2>1, DivMod
<1>7. RealStart(t) = IF (t - m) + b > t THEN ((t - m) + b) - Period ELSE (t - m) + b
  BY DEF RealStart, MinuteBase, Guard
<1>8. PICK q \in Int : w = q * Period + params.open
  BY WindowStartPhase
<1>9. w \in Nat /\ w <= t /\ t - w < params.usable
  BY WindowStartBounds DEF Sendable
<1> HIDE DEF g, e, b, m, w
<1>10. \E c \in Int : /\ RealStart(t) = c * Period + b
                      /\ RealStart(t) <= t /\ t < RealStart(t) + Period
  <2>1. CASE (t - m) + b > t
    <3>1. RealStart(t) = (k * Period + b) - Period
      BY <2>1, <1>1, <1>5, <1>6, <1>7
    <3>2. (k - 1) * Period + b = (k * Period + b) - Period
      BY <1>1, <1>5
    <3>3. RealStart(t) = (k - 1) * Period + b
      BY <3>1, <3>2
    <3>4. RealStart(t) <= t /\ t < RealStart(t) + Period
      BY <2>1, <1>1, <1>5, <1>7
    <3>5. k - 1 \in Int
      OBVIOUS
    <3> QED BY <3>3, <3>4, <3>5
  <2>2. CASE ~((t - m) + b > t)
    <3>1. RealStart(t) = k * Period + b
      BY <2>2, <1>1, <1>5, <1>6, <1>7
    <3>2. RealStart(t) <= t /\ t < RealStart(t) + Period
      BY <2>2, <1>1, <1>5, <1>7
    <3> QED BY <3>1, <3>2
  <2> QED BY <2>1, <2>2
<1>11. PICK c \in Int : /\ RealStart(t) = c * Period + b
                       /\ RealStart(t) <= t /\ t < RealStart(t) + Period
  BY <1>10
<1> DEFINE x == w - g + skew
<1>12. x = (q + a) * Period + b
  <2>1. x = q * Period + e
    BY <1>1, <1>2, <1>3, <1>8 DEF e
  <2>2. (q + a) * Period = q * Period + a * Period
    BY <1>1
  <2> QED BY <1>1, <1>4, <1>5, <2>1, <2>2
<1>13. x <= t /\ t < x + Period
  BY <1>1, <1>2, <1>3, <1>9
<1>14. c = q + a
  <2>1. q + a \in Int /\ b \in Int /\ t \in Int
    BY <1>5
  <2> HIDE DEF x
  <2> QED BY <1>1, <1>11, <1>12, <1>13, <2>1, OneBoundaryPerPeriod
<1> QED BY <1>11, <1>12, <1>14 DEF x, w, g

-----------------------------------------------------------------------------
(* The inductive invariant. Upstream's counter and the local one open at   *)
(* instants `Guard - skew` apart; as long as upstream's is not ahead, what *)
(* upstream has counted in a bucket the gate has counted too.              *)
LocalStart == meter.start + Guard(params) - skew

Aligned ==
  params.quota > 0 /\ meter.start # NoTime =>
    /\ meter.count <= params.quota
    /\ \E s \in Nat : s >= Period /\ s <= now /\ bucketStart = WindowStart(s)
    /\ LocalStart <= bucketStart
    /\ LocalStart = bucketStart => meter.count <= bucketUsed

QInv == /\ skew \in -Guard(params)..Guard(params)
        /\ meter.start = NoTime => meter.count = 0
        /\ Aligned

LEMMA QInvTypes ==
  ASSUME IInv
  PROVE  /\ now \in Nat /\ now >= Period /\ params \in Params
         /\ params.quota \in Int /\ Guard(params) \in Int /\ skew \in Int
         /\ bucketStart \in Nat /\ bucketUsed \in Nat
         /\ meter \in [start : Times, count : Nat]
         /\ WindowStart(now) \in Nat
<1>1. now \in Nat /\ now >= Period /\ params \in Params
  BY DEF IInv, TypeOK
<1>2. params.quota \in Int /\ Guard(params) \in Int
  BY <1>1, PeriodAssumption DEF Params, Guard
<1> QED BY <1>1, <1>2, WindowStartBounds DEF IInv, TypeOK

(* A window that rolls leaves behind only what upstream has rolled too.    *)
LEMMA RollQuota ==
  ASSUME IInv, QInv, RollBucket(0), UNCHANGED <<now, params, meter, skew>>
  PROVE  QInv'
<1>0. /\ now \in Nat /\ now >= Period /\ params \in Params
      /\ Guard(params) \in Int /\ skew \in Int
      /\ bucketStart \in Nat /\ bucketUsed \in Nat /\ WindowStart(now) \in Nat
      /\ meter \in [start : Times, count : Nat]
  BY QInvTypes
<1>1. bucketStart' = WindowStart(now) /\ bucketUsed' = Used
  BY <1>0 DEF RollBucket, Used
<1>2. ASSUME params.quota > 0, meter.start # NoTime
      PROVE  /\ meter.count <= params.quota
             /\ LocalStart <= WindowStart(now)
             /\ LocalStart = WindowStart(now) => meter.count <= Used
  <2>1. PICK s \in Nat : s >= Period /\ s <= now /\ bucketStart = WindowStart(s)
    BY <1>2 DEF QInv, Aligned
  <2>2. bucketStart <= WindowStart(now)
    BY <1>0, <2>1, WindowStartMonotone
  <2>3. LocalStart \in Int
    BY <1>0, <1>2 DEF LocalStart
  <2>4. /\ meter.count <= params.quota /\ LocalStart <= bucketStart
        /\ LocalStart = bucketStart => meter.count <= bucketUsed
    BY <1>2 DEF QInv, Aligned
  <2>5. LocalStart = WindowStart(now) => bucketStart = WindowStart(now)
    BY <1>0, <2>2, <2>3, <2>4
  <2> QED BY <1>0, <2>2, <2>3, <2>4, <2>5 DEF Used
<1>3. WindowStart(now)' = WindowStart(now) /\ LocalStart' = LocalStart
  BY DEF WindowStart, MinuteBase, LocalStart, Guard
<1>4. Aligned'
  <2> SUFFICES ASSUME params.quota > 0, meter.start # NoTime
               PROVE  /\ meter.count <= params.quota
                      /\ \E s \in Nat : s >= Period /\ s <= now
                                        /\ bucketStart' = WindowStart(s)'
                      /\ LocalStart' <= bucketStart'
                      /\ LocalStart' = bucketStart' => meter.count <= bucketUsed'
    BY DEF Aligned
  <2>1. bucketStart' = WindowStart(now)'
    BY <1>1, <1>3
  <2>2. \E s \in Nat : s >= Period /\ s <= now /\ bucketStart' = WindowStart(s)'
    <3>1. now <= now /\ now' = now
      BY <1>0
    <3> QED BY <1>0, <2>1, <3>1 DEF WindowStart, MinuteBase
  <2> QED BY <1>1, <1>2, <1>3, <2>2
<1> QED BY <1>4 DEF QInv, Guard

(* A paced send, a probe included, is counted on both sides.               *)
LEMMA SendQuota ==
  ASSUME IInv, QInv, params.quota > 0, Sendable(now), Used < params.quota,
         RollBucket(1), Receive, UNCHANGED <<now, params>>
  PROVE  QInv'
<1>0. /\ now \in Nat /\ now >= Period /\ params \in Params /\ params.quota \in Int
      /\ Guard(params) \in Int /\ skew \in Int
      /\ bucketStart \in Nat /\ bucketUsed \in Nat /\ WindowStart(now) \in Nat
      /\ meter \in [start : Times, count : Nat]
  BY QInvTypes
<1>1. skew' = skew
  BY DEF Receive
<1>2. RealStart(now) = WindowStart(now) - Guard(params) + skew
  BY <1>0, SendableInRealBucket DEF QInv
<1>3. RealStart(now) \in Nat
  BY <1>0, RealStartType
<1>4. WindowStart(now)' = WindowStart(now) /\ Guard(params)' = Guard(params)
  BY DEF WindowStart, MinuteBase, Guard
<1>5. Used \in Nat /\ bucketStart' = WindowStart(now) /\ bucketUsed' = Used + 1
  BY <1>0 DEF RollBucket, Used
<1>6. meter'.start = RealStart(now)
  BY <1>0 DEF Receive
<1>7. meter'.count \in Nat /\ meter'.count <= Used + 1
  <2>1. CASE meter.start = RealStart(now)
    <3>1. meter'.count = meter.count + 1
      BY <1>0, <2>1 DEF Receive
    <3>2. meter.start # NoTime
      BY <1>3, <2>1, NoTimeAssumption
    <3>3. LocalStart = WindowStart(now)
      BY <1>0, <1>2, <1>3, <2>1 DEF LocalStart
    <3>4. PICK s \in Nat : s >= Period /\ s <= now /\ bucketStart = WindowStart(s)
      BY <3>2 DEF QInv, Aligned
    <3>5. bucketStart <= WindowStart(now)
      BY <1>0, <3>4, WindowStartMonotone
    <3>6. LocalStart <= bucketStart
      BY <3>2 DEF QInv, Aligned
    <3>7. bucketStart = WindowStart(now)
      BY <1>0, <3>3, <3>5, <3>6
    <3>8. meter.count <= bucketUsed
      BY <3>2, <3>3, <3>7 DEF QInv, Aligned
    <3> QED BY <1>0, <3>1, <3>7, <3>8 DEF Used
  <2>2. CASE meter.start # RealStart(now)
    <3>1. meter'.count = 1
      BY <1>0, <2>2 DEF Receive
    <3> QED BY <1>5, <3>1
  <2> QED BY <2>1, <2>2
<1>8. LocalStart' = WindowStart(now)
  BY <1>0, <1>1, <1>2, <1>4, <1>6 DEF LocalStart
<1>9. Aligned'
  <2>1. \E s \in Nat : s >= Period /\ s <= now /\ bucketStart' = WindowStart(s)'
    <3>1. now <= now /\ now' = now
      BY <1>0
    <3> QED BY <1>0, <1>5, <3>1 DEF WindowStart, MinuteBase
  <2>2. meter'.count <= params.quota /\ meter'.count <= bucketUsed'
    BY <1>0, <1>5, <1>7
  <2>3. LocalStart' <= bucketStart'
    BY <1>0, <1>5, <1>8
  <2> QED BY <2>1, <2>2, <2>3 DEF Aligned
<1>10. meter'.start # NoTime
  BY <1>3, <1>6, NoTimeAssumption
<1> QED BY <1>1, <1>4, <1>9, <1>10 DEF QInv

THEOREM InitQuota == Init => QInv
<1> SUFFICES ASSUME Init PROVE QInv
  OBVIOUS
<1>1. meter = NoMeter /\ skew \in -Guard(params)..Guard(params)
  BY DEF Init
<1> QED BY <1>1 DEF QInv, Aligned, NoMeter

LEMMA UntouchedQuota ==
  ASSUME QInv, UNCHANGED <<now, params, bucketStart, bucketUsed, meter, skew>>
  PROVE  QInv'
BY DEF QInv, Aligned, LocalStart, Guard, WindowStart, MinuteBase

(* Nothing is promised while pacing is off. *)
LEMMA UnpacedQuota ==
  ASSUME QInv, Receive, params.quota <= 0, IInv, UNCHANGED params
  PROVE  QInv'
<1>1. params.quota \in Int
  BY QInvTypes
<1> QED BY <1>1 DEF QInv, Aligned, Receive, NoMeter, Guard

LEMMA WaitQuota ==
  ASSUME IInv, QInv, NEW r \in Requests, Wait(r)
  PROVE  QInv'
<1>0. params.quota \in Int
  BY QInvTypes
<1>1. CASE AdmitProbe(r)
  <2>0. /\ RollBucket(1) /\ Receive /\ UNCHANGED <<now, params>>
        /\ Sendable(now) /\ QuotaOpen
    BY <1>1 DEF AdmitProbe, LeavesFor
  <2>1. CASE params.quota <= 0
    BY <2>0, <2>1, UnpacedQuota
  <2>2. CASE params.quota > 0
    <3>1. Used < params.quota
      BY <1>0, <2>0, <2>2 DEF QuotaOpen
    <3> QED BY <2>0, <2>2, <3>1, SendQuota
  <2> QED BY <1>0, <2>1, <2>2
<1>2. CASE RejectLatched(r)
  BY <1>2, RollQuota DEF RejectLatched, LeavesFor
<1>3. CASE AdmitUnpaced(r)
  BY <1>3, UnpacedQuota DEF AdmitUnpaced, LeavesFor
<1>4. CASE AdmitPaced(r)
  BY <1>4, SendQuota DEF AdmitPaced, LeavesFor
<1>5. CASE RejectHold(r)
  BY <1>5, RollQuota DEF RejectHold, LeavesFor
<1>6. CASE SleepToWindow(r)
  BY <1>6, RollQuota DEF SleepToWindow
<1>7. CASE WaitCancelled(r)
  BY <1>7, UntouchedQuota DEF WaitCancelled
<1> QED BY <1>1, <1>2, <1>3, <1>4, <1>5, <1>6, <1>7 DEF Wait

LEMMA CallerQuota ==
  ASSUME IInv, QInv, NEW r \in Requests, Caller(r)
  PROVE  QInv'
<1>1. UNCHANGED <<now, params, bucketStart, bucketUsed, meter, skew>>
  BY DEF Caller, Cancel, DropWaiter, UpstreamAccepts, UpstreamRefuses, UpstreamEnds,
         NoteUpstreamError
<1> QED BY <1>1, UntouchedQuota

LEMMA SetParamsQuota ==
  ASSUME IInv, QInv, NEW c \in Configs, SetParams(c)
  PROVE  QInv'
<1> DEFINE p == Normalised(c)
<1>0. params' = p /\ UNCHANGED <<now, bucketStart, bucketUsed>>
  BY DEF SetParams
<1>1. CASE <<p.quota, p.open, p.usable>> = <<params.quota, params.open, params.usable>>
  <2>1. UNCHANGED <<meter, skew>>
    BY <1>1 DEF SetParams
  <2>2. /\ params'.quota = params.quota /\ params'.open = params.open
        /\ params'.usable = params.usable
    BY <1>0, <1>1
  <2>3. Guard(params)' = Guard(params) /\ LocalStart' = LocalStart
    BY <2>1, <2>2 DEF Guard, LocalStart
  <2>4. \A s : WindowStart(s)' = WindowStart(s)
    BY <2>2 DEF WindowStart, MinuteBase
  <2> QED BY <1>0, <2>1, <2>2, <2>3, <2>4 DEF QInv, Aligned
<1>2. CASE <<p.quota, p.open, p.usable>> # <<params.quota, params.open, params.usable>>
  <2>1. meter' = NoMeter /\ skew' \in -Guard(p)..Guard(p)
    BY <1>2 DEF SetParams
  <2> HIDE DEF p
  <2> QED BY <1>0, <2>1 DEF QInv, Aligned, NoMeter
<1> QED BY <1>1, <1>2

LEMMA RestartQuota ==
  ASSUME NEW c \in Configs, Restart(c)
  PROVE  QInv'
<1> DEFINE p == Normalised(c)
<1>1. params' = p /\ skew' \in -Guard(p)..Guard(p) /\ meter' = NoMeter
  BY DEF Restart, Fresh
<1> HIDE DEF p
<1> QED BY <1>1 DEF QInv, Aligned, NoMeter

THEOREM NextQuota == IInv /\ QInv /\ [Next]_vars => QInv'
<1> SUFFICES ASSUME IInv, QInv, [Next]_vars PROVE QInv'
  OBVIOUS
<1>1. CASE \E r \in Requests : Wait(r)
  BY <1>1, WaitQuota
<1>2. CASE \E r \in Requests : Caller(r)
  BY <1>2, CallerQuota
<1>3. CASE Stats
  BY <1>3, RollQuota DEF Stats
<1>4. CASE \E c \in Configs : SetParams(c)
  BY <1>4, SetParamsQuota
<1>5. CASE \E c \in Configs : Restart(c)
  BY <1>5, RestartQuota
<1>6. CASE Tick
  <2>1. now' = now + 1 /\ UNCHANGED <<params, bucketStart, bucketUsed, meter, skew>>
    BY <1>6 DEF Tick
  <2>2. \A s : WindowStart(s)' = WindowStart(s)
    BY <2>1 DEF WindowStart, MinuteBase
  <2>3. \A s \in Nat : s <= now => s <= now'
    BY <2>1, QInvTypes
  <2>4. Guard(params)' = Guard(params) /\ LocalStart' = LocalStart
    BY <2>1 DEF Guard, LocalStart
  <2> QED BY <2>1, <2>2, <2>3, <2>4 DEF QInv, Aligned
<1>7. CASE UNCHANGED vars
  BY <1>7, UntouchedQuota DEF vars
<1> QED BY <1>1, <1>2, <1>3, <1>4, <1>5, <1>6, <1>7 DEF Next, InProcess

(* Upstream never counts more sends in one of its own buckets than the     *)
(* configured quota, however many requests, probes, wake-ups, latches and  *)
(* cancellations interleave, for any boundary inside the guard.            *)
THEOREM QuotaHolds == Spec => []UpstreamQuota
<1>1. IInv /\ QInv => UpstreamQuota
  <2> SUFFICES ASSUME IInv, QInv, params.quota > 0 PROVE meter.count <= params.quota
    BY DEF UpstreamQuota
  <2> QED BY QInvTypes DEF QInv, Aligned
<1> QED BY <1>1, InitQuota, NextQuota, Invariance, PTL DEF Spec

-----------------------------------------------------------------------------
(* The deadline: what upstream declared is kept until it is over           *)

(* An instant that is a shortest drip interval after another.              *)
Spaced(from, at) ==
  \E c \in Configs : MinDrip(Normalised(c).drip) /\ at >= from + Normalised(c).drip

(* From when the next send under the deadline is spaced: the last one, or  *)
(* the reading of the refusal that started the drip anew.                  *)
Quiet ==
  IF embargo.sent = NoTime \/ embargo.overtaken \/ embargo.sent < embargo.told
  THEN embargo.told ELSE embargo.sent

(* The parameters in force are some configured ones, a refusal is noted    *)
(* after it was read, and the last send under a deadline is past.          *)
Sources ==
  /\ \E c \in Configs : params = Normalised(c)
  /\ \A r \in Requests : noted[r] # NoNote => noted[r].at <= now
  /\ embargo.until # NoTime =>
       /\ embargo.told # NoTime /\ embargo.told <= now
       /\ embargo.sent # NoTime => embargo.sent <= now

(* The latch in memory is the deadline upstream declared, and the next     *)
(* probe waits for the drip interval.                                      *)
Held ==
  ioFaults = 0 =>
    /\ limitedUntil # NoTime => embargo.until # NoTime /\ embargo.until >= limitedUntil
    /\ Embargoed => /\ limitedUntil # NoTime /\ limitedUntil >= embargo.until
                    /\ nextDrip # NoTime /\ Spaced(Quiet, nextDrip)

(* Every nonempty set of naturals has a least one.                         *)
LEMMA LeastNatural ==
  ASSUME NEW S \in SUBSET Nat, S # {}
  PROVE  \E x \in S : \A y \in S : x <= y
<1> DEFINE R == OpToRel(<, Nat)
<1>1. IsWellFoundedOn(R, Nat)
  BY NatLessThanWellFounded
<1> HIDE DEF R
<1>2. PICK x \in S : \A y \in S : ~ (<<y, x>> \in R)
  BY <1>1, WFMin, Zenon
<1>3. \A y \in S : x <= y
  <2> TAKE y \in S
  <2>1. x \in Nat /\ y \in Nat
    OBVIOUS
  <2>2. y < x => <<y, x>> \in R
    BY <2>1 DEF R, OpToRel
  <2> QED BY <1>2, <2>1, <2>2
<1> QED BY <1>3

LEMMA SomeDripIsShortest ==
  ASSUME Configs # {}
  PROVE  \E c \in Configs : MinDrip(Normalised(c).drip)
<1> DEFINE T == {Normalised(c).drip : c \in Configs}
<1>1. T \in SUBSET Nat /\ T # {}
  BY NormalisedType DEF Params
<1> HIDE DEF T
<1>2. PICK x \in T : \A y \in T : x <= y
  BY <1>1, LeastNatural
<1> QED BY <1>2 DEF T, MinDrip

LEMMA AnyDripSpaces ==
  ASSUME NEW from \in Nat, NEW at \in Nat, NEW d \in Configs,
         at >= from + Normalised(d).drip
  PROVE  Spaced(from, at)
<1>1. PICK c \in Configs : MinDrip(Normalised(c).drip)
  BY SomeDripIsShortest
<1>2. Normalised(c).drip \in Nat /\ Normalised(d).drip \in Nat
  BY NormalisedType DEF Params
<1>3. Normalised(c).drip <= Normalised(d).drip
  BY <1>1 DEF MinDrip
<1> QED BY <1>1, <1>2, <1>3 DEF Spaced

LEMMA SourcesInit == Init => Sources
BY DEF Init, Sources, NoEmbargo

(* A send under a deadline, and a refusal that sets one, start the drip.   *)
LEMMA QuietMoves ==
  ASSUME IInv, Sources
  PROVE  /\ embargo.until # NoTime =>
              /\ Quiet \in Nat /\ Quiet <= now /\ Quiet >= embargo.told
              /\ embargo.told \in Nat
              /\ embargo.sent # NoTime /\ ~embargo.overtaken =>
                   embargo.sent \in Nat /\ Quiet >= embargo.sent
         /\ Receive /\ Embargoed => Quiet' = now
         /\ \A until, at \in Nat : embargo' = Declared(until, at) => Quiet' = at
<1>1. now \in Nat /\ embargo \in Embargoes /\ NoTime \notin Int
  BY NoTimeAssumption DEF IInv, TypeOK
<1>2. embargo.until # NoTime =>
        /\ embargo.told \in Nat /\ embargo.told <= now
        /\ embargo.sent # NoTime => embargo.sent \in Nat /\ embargo.sent <= now
  BY <1>1 DEF Sources, Embargoes
<1>3. ASSUME Receive, Embargoed PROVE Quiet' = now
  <2>1. embargo' = [embargo EXCEPT !.sent = now, !.overtaken = FALSE]
    BY <1>3 DEF Receive
  <2>2. embargo'.sent = now /\ embargo'.overtaken = FALSE /\ embargo'.told = embargo.told
    BY <1>1, <2>1 DEF Embargoes
  <2>3. embargo.told \in Nat /\ embargo.told <= now /\ now # NoTime
    BY <1>1, <1>2, <1>3 DEF Embargoed
  <2> QED BY <1>1, <2>2, <2>3 DEF Quiet
<1>4. ASSUME NEW until \in Nat, NEW at \in Nat, embargo' = Declared(until, at)
      PROVE  Quiet' = at
  <2> DEFINE sent == IF Embargoed THEN embargo.sent ELSE NoTime
  <2>1. sent # NoTime => sent \in Nat
    BY <1>1, <1>2 DEF Embargoed
  <2>2. embargo'.told = at /\ embargo'.sent = sent
        /\ (embargo'.overtaken <=> sent # NoTime /\ at < sent)
    BY <1>4 DEF Declared
  <2> HIDE DEF sent
  <2> QED BY <2>1, <2>2 DEF Quiet
<1>5. embargo.until # NoTime =>
        /\ Quiet \in Nat /\ Quiet <= now /\ Quiet >= embargo.told
        /\ embargo.sent # NoTime /\ ~embargo.overtaken =>
             embargo.sent \in Nat /\ Quiet >= embargo.sent
  BY <1>1, <1>2 DEF Quiet
<1> QED BY <1>2, <1>3, <1>4, <1>5

LEMMA SourcesNext ==
  ASSUME IInv, Sources, [Next]_vars
  PROVE  Sources'
<1>1. now \in Nat /\ embargo \in Embargoes
      /\ noted \in [Requests -> Notes] /\ NoTime \notin Int
  BY NoTimeAssumption DEF IInv, TypeOK
<1> DEFINE Sends == embargo' = [embargo EXCEPT !.sent = now, !.overtaken = FALSE]
           Past == embargo.until # NoTime =>
                     /\ embargo.told # NoTime /\ embargo.told <= now
                     /\ embargo.sent # NoTime => embargo.sent <= now
<1>2. ASSUME embargo' = embargo \/ Sends, now' = now
      PROVE  Past'
  <2>1. CASE embargo' = embargo
    BY <1>2, <2>1 DEF Sources
  <2>2. CASE Sends
    <3>1. embargo'.until = embargo.until /\ embargo'.told = embargo.told /\ embargo'.sent = now
      BY <1>1, <2>2 DEF Embargoes
    <3> QED BY <1>1, <1>2, <3>1 DEF Sources
  <2> QED BY <1>2, <2>1, <2>2
<1>3. Receive => embargo' = embargo \/ Sends
  BY DEF Receive
<1>4. ASSUME NEW r \in Requests, Wait(r)
      PROVE  Sources'
  <2>1. now' = now /\ params' = params /\ noted' = noted
    BY <1>4 DEF Wait, AdmitProbe, RejectLatched, AdmitUnpaced, AdmitPaced, RejectHold,
                SleepToWindow, WaitCancelled, LeavesFor
  <2>2. embargo' = embargo \/ Sends
    BY <1>3, <1>4 DEF Wait, AdmitProbe, RejectLatched, AdmitUnpaced, AdmitPaced, RejectHold,
                      SleepToWindow, WaitCancelled
  <2> QED BY <1>2, <2>1, <2>2 DEF Sources
<1>5. ASSUME NEW r \in Requests, Caller(r)
      PROVE  Sources'
  <2>1. now' = now /\ params' = params
    BY <1>5 DEF Caller, Cancel, DropWaiter, UpstreamAccepts, UpstreamRefuses, UpstreamEnds,
                NoteUpstreamError
  <2>2. CASE UpstreamRefuses(r)
    <3>1. PICK hint \in Hints : noted' = [noted EXCEPT ![r] = [at |-> now, hint |-> hint]]
      BY <2>2 DEF UpstreamRefuses
    <3>2. embargo' = embargo
      BY <2>2 DEF UpstreamRefuses
    <3> QED BY <1>1, <2>1, <3>1, <3>2 DEF Sources
  <2>3. CASE NoteUpstreamError(r)
    <3>1. noted[r] \in [at : Nat, hint : Hints] /\ noted[r].at <= now
      BY <1>1, <2>3 DEF NoteUpstreamError, IInv, Notes, Sources
    <3>2. noted' = [noted EXCEPT ![r] = NoNote]
      BY <2>3 DEF NoteUpstreamError
    <3>3. \/ embargo' = embargo
          \/ \E until \in {Deadline(noted[r])} : embargo' = Declared(until, noted[r].at)
      BY <2>3 DEF NoteUpstreamError
    <3>4. noted[r].at # NoTime
      BY <1>1, <3>1
    <3>5. \A x \in Requests : noted'[x] # NoNote => noted'[x].at <= now
      BY <1>1, <3>2 DEF Sources
    <3>6. Past'
      <4>1. CASE embargo' = embargo
        BY <2>1, <4>1 DEF Sources
      <4>2. CASE \E until \in {Deadline(noted[r])} : embargo' = Declared(until, noted[r].at)
        <5>1. embargo'.told = noted[r].at /\ embargo'.sent \in {embargo.sent, NoTime}
              /\ (embargo'.sent # NoTime => Embargoed)
          BY <4>2 DEF Declared
        <5> QED BY <2>1, <3>1, <3>4, <5>1 DEF Sources, Embargoed
      <4> QED BY <3>3, <4>1, <4>2
    <3> QED BY <2>1, <3>5, <3>6 DEF Sources
  <2>4. CASE UpstreamAccepts(r)
    BY <2>1, <2>4 DEF UpstreamAccepts, NoEmbargo, Sources
  <2>5. CASE Cancel(r) \/ DropWaiter(r) \/ UpstreamEnds(r)
    BY <2>1, <2>5 DEF Cancel, DropWaiter, UpstreamEnds, Sources
  <2> QED BY <1>5, <2>2, <2>3, <2>4, <2>5 DEF Caller
<1>6. ASSUME NEW c \in Configs, SetParams(c) \/ Restart(c)
      PROVE  Sources'
  <2>1. params' = Normalised(c) /\ embargo' = embargo /\ now' = now
    BY <1>6 DEF SetParams, Restart
  <2>2. noted' = noted \/ noted' = [r \in Requests |-> NoNote]
    BY <1>6 DEF SetParams, Restart, Fresh
  <2> QED BY <2>1, <2>2 DEF Sources
<1>7. CASE Tick
  <2>1. embargo' = embargo /\ now' = now + 1 /\ noted' = noted /\ params' = params
    BY <1>7 DEF Tick, gateVars, requestVars, upstreamVars
  <2>2. \A r \in Requests : noted'[r] # NoNote => noted'[r].at <= now'
    BY <1>1, <2>1 DEF Sources, Notes
  <2>3. Past'
    BY <1>1, <2>1 DEF Sources, Embargoes
  <2> QED BY <2>1, <2>2, <2>3 DEF Sources
<1>8. CASE Stats \/ UNCHANGED vars
  BY <1>8 DEF Stats, vars, Sources
<1> QED BY <1>4, <1>5, <1>6, <1>7, <1>8 DEF Next, InProcess

(* Under a deadline that is held the gate is latched: no other branch of   *)
(* `wait` sends.                                                           *)
LEMMA HeldLatches ==
  ASSUME IInv, Held, ioFaults = 0
  PROVE  /\ Embargoed => Latched
         /\ ~Latched => ~Embargoed
         /\ Latched => Embargoed
<1>1. /\ now \in Nat /\ embargo \in Embargoes
      /\ limitedUntil \in Times /\ NoTime \notin Int
  BY NoTimeAssumption DEF IInv, TypeOK
<1> QED BY <1>1 DEF Held, Embargoed, Latched, Embargoes

(* A step that sends nothing and settles the latch at most.                *)
LEMMA HeldSettles ==
  ASSUME IInv, Held, ExpireIfDue, embargo' = embargo, now' = now
  PROVE  Held'
<1> SUFFICES ASSUME ioFaults' = 0 PROVE Held'
  BY DEF Held
<1>1. ioFaults = 0
  BY DEF IInv, TypeOK, ExpireIfDue, ClearState, IoFault
<1>2. CASE Due
  <2>1. ~Latched /\ limitedUntil' = NoTime
    BY <1>2 DEF ExpireIfDue, Due, Latched, IInv, TypeOK
  <2>2. ~Embargoed'
    BY <1>1, <2>1, HeldLatches DEF Embargoed
  <2> QED BY <2>1, <2>2 DEF Held
<1>3. CASE ~Due
  BY <1>1, <1>3 DEF ExpireIfDue, Held, Embargoed, Spaced, MinDrip, Quiet
<1> QED BY <1>2, <1>3

LEMMA HeldKept ==
  ASSUME Held, UNCHANGED <<limitedUntil, nextDrip, ioFaults, embargo, now>>
  PROVE  Held'
BY DEF Held, Embargoed, Spaced, MinDrip, Quiet

LEMMA HeldOfWait ==
  ASSUME IInv, Sources, Held, NEW r \in Requests, Wait(r)
  PROVE  Held'
<1>1. /\ now \in Nat /\ embargo \in Embargoes
      /\ limitedUntil \in Times /\ NoTime \notin Int
  BY NoTimeAssumption DEF IInv, TypeOK
<1>2. CASE AdmitProbe(r)
  <2>1. /\ nextDrip' = now + params.drip /\ UNCHANGED <<limitedUntil, ioFaults, now>>
        /\ Receive
    BY <1>2 DEF AdmitProbe, LeavesFor
  <2>2. embargo'.until = embargo.until /\ (Embargoed => Quiet' = now)
    <3>1. embargo'.until = embargo.until
      BY <1>1, <2>1 DEF Receive, Embargoes
    <3> QED BY <2>1, <3>1, QuietMoves
  <2>3. PICK c \in Configs : params = Normalised(c)
    BY DEF Sources
  <2>4. params.drip \in Nat
    BY DEF IInv, TypeOK, Params
  <2>5. now + params.drip \in Nat /\ now + params.drip # NoTime
    BY <1>1, <2>4
  <2>6. Spaced(now, now + params.drip)
    BY <1>1, <2>3, <2>4, <2>5, AnyDripSpaces
  <2>7. Embargoed => Spaced(Quiet', nextDrip')
    BY <2>1, <2>2, <2>6
  <2>8. Embargoed' = Embargoed
    BY <2>1, <2>2 DEF Embargoed
  <2>9. Embargoed => Spaced(Quiet, nextDrip)'
    BY <2>7 DEF Spaced, MinDrip
  <2> QED BY <2>1, <2>2, <2>5, <2>8, <2>9 DEF Held
<1>3. CASE AdmitUnpaced(r) \/ AdmitPaced(r)
  <2>1. ~Latched /\ ExpireIfDue /\ Receive /\ now' = now
    BY <1>3 DEF AdmitUnpaced, AdmitPaced, LeavesFor
  <2>2. CASE ioFaults = 0
    <3>1. ~Embargoed
      BY <2>1, <2>2, HeldLatches
    <3>2. embargo' = embargo
      BY <2>1, <3>1 DEF Receive
    <3> QED BY <2>1, <3>2, HeldSettles
  <2>3. CASE ioFaults # 0
    BY <2>1, <2>3 DEF ExpireIfDue, ClearState, IoFault, Held, IInv, TypeOK
  <2> QED BY <2>2, <2>3
<1>4. CASE RejectHold(r) \/ SleepToWindow(r)
  <2>1. ExpireIfDue /\ embargo' = embargo /\ now' = now
    BY <1>4 DEF RejectHold, SleepToWindow, LeavesFor
  <2> QED BY <2>1, HeldSettles
<1>5. CASE RejectLatched(r) \/ WaitCancelled(r)
  BY <1>5, HeldKept DEF RejectLatched, WaitCancelled, LeavesFor
<1> QED BY <1>2, <1>3, <1>4, <1>5 DEF Wait

LEMMA HeldOfCaller ==
  ASSUME IInv, Sources, Held, NEW r \in Requests, Caller(r)
  PROVE  Held'
<1>1. /\ now \in Nat /\ embargo \in Embargoes
      /\ limitedUntil \in Times /\ nextDrip \in Times /\ NoTime \notin Int
      /\ ioFaults \in Nat /\ params \in Params
      /\ noted \in [Requests -> Notes]
  BY NoTimeAssumption DEF IInv, TypeOK
<1>2. CASE Cancel(r) \/ DropWaiter(r) \/ UpstreamRefuses(r) \/ UpstreamEnds(r)
  BY <1>2, HeldKept DEF Cancel, DropWaiter, UpstreamRefuses, UpstreamEnds
<1>3. CASE UpstreamAccepts(r)
  <2>1. embargo' = NoEmbargo /\ limitedUntil' = NoTime
    BY <1>3 DEF UpstreamAccepts
  <2> QED BY <2>1 DEF Held, Embargoed, NoEmbargo
<1>4. CASE NoteUpstreamError(r)
  <2> DEFINE until == Deadline(noted[r])
             at == noted[r].at
  <2>1. at \in Nat /\ until \in Nat /\ until # NoTime /\ now' = now
    <3>1. noted[r] \in [at : Nat, hint : Hints]
      BY <1>1, <1>4 DEF NoteUpstreamError, IInv, Notes
    <3>2. PICK a \in Nat, h \in Hints : noted[r] = [at |-> a, hint |-> h]
      BY <3>1
    <3> QED BY <1>1, <1>4, <3>1, <3>2, DeadlineType DEF NoteUpstreamError
  <2>2. /\ IF Extends(until)
           THEN /\ limitedUntil' = until /\ nextDrip' = at + params.drip
                /\ PersistState(until)
           ELSE UNCHANGED <<limitedUntil, nextDrip, file, ioFaults>>
        /\ embargo' = IF embargo.until = NoTime \/ until > embargo.until
                      THEN Declared(until, at) ELSE embargo
    BY <1>4 DEF NoteUpstreamError
  <2> HIDE DEF until, at
  <2> SUFFICES ASSUME ioFaults' = 0 PROVE Held'
    BY DEF Held
  <2>3. ioFaults = 0
    BY <1>1, <2>2 DEF PersistState, IoFault
  <2>4. CASE Extends(until)
    <3>1. limitedUntil' = until /\ nextDrip' = at + params.drip
      BY <2>2, <2>4
    <3>2. params.drip \in Nat
      BY <1>1 DEF Params
    <3>3. Spaced(at, nextDrip')
      <4>1. PICK c \in Configs : params = Normalised(c)
        BY DEF Sources
      <4> QED BY <2>1, <3>1, <3>2, <4>1, AnyDripSpaces
    <3>4. CASE embargo.until = NoTime \/ until > embargo.until
      <4>1. embargo'.until = until /\ Quiet' = at
        BY <2>1, <2>2, <3>4, QuietMoves DEF Declared
      <4>2. Spaced(Quiet, nextDrip)'
        BY <3>3, <4>1 DEF Spaced, MinDrip
      <4> QED BY <1>1, <2>1, <3>1, <3>2, <4>1, <4>2 DEF Held
    <3>5. CASE embargo.until # NoTime /\ ~(until > embargo.until)
      <4>1. embargo' = embargo
        BY <2>2, <3>5
      <4>2. embargo.until \in Nat /\ embargo.until >= until
        BY <1>1, <2>1, <3>5 DEF Embargoes
      <4>3. ~Embargoed
        <5> SUFFICES ASSUME Embargoed PROVE FALSE
          OBVIOUS
        <5>1. limitedUntil # NoTime /\ limitedUntil >= embargo.until
          BY <2>3 DEF Held
        <5>2. until > limitedUntil
          BY <2>4, <5>1 DEF Extends
        <5> QED BY <1>1, <2>1, <4>2, <5>1, <5>2
      <4>4. ~Embargoed'
        BY <2>1, <4>1, <4>3 DEF Embargoed
      <4> QED BY <3>1, <3>5, <4>1, <4>2, <4>4 DEF Held
    <3> QED BY <3>4, <3>5
  <2>5. CASE ~Extends(until)
    <3>1. UNCHANGED <<limitedUntil, nextDrip, ioFaults>>
      BY <2>2, <2>5
    <3>2. limitedUntil # NoTime /\ ~(until > limitedUntil)
      BY <2>5 DEF Extends
    <3>3. embargo.until # NoTime /\ embargo.until >= limitedUntil
      BY <2>3, <3>2 DEF Held
    <3>4. embargo' = embargo
      BY <1>1, <2>1, <2>2, <3>2, <3>3 DEF Embargoes
    <3> QED BY <2>1, <3>1, <3>4, HeldKept
  <2> QED BY <2>4, <2>5
<1> QED BY <1>2, <1>3, <1>4 DEF Caller

LEMMA HeldOfRestart ==
  ASSUME IInv, FileMirrorsLatch, Sources, Held, NEW c \in Configs, Restart(c)
  PROVE  Held'
<1> SUFFICES ASSUME ioFaults' = 0 PROVE Held'
  BY DEF Held
<1>1. /\ now \in Nat /\ embargo \in Embargoes
      /\ limitedUntil \in Times /\ NoTime \notin Int /\ ioFaults \in Nat
  BY NoTimeAssumption DEF IInv, TypeOK
<1>2. now' = now /\ embargo' = embargo
  BY DEF Restart
<1>3. ioFaults = 0
  BY <1>1 DEF Restart, ClearState, IoFault
<1>4. file = limitedUntil
  BY <1>3 DEF FileMirrorsLatch
<1>5. CASE file # NoTime /\ file > now
  <2>1. limitedUntil' = file /\ nextDrip' = now + Normalised(c).drip
    BY <1>5 DEF Restart
  <2>2. Normalised(c).drip \in Nat
    BY NormalisedType DEF Params
  <2>3. ASSUME embargo.until # NoTime
        PROVE  Spaced(Quiet, nextDrip')
    <3>1. Quiet \in Nat /\ Quiet <= now
      BY <2>3, QuietMoves
    <3> QED BY <1>1, <2>1, <2>2, <3>1, AnyDripSpaces
  <2>4. embargo.until # NoTime => Spaced(Quiet, nextDrip)'
    BY <1>2, <2>3 DEF Spaced, MinDrip, Quiet
  <2>5. nextDrip' # NoTime
    BY <1>1, <2>1, <2>2
  <2>6. Embargoed' = Embargoed
    BY <1>2 DEF Embargoed
  <2> QED BY <1>2, <1>3, <1>4, <2>1, <2>4, <2>5, <2>6 DEF Held, Embargoed
<1>6. CASE ~(file # NoTime /\ file > now)
  <2>1. limitedUntil' = NoTime
    BY <1>6 DEF Restart
  <2>2. ~Embargoed
    BY <1>1, <1>3, <1>4, <1>6, HeldLatches DEF Latched
  <2>3. ~Embargoed'
    BY <1>2, <2>2 DEF Embargoed
  <2> QED BY <2>1, <2>3 DEF Held
<1> QED BY <1>5, <1>6

LEMMA HeldNext ==
  ASSUME IInv, FileMirrorsLatch, Sources, Held, [Next]_vars
  PROVE  Held'
<1>1. CASE Stats
  BY <1>1, HeldSettles DEF Stats
<1>2. CASE (\E c \in Configs : SetParams(c)) \/ UNCHANGED vars
  BY <1>2, HeldKept DEF SetParams, vars
<1>3. CASE Tick
  <2>1. UNCHANGED <<limitedUntil, nextDrip, ioFaults, embargo>> /\ now' = now + 1
    BY <1>3 DEF Tick
  <2>2. /\ now \in Nat /\ embargo \in Embargoes /\ NoTime \notin Int
    BY NoTimeAssumption DEF IInv, TypeOK
  <2>3. Embargoed' => Embargoed
    BY <2>1, <2>2 DEF Embargoed, Embargoes
  <2> QED BY <2>1, <2>3 DEF Held, Spaced, MinDrip, Quiet
<1> QED BY <1>1, <1>2, <1>3, HeldOfWait, HeldOfCaller, HeldOfRestart DEF Next, InProcess

LEMMA HeldInit == Init => Held
BY DEF Init, Held, Embargoed, NoEmbargo

LEMMA HeldSpaces ==
  ASSUME IInv, Sources, Held, [Next]_vars, NEW r \in Requests,
         Admits(r), Embargoed, ioFaults = 0
  PROVE  \E c \in Configs : /\ MinDrip(Normalised(c).drip)
                            /\ now >= embargo.told + Normalised(c).drip
                            /\ embargo.sent # NoTime /\ ~embargo.overtaken
                                 => now >= embargo.sent + Normalised(c).drip
<1>1. /\ now \in Nat /\ embargo \in Embargoes
      /\ phase \in [Requests -> Phases] /\ NoTime \notin Int /\ nextDrip \in Times
  BY NoTimeAssumption DEF IInv, TypeOK
<1>2. phase[r] \in {"idle", "sleeping"} /\ phase'[r] = "sent"
  BY DEF Admits
<1>3. Latched
  BY HeldLatches
<1>4. \E x \in Requests : AdmitProbe(x)
  <2>1. ASSUME NEW x \in Requests, Wait(x)
        PROVE  AdmitProbe(x)
    BY <1>1, <1>2, <1>3, <2>1 DEF Wait, RejectLatched, AdmitUnpaced, AdmitPaced, RejectHold,
                                  SleepToWindow, WaitCancelled, LeavesFor
  <2>2. ASSUME NEW x \in Requests, Caller(x)
        PROVE  FALSE
    BY <1>1, <1>2, <2>2 DEF Caller, Cancel, DropWaiter, UpstreamAccepts, UpstreamRefuses,
                            UpstreamEnds, NoteUpstreamError
  <2>3. ~Stats /\ ~Tick /\ ~(UNCHANGED vars)
    BY <1>2 DEF Stats, Tick, vars
  <2>4. ASSUME NEW c \in Configs, SetParams(c) \/ Restart(c)
        PROVE  FALSE
    BY <1>2, <2>4 DEF SetParams, Restart, Fresh
  <2> QED BY <2>1, <2>2, <2>3, <2>4 DEF Next, InProcess
<1>5. nextDrip # NoTime /\ now >= nextDrip /\ Spaced(Quiet, nextDrip)
  BY <1>4 DEF AdmitProbe, DripOpen, Held
<1>6. PICK c \in Configs : /\ MinDrip(Normalised(c).drip)
                           /\ nextDrip >= Quiet + Normalised(c).drip
  BY <1>5 DEF Spaced
<1>7. /\ Quiet \in Nat /\ embargo.told \in Nat /\ Quiet >= embargo.told
      /\ embargo.sent # NoTime /\ ~embargo.overtaken =>
           embargo.sent \in Nat /\ Quiet >= embargo.sent
  BY QuietMoves DEF Embargoed
<1>8. Normalised(c).drip \in Nat
  BY NormalisedType DEF Params
<1> QED BY <1>1, <1>5, <1>6, <1>7, <1>8

LEMMA LatchExtends ==
  ASSUME IInv, FileMirrorsLatch, [Next]_vars, Latched, ioFaults' = 0
  PROVE  \/ limitedUntil' # NoTime /\ limitedUntil' >= limitedUntil
         \/ \E r \in Requests : phase[r] = "sent" /\ phase'[r] = "streaming"
<1>1. /\ now \in Nat /\ limitedUntil \in Nat /\ limitedUntil > now /\ NoTime \notin Int
      /\ phase \in [Requests -> Phases] /\ ioFaults \in Nat
  BY NoTimeAssumption DEF IInv, TypeOK, Latched
<1>2. ~Due
  BY <1>1 DEF Due
<1>3. ExpireIfDue => limitedUntil' = limitedUntil
  BY <1>2 DEF ExpireIfDue
<1>4. ASSUME NEW r \in Requests, Wait(r)
      PROVE  limitedUntil' = limitedUntil
  BY <1>3, <1>4 DEF Wait, AdmitProbe, RejectLatched, AdmitUnpaced, AdmitPaced, RejectHold,
                    SleepToWindow, WaitCancelled
<1>5. ASSUME NEW r \in Requests, Caller(r)
      PROVE  \/ limitedUntil' # NoTime /\ limitedUntil' >= limitedUntil
             \/ phase[r] = "sent" /\ phase'[r] = "streaming"
  <2>1. CASE UpstreamAccepts(r)
    BY <1>1, <2>1 DEF UpstreamAccepts
  <2>2. CASE NoteUpstreamError(r)
    <3>1. limitedUntil' = limitedUntil \/ limitedUntil' > limitedUntil
      BY <1>1, <2>2 DEF NoteUpstreamError, Extends
    <3>2. limitedUntil' \in Times
      BY NextTypes DEF IInv, TypeOK
    <3>3. limitedUntil' # NoTime
      <4> DEFINE until == Deadline(noted[r])
      <4>1. PICK a \in Nat, h \in Hints : noted[r] = [at |-> a, hint |-> h]
        BY <2>2 DEF NoteUpstreamError, IInv, TypeOK, Notes
      <4>2. until \in Nat
        BY <4>1, DeadlineType DEF IInv, TypeOK
      <4>3. limitedUntil' \in {until, limitedUntil}
        BY <2>2 DEF NoteUpstreamError
      <4> HIDE DEF until
      <4> QED BY <1>1, <4>2, <4>3
    <3> QED BY <1>1, <3>1, <3>2, <3>3
  <2>3. CASE Cancel(r) \/ DropWaiter(r) \/ UpstreamRefuses(r) \/ UpstreamEnds(r)
    BY <1>1, <2>3 DEF Cancel, DropWaiter, UpstreamRefuses, UpstreamEnds
  <2> QED BY <1>5, <2>1, <2>2, <2>3 DEF Caller
<1>6. ASSUME NEW c \in Configs, Restart(c)
      PROVE  limitedUntil' = limitedUntil
  <2>1. ioFaults = 0
    BY <1>1, <1>6 DEF Restart, ClearState, IoFault
  <2>2. file = limitedUntil
    BY <2>1 DEF FileMirrorsLatch
  <2> QED BY <1>1, <1>6, <2>2 DEF Restart
<1>7. CASE Stats \/ (\E c \in Configs : SetParams(c)) \/ Tick \/ UNCHANGED vars
  <2>1. limitedUntil' = limitedUntil
    BY <1>3, <1>7 DEF Stats, SetParams, Tick, vars
  <2> QED BY <1>1, <2>1
<1> QED BY <1>1, <1>4, <1>5, <1>6, <1>7 DEF Next, InProcess

(* gate.rs:466-480, 503-545: what upstream has declared is kept to by      *)
(* every number of requests, through every crash and reload: the deadline  *)
(* only extends, and the sends made before it is over are probes, each a   *)
(* shortest drip after the refusal was read and after the one before,      *)
(* unless an older refusal noted since has started the drip anew.          *)
THEOREM DeadlineHolds == Spec => DeadlineIsKept
<1> DEFINE DInv == IInv /\ FileMirrorsLatch /\ Sources /\ Held
           SpacedStep == \A r \in Requests :
             Admits(r) /\ Embargoed /\ ioFaults = 0
               => \E c \in Configs :
                    /\ MinDrip(Normalised(c).drip)
                    /\ now >= embargo.told + Normalised(c).drip
                    /\ embargo.sent # NoTime /\ ~embargo.overtaken
                         => now >= embargo.sent + Normalised(c).drip
           ExtendStep == Latched /\ ioFaults' = 0
             => \/ limitedUntil' # NoTime /\ limitedUntil' >= limitedUntil
                \/ \E r \in Requests : phase[r] = "sent" /\ phase'[r] = "streaming"
<1>1. Init => Sources /\ Held
  BY SourcesInit, HeldInit
<1>2. DInv /\ [Next]_vars => (Sources /\ Held)'
  BY SourcesNext, HeldNext
<1>3. DInv /\ [Next]_vars => SpacedStep
  BY HeldSpaces
<1>4. DInv /\ [Next]_vars => ExtendStep
  BY LatchExtends
<1>5. Spec => [][SpacedStep]_vars /\ [][ExtendStep]_vars
  <2> HIDE DEF SpacedStep, ExtendStep
  <2> QED BY <1>1, <1>2, <1>3, <1>4, Invariance, FileIsLatch, PTL DEF Spec
<1> QED BY <1>5 DEF DeadlineIsKept, ProbesAreSpaced, LatchOnlyExtends

-----------------------------------------------------------------------------
(* The timeline: what the panel rebuilds from the ring                     *)

(* A replay of the first m transitions of a ring. The induction on m is by *)
(* the least m without one.                                                *)
Blank == [open |-> NoRange, ranges |-> <<>>]

IsReplay(g, ring, m) ==
  g = [n \in 0..m |-> IF n = 0 THEN Blank ELSE Replay(g[n - 1], ring[n])]

LEMMA ReplayExists ==
  ASSUME NEW ring
  PROVE  \A m \in Nat : \E g : IsReplay(g, ring, m)
<1> DEFINE Without == {m \in Nat : ~ \E g : IsReplay(g, ring, m)}
<1> SUFFICES ASSUME Without # {} PROVE FALSE
  OBVIOUS
<1>1. PICK m \in Without : \A k \in Without : m <= k
  BY LeastNatural
<1>2. m \in Nat /\ ~ \E g : IsReplay(g, ring, m)
  OBVIOUS
<1>3. m # 0
  <2>1. IsReplay([n \in 0..0 |-> Blank], ring, 0)
    <3>1. \A n \in 0..0 : n = 0
      OBVIOUS
    <3> QED BY <3>1 DEF IsReplay
  <2> QED BY <1>2, <2>1
<1>4. m - 1 \in Nat /\ ~ (m <= m - 1)
  BY <1>2, <1>3
<1>5. PICK g : IsReplay(g, ring, m - 1)
  BY <1>1, <1>4
<1> DEFINE step == Replay(g[m - 1], ring[m])
           h == [n \in 0..m |-> IF n = m THEN step ELSE g[n]]
<1>6. ASSUME NEW n \in 0..m
      PROVE  h[n] = IF n = 0 THEN Blank ELSE Replay(h[n - 1], ring[n])
  <2>1. g = [k \in 0..(m - 1) |-> IF k = 0 THEN Blank ELSE Replay(g[k - 1], ring[k])]
    BY <1>5 DEF IsReplay
  <2>2. CASE n = m
    <3>1. h[n] = step
      BY <2>2
    <3>2. m - 1 \in 0..m /\ m - 1 # m
      BY <1>4
    <3>3. h[m - 1] = g[m - 1]
      BY <3>2
    <3> QED BY <3>1, <3>3, <2>2, <1>3
  <2>3. CASE n # m
    <3>1. n \in 0..(m - 1)
      BY <2>3, <1>2
    <3>2. h[n] = g[n]
      BY <2>3
    <3>3. g[n] = IF n = 0 THEN Blank ELSE Replay(g[n - 1], ring[n])
      <4> HIDE DEF Blank
      <4> QED BY <2>1, <3>1, Zenon
    <3>4. CASE n = 0
      BY <3>2, <3>3, <3>4
    <3>5. CASE n # 0
      <4>1. n - 1 \in 0..m /\ n - 1 # m
        BY <3>1, <3>5, <1>2
      <4>2. h[n - 1] = g[n - 1]
        BY <4>1
      <4> QED BY <3>2, <3>3, <4>2, <3>5
    <3> QED BY <3>4, <3>5
  <2> QED BY <2>2, <2>3
<1>7. h = [n \in 0..m |-> IF n = 0 THEN Blank ELSE Replay(h[n - 1], ring[n])]
  <2> HIDE DEF Blank, step
  <2>1. h = [n \in 0..m |-> h[n]]
    OBVIOUS
  <2> HIDE DEF h
  <2> QED BY <2>1, <1>6
<1> HIDE DEF h
<1> QED BY <1>2, <1>7 DEF IsReplay

LEMMA ReplayedIsReplay ==
  ASSUME NEW ring, Len(ring) \in Nat
  PROVE  IsReplay(Replayed(ring), ring, Len(ring))
<1>1. Replayed(ring) = CHOOSE g : IsReplay(g, ring, Len(ring))
  BY DEF Replayed, IsReplay, Blank
<1>2. \E g : IsReplay(g, ring, Len(ring))
  BY ReplayExists
<1> QED BY <1>1, <1>2, Zenon

LEMMA ReplayedSteps ==
  ASSUME NEW ring, Len(ring) \in Nat
  PROVE  /\ Replayed(ring)[0] = Blank
         /\ \A n \in 1..Len(ring) :
              Replayed(ring)[n] = Replay(Replayed(ring)[n - 1], ring[n])
<1> DEFINE g == Replayed(ring)
<1>1. g = [n \in 0..Len(ring) |-> IF n = 0 THEN Blank ELSE Replay(g[n - 1], ring[n])]
  BY ReplayedIsReplay DEF IsReplay
<1> HIDE DEF g
<1>2. \A n \in 0..Len(ring) : g[n] = IF n = 0 THEN Blank ELSE Replay(g[n - 1], ring[n])
  BY <1>1, Zenon
<1>3. 0 \in 0..Len(ring) /\ \A n \in 1..Len(ring) : n \in 0..Len(ring) /\ n # 0
  OBVIOUS
<1>4. g[0] = Blank /\ \A n \in 1..Len(ring) : g[n] = Replay(g[n - 1], ring[n])
  BY <1>2, <1>3
<1> QED BY <1>4 DEF g

-----------------------------------------------------------------------------
(* One transition of the replay *)

Opens(e) == e.kind \in {"latched", "restored"}

(* What two consecutive transitions of the ring have to do with each other.*)
Follows(d, e) ==
  /\ d.at <= e.at
  /\ e.kind = "expired" => Opens(d) /\ d.until = e.until /\ e.until <= e.at
  /\ Opens(d) /\ Opens(e) => d.until < e.until

LatchRange == [start : Times, end : Times]
Replays == [open : LatchRange, ranges : Seq(LatchRange)]

Ordered(ranges) ==
  \A k \in 1..Len(ranges) : k + 1 \in 1..Len(ranges) => ranges[k].end <= ranges[k + 1].start

(* The ranges closed by `at`: in order, each with both of its edges.       *)
ClosedBy(ranges, at) ==
  /\ ranges \in Seq(LatchRange)
  /\ \A k \in 1..Len(ranges) :
       ranges[k].start \in Nat /\ ranges[k].end \in Nat /\ ranges[k].end <= at
  /\ Ordered(ranges)

(* A replay that has just seen e: the range in progress begins after the   *)
(* closed ones and ends with the last opening.                             *)
Current(acc, e) ==
  /\ acc \in Replays
  /\ ClosedBy(acc.ranges, e.at)
  /\ acc.open # NoRange =>
       /\ acc.open.start \in Nat /\ acc.open.end \in Nat
       /\ acc.open.start <= e.at
       /\ \A k \in 1..Len(acc.ranges) : acc.ranges[k].end <= acc.open.start
  /\ IF Opens(e) THEN acc.open # NoRange /\ acc.open.end = e.until
     ELSE acc.open = NoRange

(* ss is rs and one more range. *)
Longer(rs, ss, start, end) ==
  /\ ss \in Seq(LatchRange) /\ Len(ss) = Len(rs) + 1
  /\ \A k \in 1..Len(rs) : ss[k] = rs[k]
  /\ ss[Len(rs) + 1].start = start /\ ss[Len(rs) + 1].end = end

LEMMA CloseAppends ==
  ASSUME NEW acc \in Replays, acc.open # NoRange, NEW end \in Nat
  PROVE  /\ Close(acc, end) \in Replays
         /\ Close(acc, end).open = NoRange
         /\ Longer(acc.ranges, Close(acc, end).ranges, acc.open.start, end)
<1> DEFINE r == [acc.open EXCEPT !.end = end]
<1>1. acc.open \in LatchRange /\ acc.ranges \in Seq(LatchRange)
  BY DEF Replays
<1>2. r \in LatchRange /\ r.start = acc.open.start /\ r.end = end
  BY <1>1 DEF LatchRange
<1> HIDE DEF r
<1>3. Close(acc, end) = [open |-> NoRange, ranges |-> Append(acc.ranges, r)]
  BY DEF Close, r
<1>4. NoRange \in LatchRange
  BY DEF NoRange, LatchRange
<1>5. Longer(acc.ranges, Append(acc.ranges, r), acc.open.start, end)
  BY <1>1, <1>2 DEF Longer
<1>6. Append(acc.ranges, r) \in Seq(LatchRange)
  BY <1>1, <1>2
<1> QED BY <1>3, <1>4, <1>5, <1>6 DEF Replays

LEMMA LongerClosed ==
  ASSUME NEW rs, NEW ss, NEW start \in Nat, NEW end \in Nat, NEW at \in Nat, NEW b \in Nat,
         ClosedBy(rs, b), b <= at, end <= at, Longer(rs, ss, start, end),
         \A k \in 1..Len(rs) : rs[k].end <= start
  PROVE  ClosedBy(ss, at)
<1>1. rs \in Seq(LatchRange) /\ ss \in Seq(LatchRange) /\ Len(rs) \in Nat /\ Len(ss) = Len(rs) + 1
  BY DEF ClosedBy, Longer
<1>2. ASSUME NEW k \in 1..Len(ss)
      PROVE  ss[k].start \in Nat /\ ss[k].end \in Nat /\ ss[k].end <= at
  <2>1. k \in 1..Len(rs) \/ k = Len(rs) + 1
    BY <1>1
  <2> QED BY <2>1, <1>1 DEF ClosedBy, Longer
<1>3. ASSUME NEW k \in 1..Len(ss), k + 1 \in 1..Len(ss)
      PROVE  ss[k].end <= ss[k + 1].start
  <2>1. k \in 1..Len(rs) /\ ss[k] = rs[k]
    BY <1>1, <1>3 DEF Longer
  <2>2. CASE k + 1 \in 1..Len(rs)
    <3>1. ss[k + 1] = rs[k + 1]
      BY <2>2 DEF Longer
    <3> QED BY <2>1, <2>2, <3>1 DEF ClosedBy, Ordered
  <2>3. CASE k + 1 \notin 1..Len(rs)
    <3>1. k + 1 = Len(rs) + 1
      BY <1>1, <1>3, <2>3
    <3> QED BY <2>1, <3>1 DEF Longer
  <2> QED BY <2>2, <2>3
<1> QED BY <1>1, <1>2, <1>3 DEF ClosedBy, Ordered

(* Closing the range in progress not after e. *)
LEMMA CloseCurrent ==
  ASSUME NEW acc, NEW d \in Event, NEW at \in Nat, NEW end \in Nat,
         Current(acc, d), acc.open # NoRange, d.at <= at, end <= at
  PROVE  /\ Close(acc, end) \in Replays
         /\ Close(acc, end).open = NoRange
         /\ ClosedBy(Close(acc, end).ranges, at)
         /\ Longer(acc.ranges, Close(acc, end).ranges, acc.open.start, end)
<1>1. acc \in Replays /\ d.at \in Nat /\ acc.open.start \in Nat
  BY DEF Current, Event
<1>2. /\ Close(acc, end) \in Replays
      /\ Close(acc, end).open = NoRange
      /\ Longer(acc.ranges, Close(acc, end).ranges, acc.open.start, end)
  BY <1>1, CloseAppends
<1>3. ClosedBy(acc.ranges, d.at) /\ \A k \in 1..Len(acc.ranges) : acc.ranges[k].end <= acc.open.start
  BY DEF Current
<1>4. ClosedBy(Close(acc, end).ranges, at)
  BY <1>1, <1>2, <1>3, LongerClosed
<1> QED BY <1>2, <1>4

LEMMA LaterClosed ==
  ASSUME NEW rs, NEW b \in Nat, NEW at \in Nat, b <= at, ClosedBy(rs, b)
  PROVE  ClosedBy(rs, at)
<1>1. ASSUME NEW k \in 1..Len(rs) PROVE rs[k].end <= at
  BY DEF ClosedBy
<1> QED BY <1>1 DEF ClosedBy

(* An opening starts a range where none is in progress. *)
LEMMA OpensFresh ==
  ASSUME NEW base \in Replays, base.open = NoRange, NEW e \in Event,
         ClosedBy(base.ranges, e.at), Opens(e),
         NEW next, next = [base EXCEPT !.open = [start |-> e.at, end |-> e.until]]
  PROVE  /\ Current(next, e) /\ next.ranges = base.ranges
         /\ next.open.start = e.at /\ next.open.end = e.until
<1> DEFINE r == [start |-> e.at, end |-> e.until]
<1>1. e.at \in Nat /\ e.until \in Nat
  BY DEF Event
<1>2. r \in LatchRange /\ r.start = e.at /\ r.end = e.until
  BY <1>1 DEF LatchRange
<1>3. r # NoRange
  BY <1>1, <1>2, NoTimeAssumption DEF NoRange
<1> HIDE DEF r
<1>4. next \in Replays /\ next.open = r /\ next.ranges = base.ranges
  BY <1>2 DEF Replays, r
<1>5. \A k \in 1..Len(base.ranges) : base.ranges[k].end <= e.at
  BY DEF ClosedBy
<1> QED BY <1>1, <1>2, <1>3, <1>4, <1>5 DEF Current

(* Between two instants of a replay nothing covered is lost. *)
Covers(acc, t) ==
  \/ acc.open # NoRange /\ CoveredBy(acc.open, t)
  \/ \E k \in 1..Len(acc.ranges) : CoveredBy(acc.ranges[k], t)

Keeps(acc, next, e) == \A t \in Nat : Covers(acc, t) /\ t < e.at => Covers(next, t)

LEMMA LongerCovers ==
  ASSUME NEW acc, acc.ranges \in Seq(LatchRange), NEW next, NEW end \in Nat, NEW t \in Nat,
         Longer(acc.ranges, next.ranges, acc.open.start, end),
         Covers(acc, t), CoveredBy(acc.open, t) => t < end
  PROVE  Covers(next, t)
<1>1. Len(acc.ranges) \in Nat /\ Len(next.ranges) = Len(acc.ranges) + 1
  BY DEF Longer
<1>2. CASE CoveredBy(acc.open, t)
  <2>1. CoveredBy(next.ranges[Len(acc.ranges) + 1], t)
    BY <1>2 DEF CoveredBy, Longer
  <2>2. Len(acc.ranges) + 1 \in 1..Len(next.ranges)
    BY <1>1
  <2> QED BY <2>1, <2>2 DEF Covers
<1>3. CASE \E k \in 1..Len(acc.ranges) : CoveredBy(acc.ranges[k], t)
  <2>1. PICK k \in 1..Len(acc.ranges) : CoveredBy(acc.ranges[k], t)
    BY <1>3
  <2>2. k \in 1..Len(next.ranges) /\ next.ranges[k] = acc.ranges[k]
    BY <1>1 DEF Longer
  <2> QED BY <2>1, <2>2 DEF Covers
<1> QED BY <1>2, <1>3 DEF Covers

LEMMA OpeningSteps ==
  ASSUME NEW acc, NEW d \in Event, NEW e \in Event, Current(acc, d), Follows(d, e), Opens(e)
  PROVE  Current(Opening(acc, e), e) /\ Keeps(acc, Opening(acc, e), e)
<1>1. /\ acc \in Replays /\ ClosedBy(acc.ranges, d.at)
      /\ d.at \in Nat /\ e.at \in Nat /\ e.until \in Nat /\ d.until \in Nat /\ d.at <= e.at
  BY DEF Current, Event, Follows
<1>2. acc.ranges \in Seq(LatchRange)
  BY <1>1 DEF Replays
<1>3. CASE acc.open = NoRange
  <2>1. Opening(acc, e) = [acc EXCEPT !.open = [start |-> e.at, end |-> e.until]]
    BY <1>3 DEF Opening
  <2>2. ClosedBy(acc.ranges, e.at)
    BY <1>1, LaterClosed
  <2>3. Current(Opening(acc, e), e) /\ Opening(acc, e).ranges = acc.ranges
    BY <1>1, <1>3, <2>1, <2>2, OpensFresh
  <2> QED BY <1>3, <2>3 DEF Keeps, Covers
<1>4. CASE acc.open # NoRange /\ e.at > acc.open.end
  <2> DEFINE base == Close(acc, acc.open.end)
  <2>1. acc.open.end \in Nat /\ acc.open.end <= e.at
    BY <1>1, <1>4 DEF Current
  <2>2. /\ base \in Replays /\ base.open = NoRange /\ ClosedBy(base.ranges, e.at)
        /\ Longer(acc.ranges, base.ranges, acc.open.start, acc.open.end)
    BY <1>1, <1>4, <2>1, CloseCurrent
  <2>3. Opening(acc, e) = IF base.open = NoRange
                          THEN [base EXCEPT !.open = [start |-> e.at, end |-> e.until]]
                          ELSE IF e.until > base.open.end
                               THEN [base EXCEPT !.open.end = e.until] ELSE base
    BY <1>4 DEF Opening
  <2> HIDE DEF base
  <2>4. Opening(acc, e) = [base EXCEPT !.open = [start |-> e.at, end |-> e.until]]
    BY <2>2, <2>3
  <2>5. Current(Opening(acc, e), e) /\ Opening(acc, e).ranges = base.ranges
    BY <2>2, <2>4, OpensFresh
  <2>6. ASSUME NEW t \in Nat, Covers(acc, t) PROVE Covers(Opening(acc, e), t)
    <3>1. CoveredBy(acc.open, t) => t < acc.open.end
      BY DEF CoveredBy
    <3> QED BY <1>2, <2>1, <2>2, <2>5, <2>6, <3>1, LongerCovers
  <2> QED BY <2>5, <2>6 DEF Keeps
<1>5. CASE acc.open # NoRange /\ ~(e.at > acc.open.end)
  <2>1. Opens(d) /\ acc.open.end = d.until /\ d.until < e.until
    BY <1>5 DEF Current, Follows
  <2>2. Opening(acc, e) = [acc EXCEPT !.open.end = e.until]
    BY <1>1, <1>5, <2>1 DEF Opening
  <2> DEFINE r == [acc.open EXCEPT !.end = e.until]
  <2>3. acc.open \in LatchRange /\ acc.open.start \in Nat
    BY <1>1, <1>5 DEF Replays, Current
  <2>4. r \in LatchRange /\ r.start = acc.open.start /\ r.end = e.until
    BY <1>1, <2>3 DEF LatchRange
  <2>5. r # NoRange
    BY <2>3, <2>4, NoTimeAssumption DEF NoRange
  <2>6. Opening(acc, e) = [acc EXCEPT !.open = r]
    BY <2>2
  <2> HIDE DEF r
  <2>7. /\ Opening(acc, e) \in Replays
        /\ Opening(acc, e).open = r /\ Opening(acc, e).ranges = acc.ranges
    BY <1>1, <2>4, <2>6 DEF Replays
  <2>8. ClosedBy(acc.ranges, e.at)
    BY <1>1, LaterClosed
  <2>9. /\ acc.open.start <= e.at
        /\ \A k \in 1..Len(acc.ranges) : acc.ranges[k].end <= acc.open.start
    BY <1>1, <1>5, <2>3 DEF Current
  <2>10. Current(Opening(acc, e), e)
    BY <1>1, <2>3, <2>4, <2>5, <2>7, <2>8, <2>9 DEF Current
  <2>11. ASSUME NEW t \in Nat, Covers(acc, t) PROVE Covers(Opening(acc, e), t)
    <3>1. CoveredBy(acc.open, t) => CoveredBy(r, t)
      BY <1>1, <2>1, <2>4 DEF CoveredBy
    <3> QED BY <2>5, <2>7, <2>11, <3>1 DEF Covers
  <2> QED BY <2>10, <2>11 DEF Keeps
<1> QED BY <1>3, <1>4, <1>5

(* Every transition leaves a current replay current and keeps what the     *)
(* ranges cover before it.                                                 *)
LEMMA ReplaySteps ==
  ASSUME NEW acc, NEW d \in Event, NEW e \in Event, Current(acc, d), Follows(d, e)
  PROVE  Current(Replay(acc, e), e) /\ Keeps(acc, Replay(acc, e), e)
<1>1. /\ acc \in Replays /\ acc.ranges \in Seq(LatchRange) /\ ClosedBy(acc.ranges, d.at)
      /\ d.at \in Nat /\ e.at \in Nat /\ e.until \in Nat /\ d.until \in Nat /\ d.at <= e.at
      /\ e.kind \in {"latched", "released", "expired", "restored"}
  BY DEF Current, Event, Follows, Replays
<1>2. CASE Opens(e)
  <2>1. Replay(acc, e) = Opening(acc, e)
    BY <1>2 DEF Replay, Opens
  <2> QED BY <1>2, <2>1, OpeningSteps
<1>3. CASE ~Opens(e)
  <2> DEFINE end == IF e.kind = "released" THEN e.at ELSE e.until
  <2>1. Replay(acc, e) = Close(acc, end)
    BY <1>1, <1>3 DEF Replay, Opens
  <2>2. end \in Nat
    BY <1>1
  <2>3. CASE acc.open = NoRange
    <3>1. Replay(acc, e) = acc
      BY <2>1, <2>3 DEF Close
    <3>2. ClosedBy(acc.ranges, e.at)
      BY <1>1, LaterClosed
    <3> QED BY <1>1, <1>3, <2>3, <3>1, <3>2 DEF Current, Keeps
  <2>4. CASE acc.open # NoRange
    <3>1. end <= e.at
      BY <1>1, <1>3 DEF Follows, Opens
    <3>2. acc.open.end \in Nat /\ (e.kind = "expired" => acc.open.end = e.until)
      BY <2>4 DEF Current, Follows
    <3>3. ASSUME NEW t \in Nat, t < e.at, CoveredBy(acc.open, t)
          PROVE  t < end
      BY <1>1, <1>3, <3>2, <3>3 DEF CoveredBy, Opens
    <3> HIDE DEF end
    <3>4. /\ Close(acc, end) \in Replays
          /\ Close(acc, end).open = NoRange
          /\ ClosedBy(Close(acc, end).ranges, e.at)
          /\ Longer(acc.ranges, Close(acc, end).ranges, acc.open.start, end)
      BY <1>1, <2>2, <2>4, <3>1, CloseCurrent
    <3>5. Current(Close(acc, end), e)
      BY <1>3, <3>4 DEF Current
    <3>6. Keeps(acc, Close(acc, end), e)
      BY <1>1, <2>2, <3>3, <3>4, LongerCovers DEF Keeps
    <3> QED BY <2>1, <3>5, <3>6
  <2> QED BY <2>3, <2>4
<1> QED BY <1>2, <1>3

LEMMA FirstReplay ==
  ASSUME NEW e \in Event
  PROVE  Current(Replay(Blank, e), e)
<1>1. /\ e.at \in Nat /\ e.until \in Nat
      /\ e.kind \in {"latched", "released", "expired", "restored"}
  BY DEF Event
<1>2. NoRange \in LatchRange
  BY DEF NoRange, LatchRange
<1>3. Blank \in Replays /\ Blank.open = NoRange /\ Blank.ranges = <<>>
  BY <1>2 DEF Replays, Blank
<1> HIDE DEF Blank
<1>4. ClosedBy(Blank.ranges, e.at)
  BY <1>3 DEF ClosedBy, Ordered
<1>5. CASE Opens(e)
  <2>1. Replay(Blank, e) = [Blank EXCEPT !.open = [start |-> e.at, end |-> e.until]]
    BY <1>3, <1>5 DEF Replay, Opens, Opening
  <2> QED BY <1>3, <1>4, <1>5, <2>1, OpensFresh
<1>6. CASE ~Opens(e)
  <2>1. Replay(Blank, e) = Blank
    BY <1>1, <1>3, <1>6 DEF Replay, Opens, Close
  <2> QED BY <1>3, <1>4, <1>6, <2>1 DEF Current
<1> QED BY <1>5, <1>6

-----------------------------------------------------------------------------
(* The replay of a whole ring *)

(* The ring is in time order and its closings match its openings. *)
WellRung(ring, t) ==
  /\ \A i \in 1..Len(ring) : ring[i].at <= t
  /\ \A i \in 1..Len(ring) : i + 1 \in 1..Len(ring) => Follows(ring[i], ring[i + 1])

(* The latch was down at t by the i-th transition of the ring. *)
TellsOf(ring, i, t) ==
  /\ Opens(ring[i]) /\ ring[i].at <= t /\ t < ring[i].until
  /\ i + 1 \in 1..Len(ring) => t < ring[i + 1].at

LEMMA WholeReplay ==
  ASSUME NEW ring \in Seq(Event), NEW at \in Nat, WellRung(ring, at)
  PROVE  \A n \in 1..Len(ring) : Current(Replayed(ring)[n], ring[n])
<1> DEFINE Bad == {n \in 1..Len(ring) : ~Current(Replayed(ring)[n], ring[n])}
<1> SUFFICES ASSUME Bad # {} PROVE FALSE
  OBVIOUS
<1>1. Len(ring) \in Nat /\ \A i \in 1..Len(ring) : ring[i] \in Event
  OBVIOUS
<1>2. Bad \in SUBSET Nat
  BY <1>1
<1>3. PICK n \in Bad : \A k \in Bad : n <= k
  BY <1>2, LeastNatural
<1>4. n \in 1..Len(ring) /\ ~Current(Replayed(ring)[n], ring[n])
  OBVIOUS
<1>5. Replayed(ring)[n] = Replay(Replayed(ring)[n - 1], ring[n])
  BY <1>1, <1>4, ReplayedSteps
<1>6. CASE n = 1
  <2>1. Replayed(ring)[n - 1] = Blank
    <3>1. n - 1 = 0
      BY <1>6
    <3> QED BY <1>1, <3>1, ReplayedSteps
  <2> QED BY <1>1, <1>4, <1>5, <2>1, FirstReplay
<1>7. CASE n # 1
  <2>1. n - 1 \in 1..Len(ring) /\ (n - 1) + 1 = n /\ ~(n <= n - 1)
    BY <1>1, <1>4, <1>7
  <2>2. Current(Replayed(ring)[n - 1], ring[n - 1])
    BY <1>3, <2>1
  <2>3. Follows(ring[n - 1], ring[n])
    BY <1>4, <2>1 DEF WellRung
  <2> QED BY <1>1, <1>4, <1>5, <2>1, <2>2, <2>3, ReplaySteps
<1> QED BY <1>6, <1>7

LEMMA RingOrder ==
  ASSUME NEW ring \in Seq(Event), NEW at \in Nat, WellRung(ring, at), NEW i \in 1..Len(ring)
  PROVE  \A n \in 1..Len(ring) : i <= n => ring[i].at <= ring[n].at
<1> DEFINE Bad == {n \in 1..Len(ring) : i <= n /\ ~(ring[i].at <= ring[n].at)}
<1> SUFFICES ASSUME Bad # {} PROVE FALSE
  OBVIOUS
<1>1. Len(ring) \in Nat /\ \A k \in 1..Len(ring) : ring[k].at \in Nat
  <2>1. Len(ring) \in Nat /\ \A k \in 1..Len(ring) : ring[k] \in Event
    OBVIOUS
  <2>2. \A e \in Event : e.at \in Nat
    BY DEF Event
  <2> HIDE DEF Bad
  <2> QED BY <2>1, <2>2
<1>2. Bad \in SUBSET Nat
  BY <1>1
<1>3. PICK n \in Bad : \A k \in Bad : n <= k
  BY <1>2, LeastNatural
<1>4. n \in 1..Len(ring) /\ i <= n /\ ~(ring[i].at <= ring[n].at)
  OBVIOUS
<1>5. n # i
  BY <1>1, <1>4
<1>6. n - 1 \in 1..Len(ring) /\ i <= n - 1 /\ (n - 1) + 1 = n /\ ~(n <= n - 1)
  BY <1>1, <1>4, <1>5
<1>7. ring[i].at <= ring[n - 1].at
  BY <1>3, <1>6
<1>8. ring[n - 1].at <= ring[n].at
  BY <1>4, <1>6 DEF WellRung, Follows
<1>9. ring[i].at \in Nat /\ ring[n - 1].at \in Nat /\ ring[n].at \in Nat
  BY <1>1, <1>4, <1>6
<1> HIDE DEF Bad
<1> QED BY <1>4, <1>7, <1>8, <1>9

LEMMA ReplayCovers ==
  ASSUME NEW ring \in Seq(Event), NEW at \in Nat, WellRung(ring, at),
         NEW i \in 1..Len(ring), NEW t \in Nat, TellsOf(ring, i, t)
  PROVE  \A n \in 1..Len(ring) : i <= n => Covers(Replayed(ring)[n], t)
<1> DEFINE Bad == {n \in 1..Len(ring) : i <= n /\ ~Covers(Replayed(ring)[n], t)}
<1> SUFFICES ASSUME Bad # {} PROVE FALSE
  OBVIOUS
<1>1. Len(ring) \in Nat /\ \A k \in 1..Len(ring) : ring[k] \in Event
  OBVIOUS
<1>2. \A k \in 1..Len(ring) : ring[k].at \in Nat
  BY <1>1 DEF Event
<1>3. Bad \in SUBSET Nat
  BY <1>1
<1>4. PICK n \in Bad : \A k \in Bad : n <= k
  BY <1>3, LeastNatural
<1>5. n \in 1..Len(ring) /\ i <= n /\ ~Covers(Replayed(ring)[n], t)
  OBVIOUS
<1>6. CASE n = i
  <2>1. Current(Replayed(ring)[i], ring[i])
    BY WholeReplay
  <2>2. /\ Replayed(ring)[i].open # NoRange
        /\ Replayed(ring)[i].open.start \in Nat /\ Replayed(ring)[i].open.start <= ring[i].at
        /\ Replayed(ring)[i].open.end = ring[i].until
    BY <2>1 DEF Current, TellsOf
  <2>3. CoveredBy(Replayed(ring)[i].open, t)
    BY <1>2, <2>2 DEF TellsOf, CoveredBy
  <2> QED BY <1>5, <1>6, <2>2, <2>3 DEF Covers
<1>7. CASE n # i
  <2>1. n - 1 \in 1..Len(ring) /\ i <= n - 1 /\ (n - 1) + 1 = n /\ ~(n <= n - 1)
    BY <1>1, <1>5, <1>7
  <2>2. Covers(Replayed(ring)[n - 1], t)
    BY <1>4, <2>1
  <2>3. Current(Replayed(ring)[n - 1], ring[n - 1])
    BY <2>1, WholeReplay
  <2>4. Follows(ring[n - 1], ring[n])
    BY <1>5, <2>1 DEF WellRung
  <2>5. t < ring[n].at
    <3>1. i + 1 \in 1..Len(ring) /\ i + 1 <= n
      BY <1>1, <1>5, <1>7
    <3>2. ring[i + 1].at <= ring[n].at
      BY <1>5, <3>1, RingOrder
    <3> QED BY <1>2, <1>5, <3>1, <3>2 DEF TellsOf
  <2>6. Keeps(Replayed(ring)[n - 1], Replay(Replayed(ring)[n - 1], ring[n]), ring[n])
    BY <1>1, <1>5, <2>1, <2>3, <2>4, ReplaySteps
  <2>7. Replayed(ring)[n] = Replay(Replayed(ring)[n - 1], ring[n])
    BY <1>1, <1>5, ReplayedSteps
  <2> QED BY <1>5, <2>2, <2>5, <2>6, <2>7 DEF Keeps
<1> QED BY <1>6, <1>7

-----------------------------------------------------------------------------
(* The reported ranges *)

(* A latch in force was opened by the last transition of the ring, and     *)
(* without one the last transition closed it: no live latch has its        *)
(* opening rolled out of the ring.                                         *)
LatchOnTop(ring, until) ==
  IF until = NoTime THEN ring # <<>> => ~Opens(ring[Len(ring)])
  ELSE ring # <<>> /\ Opens(ring[Len(ring)]) /\ ring[Len(ring)].until = until

LEMMA RangesAreTrue ==
  ASSUME NEW ring \in Seq(Event), NEW until \in Times, now \in Nat,
         WellRung(ring, now), LatchOnTop(ring, until)
  PROVE  /\ ClosedBy(LatchRanges(ring, until), now)
         /\ \A t \in Nat : t < now /\ (\E i \in 1..Len(ring) : TellsOf(ring, i, t))
              => \E k \in 1..Len(LatchRanges(ring, until)) :
                   CoveredBy(LatchRanges(ring, until)[k], t)
<1> DEFINE acc == Replayed(ring)[Len(ring)]
           last == IF acc.open.end < now THEN acc.open.end ELSE now
<1>1. Len(ring) \in Nat /\ \A i \in 1..Len(ring) : ring[i] \in Event
  OBVIOUS
<1>2. LatchRanges(ring, until) =
        IF acc.open # NoRange THEN Close(acc, last).ranges
        ELSE IF ring # <<>> /\ until # NoTime /\ now < until
             THEN Append(acc.ranges, [start |-> NoTime, end |-> now])
             ELSE acc.ranges
  BY DEF LatchRanges
<1>3. CASE ring = <<>>
  <2>1. acc = Blank /\ Len(ring) = 0
    BY <1>3, ReplayedSteps
  <2> HIDE DEF acc
  <2>2. LatchRanges(ring, until) = <<>>
    BY <1>2, <1>3, <2>1 DEF Blank
  <2> QED BY <2>1, <2>2 DEF ClosedBy, Ordered
<1>4. CASE ring # <<>>
  <2>1. Len(ring) \in 1..Len(ring)
    BY <1>1, <1>4
  <2> DEFINE e == ring[Len(ring)]
  <2>2. Current(acc, e)
    BY <2>1, WholeReplay
  <2>3. \A t \in Nat : (\E i \in 1..Len(ring) : TellsOf(ring, i, t)) => Covers(acc, t)
    <3> SUFFICES ASSUME NEW t \in Nat, NEW i \in 1..Len(ring), TellsOf(ring, i, t)
                 PROVE  Covers(acc, t)
      OBVIOUS
    <3>1. i <= Len(ring)
      BY <1>1
    <3> QED BY <2>1, <3>1, ReplayCovers
  <2>4. e \in Event /\ e.at \in Nat /\ e.at <= now
    BY <1>1, <2>1 DEF WellRung, Event
  <2>5. acc \in Replays /\ acc.ranges \in Seq(LatchRange)
    BY <2>2 DEF Current, Replays
  <2> HIDE DEF acc, last
  <2>6. CASE acc.open = NoRange
    <3>1. until = NoTime
      BY <1>4, <2>2, <2>6 DEF LatchOnTop, Current
    <3>2. LatchRanges(ring, until) = acc.ranges
      BY <1>2, <2>6, <3>1
    <3>3. ClosedBy(acc.ranges, now)
      BY <2>2, <2>4, LaterClosed DEF Current
    <3> QED BY <2>3, <2>6, <3>2, <3>3 DEF Covers
  <2>7. CASE acc.open # NoRange
    <3>1. acc.open.end \in Nat
      BY <2>2, <2>7 DEF Current
    <3>2. last \in Nat /\ last <= now /\ \A t \in Nat : t < now /\ t < acc.open.end => t < last
      BY <3>1 DEF last
    <3>3. /\ ClosedBy(Close(acc, last).ranges, now)
          /\ Longer(acc.ranges, Close(acc, last).ranges, acc.open.start, last)
          /\ Close(acc, last).open = NoRange
      BY <2>2, <2>4, <2>7, <3>2, CloseCurrent
    <3>4. LatchRanges(ring, until) = Close(acc, last).ranges
      BY <1>2, <2>7
    <3>5. ASSUME NEW t \in Nat, t < now, Covers(acc, t)
          PROVE  \E k \in 1..Len(Close(acc, last).ranges) :
                   CoveredBy(Close(acc, last).ranges[k], t)
      <4>1. CoveredBy(acc.open, t) => t < last
        BY <3>2, <3>5 DEF CoveredBy
      <4>2. Covers(Close(acc, last), t)
        BY <2>5, <3>2, <3>3, <3>5, <4>1, LongerCovers
      <4> QED BY <3>3, <4>2 DEF Covers
    <3> QED BY <2>3, <3>3, <3>4, <3>5
  <2> QED BY <2>6, <2>7
<1> QED BY <1>3, <1>4

-----------------------------------------------------------------------------
(* What the ring tells of the latch, and how the gate keeps it so *)

AllTold(ring, ticks) ==
  \A t \in ticks : ring # <<>> /\ t >= ring[1].at => \E i \in 1..Len(ring) : TellsOf(ring, i, t)

Told(ring, until, at, ticks) ==
  /\ WellRung(ring, at) /\ LatchOnTop(ring, until)
  /\ ticks \in SUBSET Nat /\ \A t \in ticks : t < at
  /\ AllTold(ring, ticks)

(* new is ring without its first d transitions and with e at the end. *)
Pushed(ring, new, d, e) ==
  /\ d <= Len(ring) /\ Len(new) = Len(ring) - d + 1
  /\ \A k \in 1..(Len(ring) - d) : new[k] = ring[k + d]
  /\ new[Len(ring) - d + 1] = e

LEMMA PushShape ==
  ASSUME NEW ring \in Seq(Event), NEW until \in Nat, now \in Nat,
         NEW kind \in {"latched", "released", "expired", "restored"}
  PROVE  \E d \in {0, 1} : Pushed(ring, Push(ring, kind, until), d,
                          [kind |-> kind, at |-> now, until |-> until])
<1> DEFINE e == [kind |-> kind, at |-> now, until |-> until]
<1>1. e \in Event
  BY DEF Event
<1> HIDE DEF e
<1>2. CASE Len(ring) = EventCap
  <2>1. Tail(ring) \in Seq(Event) /\ Len(Tail(ring)) = Len(ring) - 1 /\ 1 <= Len(ring)
    BY <1>2, BoundsAssumption
  <2>2. \A k \in 1..(Len(ring) - 1) : Tail(ring)[k] = ring[k + 1]
    BY <2>1
  <2>3. Push(ring, kind, until) = Append(Tail(ring), e)
    BY <1>2 DEF Push, e
  <2>4. /\ Len(Push(ring, kind, until)) = Len(ring) - 1 + 1
        /\ \A k \in 1..(Len(ring) - 1) : Push(ring, kind, until)[k] = ring[k + 1]
        /\ Push(ring, kind, until)[Len(ring) - 1 + 1] = e
    BY <1>1, <2>1, <2>2, <2>3
  <2>5. Pushed(ring, Push(ring, kind, until), 1, e)
    BY <2>1, <2>4 DEF Pushed
  <2> QED BY <2>5 DEF e
<1>3. CASE Len(ring) # EventCap
  <2>1. Push(ring, kind, until) = Append(ring, e)
    BY <1>3 DEF Push, e
  <2>2. /\ Len(Push(ring, kind, until)) = Len(ring) - 0 + 1
        /\ \A k \in 1..(Len(ring) - 0) : Push(ring, kind, until)[k] = ring[k + 0]
        /\ Push(ring, kind, until)[Len(ring) - 0 + 1] = e
    BY <1>1, <2>1
  <2>3. Pushed(ring, Push(ring, kind, until), 0, e)
    BY <2>2 DEF Pushed
  <2> QED BY <2>3 DEF e
<1> QED BY <1>2, <1>3

(* One more transition: a latch where none is in force or beyond the one   *)
(* that is, or its release, or its expiry once it is due.                  *)
LEMMA PushTold ==
  ASSUME NEW ring \in Seq(Event), NEW until \in Nat, now \in Nat, NEW old \in Times,
         NEW kind \in {"latched", "released", "expired"}, NEW ticks,
         Told(ring, old, now, ticks),
         kind = "latched" => old = NoTime \/ until > old,
         kind # "latched" => old = until,
         kind = "expired" => until <= now
  PROVE  Told(Push(ring, kind, until), IF kind = "latched" THEN until ELSE NoTime, now, ticks)
<1> DEFINE e == [kind |-> kind, at |-> now, until |-> until]
           new == Push(ring, kind, until)
<1>0. PICK d \in {0, 1} : Pushed(ring, new, d, e)
  <2>1. kind \in {"latched", "released", "expired", "restored"}
    OBVIOUS
  <2> QED BY <2>1, PushShape DEF new, e
<1>1. /\ d <= Len(ring) /\ Len(new) = Len(ring) - d + 1
      /\ \A k \in 1..(Len(ring) - d) : new[k] = ring[k + d]
      /\ new[Len(ring) - d + 1] = e
  BY <1>0 DEF Pushed
<1>2. e.kind = kind /\ e.at = now /\ e.until = until
  OBVIOUS
<1>3. new \in Seq(Event)
  BY PushType
<1> HIDE DEF new, e
<1>4. Len(ring) \in Nat /\ Len(new) \in Nat /\ Len(new) >= 1 /\ new # <<>>
  BY <1>1, <1>3
<1>5. \A i \in 1..Len(ring) : ring[i] \in Event /\ ring[i].at \in Nat /\ ring[i].until \in Nat
  <2>1. \A i \in 1..Len(ring) : ring[i] \in Event
    OBVIOUS
  <2> QED BY <2>1 DEF Event
<1>6. WellRung(ring, now) /\ LatchOnTop(ring, old) /\ AllTold(ring, ticks)
      /\ ticks \in SUBSET Nat /\ \A t \in ticks : t < now
  BY DEF Told
<1>7. ring # <<>> => Follows(ring[Len(ring)], e)
  <2> SUFFICES ASSUME ring # <<>> PROVE Follows(ring[Len(ring)], e)
    OBVIOUS
  <2>1. Len(ring) \in 1..Len(ring)
    BY <1>4
  <2>2. ring[Len(ring)].at <= now
    BY <1>6, <2>1 DEF WellRung
  <2>3. kind = "latched" /\ Opens(ring[Len(ring)]) => ring[Len(ring)].until < until
    BY <1>6, NoTimeAssumption DEF LatchOnTop
  <2>4. kind = "expired" => Opens(ring[Len(ring)]) /\ ring[Len(ring)].until = until
    BY <1>6, NoTimeAssumption DEF LatchOnTop
  <2>5. Opens(e) => kind = "latched"
    BY <1>2 DEF Opens
  <2> QED BY <1>2, <2>2, <2>3, <2>4, <2>5 DEF Follows
<1>8. WellRung(new, now)
  <2>1. ASSUME NEW i \in 1..Len(new) PROVE new[i].at <= now
    <3>1. CASE i = Len(new)
      BY <1>1, <1>2, <3>1
    <3>2. CASE i # Len(new)
      <4>1. i \in 1..(Len(ring) - d) /\ i + d \in 1..Len(ring)
        BY <1>1, <1>4, <3>2
      <4> QED BY <1>1, <1>6, <4>1 DEF WellRung
    <3> QED BY <3>1, <3>2
  <2>2. ASSUME NEW i \in 1..Len(new), i + 1 \in 1..Len(new)
        PROVE  Follows(new[i], new[i + 1])
    <3>1. i \in 1..(Len(ring) - d) /\ i + d \in 1..Len(ring) /\ new[i] = ring[i + d]
      BY <1>1, <1>4, <2>2
    <3>2. CASE i + 1 = Len(new)
      <4>1. i + d = Len(ring) /\ ring # <<>>
        BY <1>1, <1>4, <3>1, <3>2
      <4>2. new[i + 1] = e
        BY <1>1, <3>2
      <4> QED BY <1>7, <3>1, <4>1, <4>2
    <3>3. CASE i + 1 # Len(new)
      <4>1. i + 1 \in 1..(Len(ring) - d) /\ (i + 1) + d = (i + d) + 1 /\ (i + d) + 1 \in 1..Len(ring)
        BY <1>1, <1>4, <2>2, <3>3
      <4>2. new[i + 1] = ring[(i + 1) + d]
        BY <1>1, <4>1
      <4>3. new[i + 1] = ring[(i + d) + 1]
        BY <4>1, <4>2
      <4> QED BY <1>6, <3>1, <4>1, <4>3 DEF WellRung
    <3> QED BY <3>2, <3>3
  <2> QED BY <2>1, <2>2 DEF WellRung
<1>9. LatchOnTop(new, IF kind = "latched" THEN until ELSE NoTime)
  <2>1. new[Len(new)] = e
    BY <1>1
  <2>2. until # NoTime
    BY NoTimeAssumption
  <2>3. Opens(e) <=> kind = "latched"
    BY <1>2 DEF Opens
  <2> QED BY <1>2, <1>4, <2>1, <2>2, <2>3 DEF LatchOnTop
<1>10. ASSUME NEW t \in ticks, t >= new[1].at
       PROVE  \E i \in 1..Len(new) : TellsOf(new, i, t)
  <2>0. t \in Nat /\ t < now
    BY <1>6
  <2>1. Len(new) # 1
    BY <1>1, <1>2, <1>10, <2>0
  <2>2. 1 \in 1..(Len(ring) - d) /\ 1 + d \in 1..Len(ring) /\ 1 \in 1..Len(ring) /\ ring # <<>>
    BY <1>1, <1>4, <2>1
  <2>3. new[1] = ring[1 + d]
    BY <1>1, <2>2
  <2>4. ring[1].at <= ring[1 + d].at
    BY <1>6, <2>2, RingOrder
  <2>5. t >= ring[1].at
    BY <1>5, <1>10, <2>0, <2>2, <2>3, <2>4
  <2>6. PICK i \in 1..Len(ring) : TellsOf(ring, i, t)
    BY <1>6, <2>2, <2>5 DEF AllTold
  <2>7. i - d \in 1..(Len(ring) - d)
    <3>1. CASE d = 0
      BY <1>4, <3>1
    <3>2. CASE d = 1 /\ i = 1
      <4>1. t < ring[1 + 1].at
        BY <2>2, <2>6, <3>2 DEF TellsOf
      <4>2. t >= ring[1 + 1].at
        BY <1>10, <2>3, <3>2
      <4> QED BY <1>5, <2>0, <2>2, <3>2, <4>1, <4>2
    <3>3. CASE d = 1 /\ i # 1
      BY <1>4, <3>3
    <3> QED BY <3>1, <3>2, <3>3
  <2>8. i - d \in 1..Len(new) /\ (i - d) + d = i /\ new[i - d] = ring[i]
    BY <1>1, <1>4, <2>7
  <2>9. ASSUME (i - d) + 1 \in 1..Len(new) PROVE t < new[(i - d) + 1].at
    <3>1. CASE (i - d) + 1 = Len(new)
      BY <1>1, <1>2, <2>0, <3>1
    <3>2. CASE (i - d) + 1 # Len(new)
      <4>1. /\ (i - d) + 1 \in 1..(Len(ring) - d) /\ ((i - d) + 1) + d = i + 1
            /\ i + 1 \in 1..Len(ring)
        BY <1>1, <1>4, <2>9, <3>2
      <4>2. new[(i - d) + 1] = ring[((i - d) + 1) + d]
        BY <1>1, <4>1
      <4> QED BY <2>6, <4>1, <4>2 DEF TellsOf
    <3> QED BY <3>1, <3>2
  <2>10. TellsOf(new, i - d, t)
    BY <2>6, <2>8, <2>9 DEF TellsOf
  <2> QED BY <2>8, <2>10
<1> QED BY <1>6, <1>8, <1>9, <1>10 DEF Told, AllTold, new

-----------------------------------------------------------------------------
(* The timeline over a run. What the ring and the deadline in memory tell  *)
(* is what happened to the latch in this process.                          *)
TimelineInv == Told(events, limitedUntil, now, latchedTicks)

LEMMA FirstTold ==
  ASSUME NEW at \in Nat
  PROVE  Told(<<>>, NoTime, at, {})
BY DEF Told, WellRung, LatchOnTop, AllTold

LEMMA RestoredTold ==
  ASSUME now \in Nat, NEW until \in Nat
  PROVE  Told(Push(<<>>, "restored", until), until, now, {})
<1> DEFINE e == [kind |-> "restored", at |-> now, until |-> until]
<1>1. Push(<<>>, "restored", until) = <<e>>
  BY BoundsAssumption DEF Push
<1>2. e.kind = "restored" /\ e.at = now /\ e.until = until
  OBVIOUS
<1> HIDE DEF e
<1>3. Len(<<e>>) = 1 /\ <<e>>[1] = e /\ <<e>> # <<>>
  OBVIOUS
<1>4. until # NoTime
  BY NoTimeAssumption
<1>5. WellRung(<<e>>, now)
  BY <1>2, <1>3 DEF WellRung
<1>6. LatchOnTop(<<e>>, until)
  BY <1>2, <1>3, <1>4 DEF LatchOnTop, Opens
<1> QED BY <1>1, <1>5, <1>6 DEF Told, AllTold

(* A due expiry settled, by `stats` or by any other entry of the gate.     *)
LEMMA SettledTold ==
  ASSUME ClockTypes, GateTypes, TimelineInv
  PROVE  /\ SettledRing \in Seq(Event) /\ SettledUntil \in Times
         /\ Told(SettledRing, SettledUntil, now, latchedTicks)
<1>1. now \in Nat /\ events \in Seq(Event) /\ limitedUntil \in Times
  BY DEF ClockTypes, GateTypes
<1>2. CASE Due
  <2>1. limitedUntil \in Nat /\ limitedUntil <= now
    BY <1>1, <1>2 DEF Due
  <2>2. Told(Push(events, "expired", limitedUntil),
             IF "expired" = "latched" THEN limitedUntil ELSE NoTime, now, latchedTicks)
    BY <1>1, <2>1, PushTold DEF TimelineInv
  <2>3. Push(events, "expired", limitedUntil) \in Seq(Event)
    BY <1>1, <2>1, PushType
  <2> QED BY <1>2, <2>2, <2>3 DEF SettledRing, SettledUntil
<1>3. CASE ~Due
  BY <1>1, <1>3 DEF SettledRing, SettledUntil, TimelineInv
<1> QED BY <1>2, <1>3

LEMMA ExpireTold ==
  ASSUME ClockTypes, GateTypes, TimelineInv, ExpireIfDue, UNCHANGED <<now, latchedTicks>>
  PROVE  TimelineInv'
<1>1. events' = SettledRing /\ limitedUntil' = SettledUntil
  BY DEF ExpireIfDue, SettledRing, SettledUntil
<1> QED BY <1>1, SettledTold DEF TimelineInv

LEMMA UntouchedTold ==
  ASSUME TimelineInv, UNCHANGED <<events, limitedUntil, now, latchedTicks>>
  PROVE  TimelineInv'
BY DEF TimelineInv

LEMMA WaitTold ==
  ASSUME ClockTypes, GateTypes, TimelineInv, NEW r \in Requests, Wait(r), UNCHANGED latchedTicks
  PROVE  TimelineInv'
<1>1. CASE AdmitProbe(r) \/ RejectLatched(r) \/ WaitCancelled(r)
  BY <1>1, UntouchedTold DEF AdmitProbe, RejectLatched, WaitCancelled, LeavesFor
<1>2. CASE AdmitUnpaced(r) \/ AdmitPaced(r) \/ RejectHold(r) \/ SleepToWindow(r)
  BY <1>2, ExpireTold DEF AdmitUnpaced, AdmitPaced, RejectHold, SleepToWindow, LeavesFor
<1> QED BY <1>1, <1>2 DEF Wait

LEMMA CallerTold ==
  ASSUME IInv, TimelineInv, NEW r \in Requests, Caller(r), UNCHANGED latchedTicks
  PROVE  TimelineInv'
<1>0. /\ ClockTypes /\ GateTypes /\ RequestTypes
      /\ now \in Nat /\ events \in Seq(Event) /\ limitedUntil \in Times
  BY IInvParts DEF ClockTypes, GateTypes
<1>1. CASE Cancel(r) \/ DropWaiter(r) \/ UpstreamRefuses(r) \/ UpstreamEnds(r)
  BY <1>1, UntouchedTold DEF Cancel, DropWaiter, UpstreamRefuses, UpstreamEnds
<1>2. CASE UpstreamAccepts(r)
  <2>1. CASE limitedUntil = NoTime
    BY <1>2, <2>1, UntouchedTold DEF UpstreamAccepts
  <2>2. CASE limitedUntil # NoTime
    <3>1. limitedUntil \in Nat
      BY <1>0, <2>2
    <3>2. Told(Push(events, "released", limitedUntil),
               IF "released" = "latched" THEN limitedUntil ELSE NoTime, now, latchedTicks)
      BY <1>0, <3>1, PushTold DEF TimelineInv
    <3>3. /\ events' = Push(events, "released", limitedUntil) /\ limitedUntil' = NoTime
          /\ UNCHANGED <<now, latchedTicks>>
      BY <1>2, <2>2 DEF UpstreamAccepts
    <3> QED BY <3>2, <3>3 DEF TimelineInv
  <2> QED BY <2>1, <2>2
<1>3. CASE NoteUpstreamError(r)
  <2> DEFINE until == Deadline(noted[r])
  <2>1. until \in Nat
    BY <1>0, <1>3, NotedDeadline DEF NoteUpstreamError
  <2> HIDE DEF until
  <2>2. CASE Extends(until)
    <3>1. /\ events' = Push(events, "latched", until) /\ limitedUntil' = until
          /\ UNCHANGED <<now, latchedTicks>>
      BY <1>3, <2>2 DEF NoteUpstreamError, until
    <3>2. Told(Push(events, "latched", until),
               IF "latched" = "latched" THEN until ELSE NoTime, now, latchedTicks)
      BY <1>0, <2>1, <2>2, PushTold DEF TimelineInv, Extends
    <3> QED BY <3>1, <3>2 DEF TimelineInv
  <2>3. CASE ~Extends(until)
    BY <1>3, <2>3, UntouchedTold DEF NoteUpstreamError, until
  <2> QED BY <2>2, <2>3
<1> QED BY <1>1, <1>2, <1>3 DEF Caller

LEMMA TickTold ==
  ASSUME ClockTypes, GateTypes, TimelineInv, Tick,
         latchedTicks' = IF Latched THEN latchedTicks \cup {now} ELSE latchedTicks
  PROVE  TimelineInv'
<1>0. now \in Nat /\ events \in Seq(Event) /\ limitedUntil \in Times
  BY DEF ClockTypes, GateTypes
<1>1. now' = now + 1 /\ events' = events /\ limitedUntil' = limitedUntil
  BY DEF Tick
<1>2. WellRung(events, now) /\ LatchOnTop(events, limitedUntil) /\ AllTold(events, latchedTicks)
      /\ latchedTicks \in SUBSET Nat /\ \A t \in latchedTicks : t < now
  BY DEF TimelineInv, Told
<1>3. \A i \in 1..Len(events) : events[i].at \in Nat
  <2>1. \A i \in 1..Len(events) : events[i] \in Event
    BY <1>0
  <2> QED BY <2>1 DEF Event
<1>4. WellRung(events, now + 1)
  BY <1>0, <1>2, <1>3 DEF WellRung
<1>5. latchedTicks' \in SUBSET Nat /\ \A t \in latchedTicks' : t < now + 1
  BY <1>0, <1>2
<1>6. Latched => \E i \in 1..Len(events) : TellsOf(events, i, now)
  <2> SUFFICES ASSUME Latched PROVE TellsOf(events, Len(events), now) /\ Len(events) \in 1..Len(events)
    OBVIOUS
  <2>1. /\ events # <<>> /\ Opens(events[Len(events)])
        /\ events[Len(events)].until = limitedUntil /\ now < limitedUntil
    BY <1>2 DEF Latched, LatchOnTop
  <2>2. Len(events) \in 1..Len(events) /\ Len(events) + 1 \notin 1..Len(events)
    BY <1>0, <2>1
  <2>3. events[Len(events)].at <= now
    BY <1>2, <2>2 DEF WellRung
  <2> QED BY <2>1, <2>2, <2>3 DEF TellsOf
<1>7. AllTold(events, latchedTicks')
  BY <1>2, <1>6 DEF AllTold
<1> QED BY <1>1, <1>2, <1>4, <1>5, <1>7 DEF TimelineInv, Told

LEMMA RestartTold ==
  ASSUME ClockTypes, GateTypes, NEW c \in Configs, Restart(c), latchedTicks' = {}
  PROVE  TimelineInv'
<1>0. now \in Nat /\ file \in Times /\ now' = now
  BY DEF ClockTypes, GateTypes, Restart
<1>1. CASE file # NoTime /\ file > now
  <2>1. events' = Push(<<>>, "restored", file) /\ limitedUntil' = file /\ file \in Nat
    BY <1>0, <1>1 DEF Restart
  <2> QED BY <1>0, <2>1, RestoredTold DEF TimelineInv
<1>2. CASE ~(file # NoTime /\ file > now)
  <2>1. events' = <<>> /\ limitedUntil' = NoTime
    BY <1>2 DEF Restart
  <2> QED BY <1>0, <2>1, FirstTold DEF TimelineInv
<1> QED BY <1>1, <1>2

LEMMA TimelineNextTold ==
  ASSUME IInv, TimelineInv, [TimelineNext]_timelineVars
  PROVE  TimelineInv'
<1>0. ClockTypes /\ GateTypes
  BY IInvParts
<1>1. CASE InProcess /\ UNCHANGED latchedTicks
  <2>1. ASSUME NEW r \in Requests, Wait(r) PROVE TimelineInv'
    BY <1>0, <1>1, <2>1, WaitTold
  <2>2. ASSUME NEW r \in Requests, Caller(r) PROVE TimelineInv'
    BY <1>1, <2>2, CallerTold
  <2>3. CASE Stats
    BY <1>0, <1>1, <2>3, ExpireTold DEF Stats
  <2>4. CASE \E c \in Configs : SetParams(c)
    BY <1>1, <2>4, UntouchedTold DEF SetParams
  <2> QED BY <1>1, <2>1, <2>2, <2>3, <2>4 DEF InProcess
<1>2. CASE Tick /\ latchedTicks' = IF Latched THEN latchedTicks \cup {now} ELSE latchedTicks
  BY <1>0, <1>2, TickTold
<1>3. CASE (\E c \in Configs : Restart(c)) /\ latchedTicks' = {}
  BY <1>0, <1>3, RestartTold
<1>4. CASE UNCHANGED timelineVars
  BY <1>4, UntouchedTold DEF timelineVars, vars
<1> QED BY <1>1, <1>2, <1>3, <1>4 DEF TimelineNext

(* The ranges reported in a state of the invariant are true.               *)
LEMMA ReportedIsTrue ==
  ASSUME IInv, TimelineInv
  PROVE  TimelineIsFaithful
<1>0. ClockTypes /\ GateTypes /\ now \in Nat
  BY IInvParts DEF ClockTypes
<1>1. /\ SettledRing \in Seq(Event) /\ SettledUntil \in Times
      /\ WellRung(SettledRing, now) /\ LatchOnTop(SettledRing, SettledUntil)
      /\ AllTold(SettledRing, latchedTicks)
      /\ latchedTicks \in SUBSET Nat /\ \A t \in latchedTicks : t < now
  BY <1>0, SettledTold DEF Told
<1>2. /\ ClosedBy(Reported, now)
      /\ \A t \in Nat : t < now /\ (\E i \in 1..Len(SettledRing) : TellsOf(SettledRing, i, t))
           => \E k \in 1..Len(Reported) : CoveredBy(Reported[k], t)
  BY <1>0, <1>1, RangesAreTrue DEF Reported
<1>3. DOMAIN Reported = 1..Len(Reported)
  BY <1>2 DEF ClosedBy
<1>4. TimelineIsOrdered
  <2> SUFFICES ASSUME NEW i \in 1..Len(Reported), i + 1 \in 1..Len(Reported)
               PROVE  /\ Reported[i + 1].start # NoTime
                      /\ Reported[i].end <= Reported[i + 1].start
    BY <1>3 DEF TimelineIsOrdered
  <2>1. Reported[i + 1].start \in Nat /\ Reported[i].end <= Reported[i + 1].start
    BY <1>2 DEF ClosedBy, Ordered
  <2> QED BY <2>1, NoTimeAssumption
<1>5. TimelineCoversLatch
  <2> SUFFICES ASSUME NEW t \in latchedTicks, SettledRing # <<>>, t >= SettledRing[1].at
               PROVE  \E i \in DOMAIN Reported : CoveredBy(Reported[i], t)
    BY DEF TimelineCoversLatch
  <2>1. t \in Nat /\ t < now /\ \E i \in 1..Len(SettledRing) : TellsOf(SettledRing, i, t)
    BY <1>1 DEF AllTold
  <2> QED BY <1>2, <1>3, <2>1
<1> QED BY <1>4, <1>5 DEF TimelineIsFaithful

(* gate.rs:752-756: for every ring capacity and every history of latches,  *)
(* extensions, releases, lazily settled expiries and restarts, the ranges  *)
(* rebuilt from the ring alone lose no tick the latch was down since its   *)
(* oldest transition, and follow each other in time.                       *)
THEOREM TimelineHolds == TimelineSpec => []TimelineIsFaithful
<1>1. TimelineInit => IInv /\ TimelineInv
  <2>1. TimelineInit => IInv
    BY InitTypes DEF TimelineInit
  <2>2. TimelineInit => TimelineInv
    <3> SUFFICES ASSUME TimelineInit PROVE TimelineInv
      OBVIOUS
    <3>1. now \in Nat /\ events = <<>> /\ limitedUntil = NoTime /\ latchedTicks = {}
      BY PeriodAssumption DEF TimelineInit, Init
    <3> QED BY <3>1, FirstTold DEF TimelineInv
  <2> QED BY <2>1, <2>2
<1>2. [TimelineNext]_timelineVars => [Next]_vars
  BY DEF TimelineNext, timelineVars, Next
<1>3. IInv /\ TimelineInv /\ [TimelineNext]_timelineVars => (IInv /\ TimelineInv)'
  BY <1>2, NextTypes, TimelineNextTold
<1>4. IInv /\ TimelineInv => TimelineIsFaithful
  BY ReportedIsTrue
<1> QED BY <1>1, <1>3, <1>4, PTL DEF TimelineSpec
=============================================================================
