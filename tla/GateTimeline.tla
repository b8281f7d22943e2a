---------------------------- MODULE GateTimeline ----------------------------
(***************************************************************************)
(* The latch timeline the panel paints: `latch_ranges` of                  *)
(* src/src/upstream/gate.rs rebuilds the intervals in which the latch was  *)
(* down from the ring of transitions alone. `latchedTicks` is the truth it *)
(* is compared with: the ticks of this process during which the latch was  *)
(* down.                                                                   *)
(***************************************************************************)
EXTENDS RateGate

VARIABLE latchedTicks

timelineVars == <<vars, latchedTicks>>

(* One event of the replay: `open` is the range in progress, or NoRange.   *)
NoRange == [start |-> NoTime, end |-> NoTime]

Close(acc, end) == IF acc.open = NoRange THEN acc
                   ELSE [open |-> NoRange,
                         ranges |-> Append(acc.ranges, [acc.open EXCEPT !.end = end])]

(* Mutant: a re-latch does not move the right edge. *)
OpeningOnce(acc, ev) == IF acc.open # NoRange THEN acc
                        ELSE [acc EXCEPT !.open = [start |-> ev.at, end |-> ev.until]]

Opening(acc, ev) ==
  LET lapsed == acc.open # NoRange /\ ev.at > acc.open.end
      base   == IF lapsed THEN Close(acc, acc.open.end) ELSE acc
  IN  IF base.open = NoRange
      THEN [base EXCEPT !.open = [start |-> ev.at, end |-> ev.until]]
      ELSE IF ev.until > base.open.end
           THEN [base EXCEPT !.open.end = ev.until]
           ELSE base

Replay(acc, ev) ==
  CASE ev.kind \in {"latched", "restored"} -> Opening(acc, ev)
    [] ev.kind = "released"                -> Close(acc, ev.at)
    [] ev.kind = "expired"                 -> Close(acc, ev.until)

(* What the replay has after each number of transitions.                   *)
Replayed(ring) ==
  LET after[n \in 0..Len(ring)] == IF n = 0 THEN [open |-> NoRange, ranges |-> <<>>]
                                   ELSE Replay(after[n - 1], ring[n])
  IN  after

(* The ranges of a ring at the current instant, with the deadline `until`. *)
LatchRanges(ring, until) ==
  LET acc == Replayed(ring)[Len(ring)]
      last == IF acc.open.end < now THEN acc.open.end ELSE now
  IN  IF acc.open # NoRange
      THEN Close(acc, last).ranges
      ELSE IF ring # <<>> /\ until # NoTime /\ now < until
           THEN Append(acc.ranges, [start |-> NoTime, end |-> now])
           ELSE acc.ranges

(* What `stats` would report now: it settles a due expiry first. *)
SettledRing == IF Due THEN Push(events, "expired", limitedUntil) ELSE events
SettledUntil == IF Due THEN NoTime ELSE limitedUntil
Reported == LatchRanges(SettledRing, SettledUntil)

TimelineInit == Init /\ latchedTicks = {}

TimelineNext ==
  \/ InProcess /\ UNCHANGED latchedTicks
  \/ Tick /\ latchedTicks' = IF Latched THEN latchedTicks \cup {now} ELSE latchedTicks
  \/ (\E c \in Configs : Restart(c)) /\ latchedTicks' = {}

TimelineSpec == TimelineInit /\ [][TimelineNext]_timelineVars

-----------------------------------------------------------------------------
CoveredBy(range, t) == /\ range.start = NoTime \/ range.start <= t
                       /\ t < range.end

(* gate.rs:752-756: replaying the ring loses no part of a latch. Every     *)
(* tick the latch was down since the oldest transition the ring still      *)
(* holds lies in a reported range, whatever re-latches, extensions, lazily *)
(* settled expiries, releases and roll-overs of the ring came in between.  *)
TimelineCoversLatch ==
  \A t \in latchedTicks :
    SettledRing # <<>> /\ t >= SettledRing[1].at
      => \E i \in DOMAIN Reported : CoveredBy(Reported[i], t)

(* The reported ranges follow each other in time. *)
TimelineIsOrdered ==
  \A i \in DOMAIN Reported :
    i + 1 \in DOMAIN Reported => /\ Reported[i + 1].start # NoTime
                                 /\ Reported[i].end <= Reported[i + 1].start

(* gate.rs:752-756: the panel's timeline misses nothing the ring still     *)
(* tells of and shows no part of it twice.                                 *)
TimelineIsFaithful == TimelineCoversLatch /\ TimelineIsOrdered
=============================================================================
