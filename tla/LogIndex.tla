------------------------------ MODULE LogIndex ------------------------------
(***************************************************************************)
(* index.jsonl, one line for each completed request, and the usage counts  *)
(* made from it (src/src/debuglog.rs, src/src/debuglog/reader.rs): live    *)
(* appends under `index_mu`, the startup replay that reads the tail under  *)
(* the same lock and counts it outside, the cap that rewrites the file to  *)
(* its tail in place, failed file operations, and crashes.                 *)
(*                                                                         *)
(* Everybody holds `index_mu` for the whole of an append or of the         *)
(* replay's read, so these are single steps; a rewrite is two, since the   *)
(* process may die between truncating the file and writing the tail back.  *)
(***************************************************************************)
EXTENDS Integers, Sequences, SequencesExt, Functions, FiniteSets

CONSTANTS
  LiveRequests, \* requests that complete in this process or a later one
  OldLines,     \* lines earlier processes have written, in their order
  Cap,          \* lines past which the file is rewritten, and the replay's window
  MaxIndexRestarts, \* bound: crashes of the process
  MaxIndexFaults    \* bound: failed file operations in one life of the process

ASSUME CapAssumption == Cap \in Nat /\ Cap >= 4
ASSUME BoundAssumption == {MaxIndexRestarts, MaxIndexFaults} \subseteq Nat
(* A line names the directory of its request.                              *)
ASSUME LineAssumption ==
  /\ OldLines \in Seq(Range(OldLines)) /\ IsInjective(OldLines)
  /\ LiveRequests \cap Range(OldLines) = {}

Lines == LiveRequests \cup Range(OldLines)
Nobody == "nobody"

VARIABLES
  file,        \* the lines of index.jsonl
  todo,        \* requests that have not completed
  open,        \* IndexState.writer: is there one
  buffer,      \* lines it could not flush
  bytes,       \* IndexState.bytes, in lines
  tail,        \* what a rewrite in progress is about to write back
  snapshotted, \* the gate of the live counts
  replay,      \* the startup replay: where it stands, the lines it read
  usage,       \* how often each line has been counted
  newest,      \* history: the line flushed last
  cut,         \* history: a rewrite was cut short by a crash or a fault
  indexFaults, indexRestarts

appendVars == <<todo, open, buffer, bytes>>
countVars == <<snapshotted, replay, usage>>
indexVars == <<file, appendVars, tail, countVars, newest, cut, indexFaults, indexRestarts>>

NoTail == <<"none">>
Unlocked == tail = NoTail

IndexFails == indexFaults < MaxIndexFaults /\ indexFaults' = indexFaults + 1
IndexWorks == UNCHANGED indexFaults

LastOf(s, n) == SubSeq(s, Len(s) - n + 1, Len(s))
CountAll(lines) == [l \in Lines |-> usage[l] + Cardinality({i \in DOMAIN lines : lines[i] = l})]

-----------------------------------------------------------------------------
(* `append_index` *)

(* Mutant: the line is counted whether or not a replay will count it.      *)
CountAlways(r) == usage' = CountAll(<<r>>)

(* Lines written before the replay's snapshot are in it.                   *)
CountLive(r) == usage' = IF snapshotted THEN CountAll(<<r>>) ELSE usage

CannotOpen ==
  /\ ~open
  /\ IndexFails
  /\ UNCHANGED <<file, open, buffer, bytes, tail, usage, newest>>

BytesAtOpen == IF open THEN bytes ELSE Len(file)

(* The line stays in the writer's buffer and goes out with the next flush, *)
(* but is never counted.                                                   *)
CannotFlush(r) ==
  /\ IndexFails
  /\ open' = TRUE
  /\ buffer' = Append(buffer, r)
  /\ bytes' = BytesAtOpen
  /\ UNCHANGED <<file, tail, usage, newest>>

Fits(n) == n <= Cap

(* Mutant: the head of the file is kept.                                   *)
KeptHead(s) == {SubSeq(s, 1, n) : n \in {Cap \div 2 - 1, Cap \div 2}}

(* Half the cap; a line torn by the cut is dropped.                        *)
KeptLines(s) == {LastOf(s, n) : n \in {Cap \div 2 - 1, Cap \div 2}}

(* The line is flushed and counted; if the file is past its cap it is cut  *)
(* to its tail, the writer to be opened anew.                              *)
Flushed(r) ==
  LET all == file \o Append(buffer, r)
      n == BytesAtOpen + 1
  IN  /\ IndexWorks
      /\ file' = all /\ buffer' = <<>> /\ newest' = r
      /\ CountLive(r)
      /\ IF Fits(n)
         THEN open' = TRUE /\ bytes' = n /\ UNCHANGED tail
         ELSE open' = FALSE /\ bytes' = n /\ tail' \in KeptLines(all)

AppendIndex(r) ==
  /\ Unlocked
  /\ r \in todo
  /\ todo' = todo \ {r}
  /\ CannotOpen \/ CannotFlush(r) \/ Flushed(r)
  /\ UNCHANGED <<snapshotted, replay, cut, indexRestarts>>

(* `truncate_to_tail`: `create_file` empties the file, one write fills it. *)
RewriteEmpties ==
  /\ ~Unlocked
  /\ file # <<>>
  /\ file' = <<>>
  /\ UNCHANGED <<appendVars, tail, countVars, newest, cut, indexFaults, indexRestarts>>

(* The file cannot be read or emptied, and stays as it is.                 *)
RewriteFails ==
  /\ ~Unlocked
  /\ file # <<>>
  /\ IndexFails
  /\ tail' = NoTail
  /\ UNCHANGED <<file, appendVars, countVars, newest, cut, indexRestarts>>

RewriteFills ==
  /\ ~Unlocked
  /\ file = <<>>
  /\ \/ file' = tail /\ bytes' = Len(tail) /\ IndexWorks /\ UNCHANGED cut
     \/ IndexFails /\ cut' = TRUE /\ UNCHANGED <<file, bytes>>
  /\ tail' = NoTail
  /\ UNCHANGED <<todo, open, buffer, countVars, newest, indexRestarts>>

-----------------------------------------------------------------------------
(* `replay_index` *)

OpenGate == snapshotted' = TRUE

(* `tail_read`: the whole file, or of one longer than the window its last  *)
(* bytes, the first line torn unless the window begins where a line does.  *)
TailRead(s) ==
  IF Len(s) <= Cap THEN {s} ELSE {LastOf(s, n) : n \in {Cap - 1, Cap}}

(* The replay has read the tail.                                           *)
Snapshot ==
  \E read \in TailRead(file) : replay' = [at |-> "read", lines |-> read]

(* The first read. A failure other than a missing file leaves the gate     *)
(* closed for one more try, with the lock given back in between.           *)
ReplayReads ==
  /\ replay.at = "first"
  /\ Unlocked
  /\ \/ /\ IndexWorks
        /\ Snapshot
        /\ OpenGate
     \/ /\ IndexFails
        /\ replay' = [replay EXCEPT !.at = "second"]
        /\ UNCHANGED snapshotted
  /\ UNCHANGED <<file, appendVars, tail, usage, newest, cut, indexRestarts>>

ReplayReadsAgain ==
  /\ replay.at = "second"
  /\ Unlocked
  /\ \/ IndexWorks /\ Snapshot
     \/ IndexFails /\ replay' = [at |-> "read", lines |-> <<>>]
  /\ OpenGate
  /\ UNCHANGED <<file, appendVars, tail, usage, newest, cut, indexRestarts>>

(* The lines are counted outside the lock, then `replay_done` is signaled. *)
ReplayCounts ==
  /\ replay.at = "read"
  /\ usage' = CountAll(replay.lines)
  /\ replay' = [at |-> "done", lines |-> <<>>]
  /\ UNCHANGED <<file, appendVars, tail, snapshotted, newest, cut, indexFaults, indexRestarts>>

-----------------------------------------------------------------------------
Startup == [at |-> "first", lines |-> <<>>]

(* The process dies: its buffer, its counts and a rewrite in progress go   *)
(* with it.                                                                *)
IndexRestart ==
  /\ indexRestarts < MaxIndexRestarts
  /\ indexRestarts' = indexRestarts + 1
  /\ open' = FALSE /\ buffer' = <<>> /\ bytes' = 0
  /\ cut' = (cut \/ (~Unlocked /\ file = <<>>))
  /\ tail' = NoTail
  /\ snapshotted' = FALSE /\ replay' = Startup
  /\ usage' = [l \in Lines |-> 0]
  /\ indexFaults' = 0
  /\ UNCHANGED <<file, todo, newest>>

IndexInit ==
  /\ \E n \in 0 .. Len(OldLines) : file = LastOf(OldLines, n)
  /\ newest = Nobody
  /\ todo = LiveRequests
  /\ open = FALSE /\ buffer = <<>> /\ bytes = 0
  /\ tail = NoTail
  /\ snapshotted = FALSE /\ replay = Startup
  /\ usage = [l \in Lines |-> 0]
  /\ cut = FALSE
  /\ indexFaults = 0 /\ indexRestarts = 0

Rewriting == RewriteEmpties \/ RewriteFails \/ RewriteFills
Replaying == ReplayReads \/ ReplayReadsAgain \/ ReplayCounts

IndexNext ==
  \/ \E r \in LiveRequests : AppendIndex(r)
  \/ Rewriting
  \/ Replaying
  \/ IndexRestart

(* The replay is a thread of its own; whoever has begun a rewrite ends it. *)
(* The lock is not fair, but only finitely many requests contend for it.   *)
IndexSpec ==
  /\ IndexInit /\ [][IndexNext]_indexVars
  /\ WF_indexVars(Rewriting) /\ WF_indexVars(Replaying)

-----------------------------------------------------------------------------
IndexTypeOK ==
  /\ file \in Seq(Lines) /\ buffer \in Seq(Lines)
  /\ todo \subseteq LiveRequests /\ {open, snapshotted, cut} \subseteq BOOLEAN
  /\ bytes \in Nat /\ (Unlocked \/ tail \in Seq(Lines)) /\ newest \in Lines \cup {Nobody}
  /\ replay.at \in {"first", "second", "read", "done"} /\ replay.lines \in Seq(Lines)
  /\ \A l \in Lines : usage[l] \in Nat

(* The lines any read of the window returns whole: all of a file within    *)
(* the cap. A crash or a fault between a flush past the cap and the        *)
(* rewrite leaves a longer file, whose head the replay does not see.       *)
Covered(s) == IF Len(s) <= Cap THEN Range(s) ELSE Range(LastOf(s, Cap - 1))

(* No line is ever counted twice. When the replay is done and nothing      *)
(* failed in this life of the process, every line within the window (of a  *)
(* file within the cap: every line) has been counted, by the replay or by  *)
(* the live path, whichever side of the snapshot it was written on. Older  *)
(* lines of a longer file may be missing, which the code warns of          *)
(* (src/src/debuglog.rs:1129-1141).                                        *)
CountedOnce ==
  /\ \A l \in Lines : usage[l] <= 1
  /\ replay.at = "done" /\ indexFaults = 0 => \A l \in Covered(file) : usage[l] = 1

(* The writer knows how long the file is, and a file it has open is within *)
(* the cap, so that a replay after a stop at such a moment reads all of it. *)
CapHolds ==
  open /\ indexFaults = 0 => bytes = Len(file) /\ bytes <= Cap

(* However appends, rewrites, failures and crashes interleave, the line    *)
(* flushed last is the last of the file (of what is about to be written    *)
(* back), but for a crash or a fault in the middle of a rewrite.           *)
TailSurvives ==
  LET held == IF Unlocked \/ file # <<>> THEN file ELSE tail
  IN  newest = Nobody \/ cut \/ (held # <<>> /\ Last(held) = newest)

(* The newest line is kept and the file is bounded, at once.               *)
IndexKeepsTail == CapHolds /\ TailSurvives

(* src/src/debuglog.rs:936: "the index is debugging evidence and a crash   *)
(* must not lose the tail".                                                *)
CrashKeepsTail ==
  [][indexRestarts' # indexRestarts /\ newest # Nobody /\ ~cut => file # <<>>]_indexVars

(* The readers of the usage counts, who wait for the replay, get an        *)
(* answer, whatever read fails.                                            *)
ReplayEnds == replay.at # "done" ~> replay.at = "done"
=============================================================================
