------------------------------ MODULE LogDirs ------------------------------
(***************************************************************************)
(* The request directories under the log root: `start` names and makes     *)
(* them (src/src/debuglog.rs), the background cleaner strips and removes   *)
(* them (src/src/debuglog/cleaner.rs), and a restart forgets which of them *)
(* were being written.                                                     *)
(*                                                                         *)
(* A name is reserved in the active set under the manager's mutex, the     *)
(* directory is made outside it. A retention pass copies the active set    *)
(* once, then walks a live directory tree while requests start and finish: *)
(* each entry it looks at, and each eviction, is a step of its own.        *)
(*                                                                         *)
(* A directory is the hour it is named for and a suffix; what matters of   *)
(* its contents is whether it has bulky payload and an error.json.         *)
(***************************************************************************)
EXTENDS Integers, FiniteSets, FiniteSetsExt, Functions

CONSTANTS
  Requests,
  Policies,      \* the retention policies a reload may choose from
  OldDirs,       \* names a previous process may have left
  OldEntries,    \* and what may be in them
  HoursPerDay,   \* 24; smaller in an instance
  StartTime, MaxTime,   \* the hours modelled
  MaxSuffix,     \* bound: suffixes of one hour's names
  MaxRestarts,   \* bound: crashes of the process
  MaxIoFaults    \* bound: failed directory operations

Names == [at : 0 .. MaxTime, n : 1 .. MaxSuffix]
NoDir == [at |-> 0, n |-> 0]

ASSUME TimeAssumption ==
  /\ {StartTime, MaxTime, HoursPerDay} \subseteq Nat /\ StartTime <= MaxTime
  /\ {MaxSuffix, MaxRestarts, MaxIoFaults} \subseteq Nat
ASSUME NameAssumption ==
  /\ IsFiniteSet(Requests)
  /\ OldDirs \subseteq [at : 0 .. StartTime, n : 1 .. MaxSuffix]
  /\ MaxSuffix > Cardinality(OldDirs) + Cardinality(Requests)
ASSUME EntryAssumption == OldEntries \subseteq [payload : BOOLEAN, error : BOOLEAN]
ASSUME PolicyAssumption ==
  Policies # {} /\ Policies \subseteq [days : Nat, payload : Nat, max : Nat, keep : Nat]

VARIABLES
  now,
  disk,      \* the directories there are: name -> [payload, error]
  active,    \* DirState.active: name -> request
  taken,     \* DirState.taken: leftovers met by mkdir
  req,       \* each request: where it stands, its directory
  pass,      \* the cleaner's retention pass
  restarts, faults

vars == <<now, disk, active, taken, req, pass, restarts, faults>>

Entry == [payload : BOOLEAN, error : BOOLEAN]
Fresh == [payload |-> FALSE, error |-> FALSE]

With(f, x, v) == [y \in DOMAIN f \cup {x} |-> IF y = x THEN v ELSE f[y]]
Without(f, x) == Restrict(f, DOMAIN f \ {x})

Older(d, e) == d.at < e.at \/ (d.at = e.at /\ d.n < e.n)
Oldest(ds) == CHOOSE d \in ds : \A e \in ds \ {d} : Older(d, e)

Idle == [at |-> "idle", kept |-> {}, policy |-> CHOOSE p \in Policies : TRUE, now |-> 0,
         listed |-> {}, seen |-> <<>>, queue |-> {}, gone |-> {}, total |-> 0, spare |-> 0]

Fails == faults < MaxIoFaults /\ faults' = faults + 1
Works == UNCHANGED faults

-----------------------------------------------------------------------------
(* Requests *)

Free(d) == d \notin DOMAIN active /\ d \notin taken

(* The next free name of the hour after suffix n.                          *)
NextFree(at, n) ==
  LET free == {k \in n + 1 .. MaxSuffix : Free([at |-> at, n |-> k])}
  IN  [at |-> at, n |-> Min(free)]

(* `start_inner` under the mutex.                                          *)
Reserve(r) ==
  /\ req[r].at = "idle"
  /\ LET d == NextFree(now, 0)
     IN  /\ req' = [req EXCEPT ![r] = [at |-> "named", dir |-> d]]
         /\ active' = With(active, d, r)
  /\ UNCHANGED <<now, disk, taken, pass, restarts, faults>>

(* Mutant: a directory that exists already will do.                        *)
MakesIfMissing(r) ==
  LET d == req[r].dir
  IN  /\ req[r].at = "named"
      /\ disk' = IF d \in DOMAIN disk THEN disk ELSE With(disk, d, Fresh)
      /\ req' = [req EXCEPT ![r].at = "running"]
      /\ UNCHANGED <<now, active, taken, pass, restarts, faults>>

(* `mkdir_request_dir`, then the writer's thread and the entry meta.       *)
Makes(r) ==
  LET d == req[r].dir
  IN  /\ req[r].at = "named"
      /\ d \notin DOMAIN disk
      /\ disk' = With(disk, d, Fresh)
      /\ req' = [req EXCEPT ![r].at = "running"]
      /\ UNCHANGED <<now, active, taken, pass, restarts, faults>>

(* A leftover of that name: it is remembered and the next name tried.      *)
Collides(r) ==
  LET d == req[r].dir
  IN  /\ req[r].at = "named"
      /\ d \in DOMAIN disk
      /\ taken' = taken \cup {d}
      /\ LET e == NextFree(d.at, d.n)
         IN  /\ req' = [req EXCEPT ![r].dir = e]
             /\ active' = With(Without(active, d), e, r)
      /\ UNCHANGED <<now, disk, pass, restarts, faults>>

(* Mkdir fails, or the writer's thread does not start: no log.             *)
GoesUnlogged(r) ==
  LET d == req[r].dir
  IN  /\ req[r].at = "named"
      /\ d \notin DOMAIN disk
      /\ Fails
      /\ disk' \in {disk, With(disk, d, Fresh)}
      /\ active' = Without(active, d)
      /\ req' = [req EXCEPT ![r].at = "unlogged"]
      /\ UNCHANGED <<now, taken, pass, restarts>>

(* The request's own files, written if the directory is still there.       *)
Writes(r) ==
  LET d == req[r].dir
  IN  /\ req[r].at = "running"
      /\ d \in DOMAIN disk /\ disk[d] = Fresh
      /\ \E failed \in BOOLEAN : disk' = [disk EXCEPT ![d] = [payload |-> TRUE, error |-> failed]]
      /\ UNCHANGED <<now, active, taken, req, pass, restarts, faults>>

(* `release_dir`, the last step of `complete`.                             *)
Release(r) ==
  /\ req[r].at = "running"
  /\ req' = [req EXCEPT ![r].at = "done"]
  /\ active' = Without(active, req[r].dir)
  /\ UNCHANGED <<now, disk, taken, pass, restarts, faults>>

-----------------------------------------------------------------------------
(* The cleaner *)

(* A tick of the cleaner's timer: the active set is copied, then the       *)
(* policy, which reloads may have set to any, and the root is listed.      *)
PassBegins ==
  /\ pass.at = "idle"
  /\ \E p \in Policies :
       pass' = [Idle EXCEPT !.at = "walking", !.kept = DOMAIN active,
                            !.policy = p, !.now = now, !.listed = DOMAIN disk]
  /\ UNCHANGED <<now, disk, active, taken, req, restarts, faults>>

Size(e) == IF e.payload THEN 2 ELSE 1

(* The sizes of some of what the pass saw: one each, one more for payload. *)
SizeOf(ds) == Cardinality(ds) + Cardinality({d \in ds : pass.seen[d].payload})

(* The cutoffs. `policy.days` goes through `from_hours`, as                *)
(* `policy.payload_hours` does.                                            *)
AgedOut(d, p) == p.days > 0 /\ d.at < pass.now - p.days
PayloadAged(d, p) == p.payload > 0 /\ d.at < pass.now - p.payload

(* Mutant: the directories being written are looked at too.                *)
NotLookedAt(d) == d \in DOMAIN disk /\ d \notin DOMAIN pass.seen

(* Entries of the walk. One made since the root was listed may be met too. *)
Candidate(d) == d \in DOMAIN disk /\ d \notin DOMAIN pass.seen /\ d \notin pass.kept

Stripped(d) == IF PayloadAged(d, pass.policy) THEN [disk[d] EXCEPT !.payload = FALSE]
                                              ELSE disk[d]

(* One entry: strip, then remove or take into account. A failed removal    *)
(* counts the directory as any other. Each is judged on its own, so that   *)
(* one order of the walk stands for all.                                   *)
Walk(d) ==
  /\ pass.at = "walking"
  /\ Candidate(d)
  /\ \A e \in DOMAIN disk : Candidate(e) /\ e # d => Older(d, e)
  /\ \/ /\ AgedOut(d, pass.policy)
        /\ disk' = Without(disk, d)
        /\ Works
        /\ UNCHANGED pass
     \/ /\ IF AgedOut(d, pass.policy) THEN Fails ELSE Works
        /\ disk' = [disk EXCEPT ![d] = Stripped(d)]
        /\ pass' = [pass EXCEPT !.seen = With(@, d, Stripped(d))]
  /\ UNCHANGED <<now, active, taken, req, restarts>>

Walked == pass.listed \cap DOMAIN disk \subseteq DOMAIN pass.seen \cup pass.kept

ErrorsSeen == {d \in DOMAIN pass.seen : pass.seen[d].error /\ pass.policy.keep > 0}

TotalSeen == SizeOf(DOMAIN pass.seen)

(* Mutant: one error directory more than the surplus may go.               *)
SpareOneMore == Cardinality(ErrorsSeen) - pass.policy.keep + 1

Spare == Cardinality(ErrorsSeen) - pass.policy.keep

WalkEnds ==
  /\ pass.at = "walking"
  /\ Walked
  /\ pass' = IF pass.policy.max > 0 /\ TotalSeen > pass.policy.max
             THEN [pass EXCEPT !.at = "evicting", !.queue = DOMAIN pass.seen,
                               !.total = TotalSeen, !.spare = Spare]
             ELSE Idle
  /\ UNCHANGED <<now, disk, active, taken, req, restarts, faults>>

(* One directory of the sorted list: skipped when protected, else removed. *)
(* A name has the second in it: none is removed and given again in one.    *)
Evict ==
  /\ pass.at = "evicting"
  /\ pass.total > pass.policy.max /\ pass.queue # {}
  /\ LET d == Oldest(pass.queue)
         rest == pass.queue \ {d}
         spare == IF d \in ErrorsSeen THEN pass.spare - 1 ELSE pass.spare
     IN  IF d \in ErrorsSeen /\ pass.spare <= 0
         THEN /\ pass' = [pass EXCEPT !.queue = rest]
              /\ UNCHANGED <<disk, faults>>
         ELSE \/ /\ d.at < now
                 /\ disk' = Without(disk, d)
                 /\ pass' = [pass EXCEPT !.queue = rest, !.spare = spare, !.gone = @ \cup {d},
                                         !.total = @ - Size(pass.seen[d])]
                 /\ Works
              \/ /\ Fails
                 /\ pass' = [pass EXCEPT !.queue = rest, !.spare = spare]
                 /\ UNCHANGED disk
  /\ UNCHANGED <<now, active, taken, req, restarts>>

PassEnds ==
  /\ pass.at = "evicting"
  /\ pass.total <= pass.policy.max \/ pass.queue = {}
  /\ pass' = Idle
  /\ UNCHANGED <<now, disk, active, taken, req, restarts, faults>>

-----------------------------------------------------------------------------
(* `start` reserves and makes in one go, in far less than an hour: a name  *)
(* still to be made is of this hour or the one just past.                  *)
Prompt == \A r \in Requests : req[r].at = "named" => req[r].dir.at = now

Tick ==
  /\ now < MaxTime
  /\ Prompt
  /\ now' = now + 1
  /\ UNCHANGED <<disk, active, taken, req, pass, restarts, faults>>

(* The process dies with its requests; the next one knows nothing of them. *)
Restart ==
  /\ restarts < MaxRestarts
  /\ restarts' = restarts + 1
  /\ active' = <<>> /\ taken' = {}
  /\ req' = [r \in Requests |-> IF req[r].at \in {"named", "running"}
                                THEN [req[r] EXCEPT !.at = "done"] ELSE req[r]]
  /\ pass' = Idle
  /\ UNCHANGED <<now, disk, faults>>

Init ==
  /\ now = StartTime
  /\ \E left \in SUBSET OldDirs : disk \in [left -> OldEntries]
  /\ active = <<>> /\ taken = {}
  /\ req = [r \in Requests |-> [at |-> "idle", dir |-> NoDir]]
  /\ pass = Idle
  /\ restarts = 0 /\ faults = 0

Cleaning == PassBegins \/ (\E d \in DOMAIN disk : Walk(d)) \/ WalkEnds \/ Evict \/ PassEnds

Next ==
  \/ \E r \in Requests : \/ Reserve(r) \/ Makes(r) \/ Collides(r) \/ GoesUnlogged(r)
                         \/ Writes(r) \/ Release(r)
  \/ Cleaning
  \/ Tick
  \/ Restart

Spec == Init /\ [][Next]_vars

-----------------------------------------------------------------------------
Types ==
  /\ now \in StartTime .. MaxTime /\ restarts \in Nat /\ faults \in Nat
  /\ DOMAIN disk \subseteq Names /\ \A d \in DOMAIN disk : disk[d] \in Entry
  /\ DOMAIN active \subseteq Names /\ taken \subseteq Names
  /\ req \in [Requests -> [at : {"idle", "named", "running", "done", "unlogged"},
                           dir : Names \cup {NoDir}]]

PassTypes ==
  /\ DOMAIN pass = {"at", "kept", "policy", "now", "listed", "seen", "queue", "gone", "total",
                    "spare"}
  /\ pass.at \in {"idle", "walking", "evicting"}
  /\ pass.policy \in Policies /\ pass.now \in Nat
  /\ DOMAIN pass.seen \subseteq Names /\ \A d \in DOMAIN pass.seen : pass.seen[d] \in Entry
  /\ pass.queue \subseteq DOMAIN pass.seen /\ pass.gone \subseteq DOMAIN pass.seen
  /\ pass.total \in Int /\ pass.spare \in Int

TypeOK == Types /\ PassTypes

Running(r) == req[r].at = "running"
Left == DOMAIN pass.seen \ pass.gone
Gone(d) == d \in DOMAIN disk /\ d \notin DOMAIN disk'
Touched(d) == Gone(d) \/ (d \in DOMAIN disk /\ disk[d].payload /\ ~disk'[d].payload)

(* No two requests of one process have the same directory, and from its    *)
(* reservation to its release a directory is in the active set under its   *)
(* own request, through collisions with leftovers and concurrent starts.   *)
DirsAreOwn ==
  \A r \in Requests : req[r].at \in {"named", "running"} =>
    /\ req[r].dir \in DOMAIN active /\ active[req[r].dir] = r
    /\ \A s \in Requests \ {r} : req[s].at \in {"named", "running"} => req[s].dir # req[r].dir

(* A directory is made for its request: `start` never adopts a leftover,   *)
(* whose files would pass for those of the request.                        *)
NoneAdopted ==
  [][\A r \in Requests : ~Running(r) /\ req'[r].at = "running" =>
       req[r].dir \notin DOMAIN disk /\ disk'[req[r].dir] = Fresh]_vars

(* A request's directory is its own, from its reservation to its release,  *)
(* and was made for it.                                                    *)
DirsAreExclusive == []DirsAreOwn /\ NoneAdopted

(* A directory still being written is neither stripped nor removed, but    *)
(* for one case: it was named after the pass copied the active set, and    *)
(* the cap has already cost every unprotected older directory the pass saw.*)
(* (Had `start` an hour to lose between its two steps, a name given after  *)
(* the copy could be old enough to be aged out: see Prompt.)               *)
RunningIsKept ==
  [][\A r \in Requests : Running(r) /\ Touched(req[r].dir) =>
       LET d == req[r].dir
       IN  /\ Gone(d) /\ pass.at = "evicting" /\ d \notin pass.kept
           /\ \A e \in Left : Older(e, d) =>
                e \in ErrorsSeen \/ faults > 0]_vars

(* Eviction never removes one of the newest `keep_error_dirs` failure      *)
(* scenes that the pass saw.                                               *)
NewestErrorsKept ==
  [][\A d \in DOMAIN disk : pass.at = "evicting" /\ Gone(d) /\ d \in ErrorsSeen =>
       Cardinality({e \in ErrorsSeen : Older(d, e)}) >= pass.policy.keep]_vars

(* When an eviction ends and nothing failed, what the pass saw fits the    *)
(* cap again or only protected failure scenes are left of it; and no more  *)
(* was removed than that took.                                             *)
EvictsToTheCap ==
  [][pass.at = "evicting" /\ restarts' = restarts =>
       /\ pass'.at = "idle" /\ faults = 0 =>
            SizeOf(Left) <= pass.policy.max \/ Left \subseteq ErrorsSeen
       /\ (\E d \in Left : Gone(d)) => SizeOf(Left) > pass.policy.max]_vars

(* Eviction takes what the cap demands, no more, and spares the newest     *)
(* failure scenes.                                                         *)
EvictionIsFair == NewestErrorsKept /\ EvictsToTheCap

(* README.md: `retention_days` is the number of days for which a request   *)
(* directory is kept.                                                      *)
KeptForDays ==
  [][\A d \in DOMAIN disk : pass.at = "walking" /\ Gone(d) =>
       now - d.at >= pass.policy.days * HoursPerDay]_vars
=============================================================================
