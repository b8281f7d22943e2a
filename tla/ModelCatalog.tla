----------------------------- MODULE ModelCatalog -----------------------------
(***************************************************************************)
(* The model catalog of src/src/upstream/catalog.rs: a cache with a time   *)
(* to live in front of one upstream call, shared by every request and by   *)
(* `GET /v1/models`.  Concurrent misses converge on one fetch, which runs  *)
(* in a task of its own: the caller that started it may leave, the others  *)
(* wait for its notification and look again.  A failed fetch arms a        *)
(* cooldown.  A fetch may also die without a word, and its slot is then    *)
(* cleared by whoever waited for it.                                       *)
(***************************************************************************)
EXTENDS Naturals, FiniteSets

CONSTANTS
  Callers,    \* requests that want the catalog
  Ttl,        \* cache_ttl
  Backoff,    \* CATALOG_RETRY_BACKOFF, or what upstream asks for instead
  MaxCalls,   \* bound: calls of list_models in all
  MaxTime     \* bound: the clock stops here

ASSUME CallersAssumption == Callers # {} /\ IsFiniteSet(Callers)
ASSUME TimesAssumption == Ttl \in Nat \ {0} /\ Backoff \in Nat \ {0}
ASSUME CatalogBoundsAssumption == MaxCalls \in Nat /\ MaxTime \in Nat \ {0}

VARIABLES
  catalog,    \* the locked state: models, expiry, retry_until, fetch, fetch_seq
  task,       \* the fetch tasks, by their sequence number
  caller,     \* what each caller is doing
  calls,      \* calls so far
  now,        \* the catalog clock
  fetchedAt,  \* history: when each fetch committed its models
  failedAt    \* history: when the last fetch failed, if it did so since a success

catalogVars == <<catalog, task, caller, calls, now, fetchedAt, failedAt>>

(* A catalog is named by the fetch that brought it; a caller's `since` is  *)
(* the catalog that was cached when it called.                             *)
None == 0
Seqs == 1..MaxCalls
NewCatalog == [models |-> None, expiry |-> 0, retryUntil |-> 0, fetch |-> None, seq |-> 0]
NoTask == [at |-> "none", answer |-> "none", models |-> None]
Idle == [at |-> "idle", on |-> None, since |-> None, answer |-> "none", models |-> None]

CatalogInit ==
  /\ catalog = NewCatalog
  /\ task = [s \in Seqs |-> NoTask]
  /\ caller = [c \in Callers |-> Idle]
  /\ calls = 0 /\ now = 1
  /\ fetchedAt = [s \in Seqs |-> None] /\ failedAt = None

-----------------------------------------------------------------------------
(* list_models *)

Moves(c, at, seq) == caller' = [caller EXCEPT ![c].at = at, ![c].on = seq]

Answers(c, answer, models) ==
  caller' = [caller EXCEPT ![c].at = "answered", ![c].on = None,
                           ![c].answer = answer, ![c].models = models]

(* Also from `ensure_catalog`, before every upstream send. *)
Calls(c) ==
  /\ caller[c].at \in {"idle", "answered"} /\ calls < MaxCalls
  /\ calls' = calls + 1
  /\ caller' = [caller EXCEPT ![c] = [Idle EXCEPT !.at = "looking", !.since = catalog.models]]
  /\ UNCHANGED <<catalog, task, now, fetchedAt, failedAt>>

Fresh == catalog.models # None /\ now < catalog.expiry
CoolingDown == now < catalog.retryUntil

FromCache(c) == Answers(c, "models", catalog.models) /\ UNCHANGED <<catalog, task>>

AnswersInCooldown(c) ==
  IF catalog.models # None THEN FromCache(c)
  ELSE Answers(c, "error", None) /\ UNCHANGED <<catalog, task>>

Follows(c) == Moves(c, "waiting", catalog.fetch) /\ UNCHANGED <<catalog, task>>

Leads(c) ==
  LET s == catalog.seq + 1
  IN  /\ catalog' = [catalog EXCEPT !.seq = s, !.fetch = s]
      /\ task' = [task EXCEPT ![s].at = "running"]
      /\ Moves(c, "leading", s)

(* Mutant: an expired catalog is served while its refresh is under way. *)
LooksWhileRefreshing(c) ==
  /\ caller[c].at = "looking"
  /\ IF Fresh THEN FromCache(c)
     ELSE IF CoolingDown THEN AnswersInCooldown(c)
     ELSE IF catalog.fetch # None
          THEN IF catalog.models # None THEN FromCache(c) ELSE Follows(c)
     ELSE Leads(c)
  /\ UNCHANGED <<calls, now, fetchedAt, failedAt>>

(* One turn of the loop, under the catalog lock. *)
Looks(c) ==
  /\ caller[c].at = "looking"
  /\ IF Fresh THEN FromCache(c)
     ELSE IF CoolingDown THEN AnswersInCooldown(c)
     ELSE IF catalog.fetch # None THEN Follows(c)
     ELSE Leads(c)
  /\ UNCHANGED <<calls, now, fetchedAt, failedAt>>

(* Mutant: the dead slot is cleared whoever holds it by now. *)
WokenUnguarded(c) ==
  LET s == caller[c].on
  IN  /\ caller[c].at = "waiting"
      /\ \/ task[s].at = "over" /\ UNCHANGED catalog
         \/ task[s].at = "dead" /\ catalog' = [catalog EXCEPT !.fetch = None]
      /\ Moves(c, "looking", None)
      /\ UNCHANGED <<task, calls, now, fetchedAt, failedAt>>

(* Mutant: a dead slot is left to its leader. *)
WokenOnly(c) ==
  LET s == caller[c].on
  IN  /\ caller[c].at = "waiting" /\ task[s].at \in {"over", "dead"}
      /\ Moves(c, "looking", None)
      /\ UNCHANGED <<catalog, task, calls, now, fetchedAt, failedAt>>

(* A follower is woken by the notification, or by the channel closing on a *)
(* fetch that died; it clears that fetch's slot, and no later one's.       *)
Woken(c) ==
  LET s == caller[c].on
  IN  /\ caller[c].at = "waiting"
      /\ \/ task[s].at = "over" /\ UNCHANGED catalog
         \/ /\ task[s].at = "dead"
            /\ catalog' = IF catalog.fetch = s THEN [catalog EXCEPT !.fetch = None]
                          ELSE catalog
      /\ Moves(c, "looking", None)
      /\ UNCHANGED <<task, calls, now, fetchedAt, failedAt>>

(* The leader has the outcome itself, a stale catalog for a failed fetch   *)
(* included; from a fetch that died it has nothing.                        *)
LeaderReturns(c) ==
  LET s == caller[c].on
  IN  /\ caller[c].at = "leading" /\ task[s].at \in {"over", "dead"}
      /\ IF task[s].models = None
         THEN Answers(c, IF task[s].at = "dead" THEN "died" ELSE "error", None)
         ELSE Answers(c, "models", task[s].models)
      /\ UNCHANGED <<catalog, task, calls, now, fetchedAt, failedAt>>

(* A caller's token fires, or its future is dropped; the fetch goes on.    *)
Leaves(c) ==
  /\ caller[c].at \in {"waiting", "leading"}
  /\ Answers(c, "cancelled", None)
  /\ UNCHANGED <<catalog, task, calls, now, fetchedAt, failedAt>>

-----------------------------------------------------------------------------
(* run_catalog_fetch *)

Outcome(s, answer, models) ==
  task' = [task EXCEPT ![s] = [at |-> "committed", answer |-> answer, models |-> models]]

FetchLeavesRest == UNCHANGED <<caller, calls, now>>

(* The commit and the slot's release are one critical section. *)
Commits(s) ==
  /\ task[s].at = "running"
  /\ catalog' = [catalog EXCEPT !.models = s, !.expiry = now + Ttl,
                                !.retryUntil = 0, !.fetch = None]
  /\ Outcome(s, "models", s)
  /\ fetchedAt' = [fetchedAt EXCEPT ![s] = now] /\ failedAt' = None
  /\ FetchLeavesRest

(* A cancellation or a deadline of our own arms no cooldown. *)
Fails(s, cancelLike) ==
  /\ task[s].at = "running"
  /\ catalog' = IF cancelLike THEN [catalog EXCEPT !.fetch = None]
                ELSE [catalog EXCEPT !.retryUntil = now + Backoff, !.fetch = None]
  /\ Outcome(s, "failure", catalog.models)
  /\ failedAt' = IF cancelLike THEN failedAt ELSE now
  /\ UNCHANGED fetchedAt /\ FetchLeavesRest

(* Followers are told after the lock is given back. *)
Notifies(s) ==
  /\ task[s].at = "committed"
  /\ task' = [task EXCEPT ![s].at = "over"]
  /\ UNCHANGED <<catalog, fetchedAt, failedAt>> /\ FetchLeavesRest

(* The task panics before its commit: its sender is dropped with it.       *)
Dies(s) ==
  /\ task[s].at = "running"
  /\ task' = [task EXCEPT ![s].at = "dead"]
  /\ UNCHANGED <<catalog, fetchedAt, failedAt>> /\ FetchLeavesRest

Tick ==
  /\ now < MaxTime
  /\ now' = now + 1
  /\ UNCHANGED <<catalog, task, caller, calls, fetchedAt, failedAt>>

(* The calls are made and answered. *)
CatalogRests ==
  /\ calls = MaxCalls /\ \A c \in Callers : caller[c].at \in {"idle", "answered"}
  /\ UNCHANGED catalogVars

-----------------------------------------------------------------------------
Call(c) == Looks(c) \/ Woken(c) \/ LeaderReturns(c)
Fetch(s) == Commits(s) \/ (\E cancelLike \in BOOLEAN : Fails(s, cancelLike))
            \/ Notifies(s) \/ Dies(s)

CatalogNext ==
  \/ \E c \in Callers : Calls(c) \/ Call(c) \/ Leaves(c)
  \/ \E s \in Seqs : Fetch(s)
  \/ Tick
  \/ CatalogRests

(* Tasks are scheduled, and the unary transport's deadline ends a fetch.   *)
CatalogSpec ==
  /\ CatalogInit /\ [][CatalogNext]_catalogVars
  /\ \A c \in Callers : WF_catalogVars(Call(c))
  /\ \A s \in Seqs : WF_catalogVars(Fetch(s))

-----------------------------------------------------------------------------
(* Every variable has its type, and a caller is on a fetch exactly while   *)
(* it waits for it.                                                        *)
CatalogTypeOK ==
  /\ catalog \in [models : 0..MaxCalls, expiry : Nat, retryUntil : Nat,
                  fetch : 0..MaxCalls, seq : 0..MaxCalls]
  /\ task \in [Seqs -> [at : {"none", "running", "committed", "over", "dead"},
                        answer : {"none", "models", "failure"}, models : 0..MaxCalls]]
  /\ caller \in [Callers -> [at : {"idle", "looking", "waiting", "leading", "answered"},
                             on : 0..MaxCalls, since : 0..MaxCalls,
                             answer : {"none", "models", "error", "died", "cancelled"},
                             models : 0..MaxCalls]]
  /\ \A c \in Callers : caller[c].on # None <=> caller[c].at \in {"waiting", "leading"}
  /\ calls \in 0..MaxCalls /\ now \in 0..MaxTime
  /\ fetchedAt \in [Seqs -> 0..MaxTime] /\ failedAt \in 0..MaxTime

(* catalog.rs:744-746, 368-373, 775-776: concurrent misses converge on one *)
(* fetch, also after a fetch that died and among the followers it left     *)
(* behind; and upstream is not asked again before the cooldown of the last *)
(* failure is over, whoever calls, leaves or is woken.                     *)
FetchesAreRationed ==
  [][\A s \in Seqs : task[s].at = "none" /\ task'[s].at = "running"
       => /\ \A t \in Seqs \ {s} : task'[t].at # "running"
          /\ failedAt = None \/ now >= failedAt + Backoff]_catalogVars

(* catalog.rs:775-776, 386-390: the catalog is never lost again: a call is *)
(* answered with an error only when none was cached as it began.           *)
ErrorsAreColdOnly ==
  \A c \in Callers : caller[c].at = "answered" /\ caller[c].answer = "error"
                     => caller[c].since = None

(* catalog.rs:1104-1105: commits replace older catalogs only, and no call  *)
(* is answered with an older one than it could have had at once.           *)
CatalogDoesNotAge ==
  [][/\ catalog'.models >= catalog.models
     /\ \A c \in Callers : caller[c].at # "answered" /\ caller'[c].answer = "models"
                            => caller'[c].models >= caller[c].since]_catalogVars

(* catalog.rs:744-749: a catalog past its time to live is handed out only  *)
(* after a failed refresh.                                                 *)
StaleOnlyAfterFailure ==
  [][\A c \in Callers :
       caller[c].at = "looking" /\ caller'[c].answer = "models"
       => \/ now < fetchedAt[caller'[c].models] + Ttl
          \/ failedAt >= fetchedAt[caller'[c].models] + Ttl]_catalogVars

(* catalog.rs:368-371: every call returns, instead of hanging on a fetch   *)
(* that is over or dead.                                                   *)
CallsReturn ==
  \A c \in Callers : caller[c].at = "looking" ~> caller[c].at = "answered"

(* catalog.rs:744-749: the rules of what a call is answered with, together:*)
(* an error only without any catalog, a stale one only after a failure,    *)
(* and never one older than it could have had at once.                     *)
AnswersAreTheBest == []ErrorsAreColdOnly /\ StaleOnlyAfterFailure /\ CatalogDoesNotAge
=============================================================================
