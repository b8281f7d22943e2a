------------------------------ MODULE TokenStore ------------------------------
(***************************************************************************)
(* The upstream credential of src/src/upstream/catalog.rs (`TokenStore`)   *)
(* and its use by concurrent requests in src/src/upstream/retry.rs: a      *)
(* request binds the current token, and when upstream calls it             *)
(* unauthenticated it repairs the store and tries once more, in the        *)
(* connect phase and again before the stream has content.                  *)
(*                                                                         *)
(* `repair` is not atomic: it looks at the store, waits for the reload     *)
(* lock, looks again, reads the credential source and only then takes the  *)
(* state lock to install what it read.  Config reloads install tokens at   *)
(* any of those moments.  A configuration without a source stands for one  *)
(* whose source returns nothing; the other reasons to send again are       *)
(* UpstreamStream's.                                                       *)
(***************************************************************************)
EXTENDS Naturals, Sequences

CONSTANTS
  Requests,   \* client requests in flight
  Tokens,     \* credentials
  NoToken,    \* what a credential source without a credential returns
  NoRequest,  \* the reload lock is free
  MaxChanges  \* bound: renewals by the CLI and config reloads together

ASSUME TokensAssumption == NoToken \notin Tokens /\ Tokens # {}
ASSUME RequestsAssumption == NoRequest \notin Requests
ASSUME BoundsAssumption == MaxChanges \in Nat

VARIABLES
  history,   \* the tokens installed so far, [token, by]; the last is current
  reload,    \* who holds the reload lock
  source,    \* what the credential source would return
  config,    \* the token in the configuration
  accepted,  \* the credential upstream accepts
  request,   \* what each request is doing
  changes    \* renewals and reloads so far

tokenVars == <<history, reload, source, config, accepted, request, changes>>

(* Generations count from zero: the n-th installed token has generation    *)
(* n - 1.                                                                  *)
generation == Len(history) - 1
token == history[Len(history)].token
Snapshot == [token |-> token, generation |-> generation]

(* `bound` is the generation the bound token was fetched under, `key` the  *)
(* generation the request hands to `repair`.                               *)
NewRequest == [at |-> "idle", phase |-> "connect", retried |-> FALSE, token |-> NoToken,
               bound |-> 0, key |-> 0, read |-> NoToken]

Repairing == {"checking", "locking", "reading", "installing"}

GoesOn(r, at) == request' = [request EXCEPT ![r].at = at]

TokenInit ==
  /\ \E t \in Tokens : /\ history = <<[token |-> t, by |-> "start"]>>
                       /\ config = t /\ source = t /\ accepted = t
  /\ request = [r \in Requests |-> NewRequest]
  /\ reload = NoRequest
  /\ changes = 0

-----------------------------------------------------------------------------
(* A request: bind, send, and what upstream answers *)

RequestLeavesRest == UNCHANGED <<history, reload, source, config, accepted, changes>>

Bind(r) ==
  /\ request[r].at = "idle"
  /\ request' = [request EXCEPT ![r].at = "sent", ![r].token = token,
                                ![r].bound = generation, ![r].key = generation]
  /\ RequestLeavesRest

(* The stream that opens takes its staleness key from the store.           *)
OpenStream(r) ==
  /\ request[r].at = "sent" /\ request[r].phase = "connect"
  /\ request[r].token = accepted
  /\ request' = [request EXCEPT ![r].at = "open", ![r].phase = "stream",
                                ![r].retried = FALSE, ![r].key = generation]
  /\ RequestLeavesRest

(* A resent stream is adopted with the key its repair left.                *)
Reopen(r) ==
  /\ request[r].at = "sent" /\ request[r].phase = "stream"
  /\ request[r].token = accepted
  /\ GoesOn(r, "open")
  /\ RequestLeavesRest

(* Upstream no longer accepts the token, in answer to the call or inside   *)
(* the stream; a request that has used its retry passes the failure on.    *)
Unauthenticated(r) ==
  /\ request[r].at \in {"sent", "open"}
  /\ request[r].token # accepted
  /\ GoesOn(r, IF request[r].retried THEN "failed" ELSE "checking")
  /\ RequestLeavesRest

StreamDrops(r) ==
  /\ request[r].at \in {"open", "failed"}
  /\ request' = [request EXCEPT ![r] = NewRequest]
  /\ RequestLeavesRest

-----------------------------------------------------------------------------
(* TokenStore::repair *)

Newer(r) == generation > request[r].key

(* The caller sends once more, bound to the snapshot it was given.         *)
RetriesWith(r, snapshot) ==
  request' = [request EXCEPT ![r].at = "sent", ![r].retried = TRUE, ![r].read = NoToken,
                             ![r].token = snapshot.token,
                             ![r].bound = snapshot.generation, ![r].key = snapshot.generation]

GivesUp(r) == request' = [request EXCEPT ![r].at = "failed", ![r].read = NoToken]

RepairLooks(r) ==
  /\ request[r].at = "checking"
  /\ IF Newer(r) THEN RetriesWith(r, Snapshot) ELSE GoesOn(r, "locking")
  /\ RequestLeavesRest

(* Mutant: no second look under the lock. *)
RepairLocksBlindly(r) ==
  /\ request[r].at = "locking" /\ reload = NoRequest
  /\ GoesOn(r, "reading") /\ reload' = r
  /\ UNCHANGED <<history, source, config, accepted, changes>>

(* The look under the lock; a newer generation frees it at once.           *)
RepairLocks(r) ==
  /\ request[r].at = "locking" /\ reload = NoRequest
  /\ IF Newer(r) THEN RetriesWith(r, Snapshot) /\ UNCHANGED reload
     ELSE GoesOn(r, "reading") /\ reload' = r
  /\ UNCHANGED <<history, source, config, accepted, changes>>

(* Mutant: an empty source is asked again until it has a token. *)
RepairReadsAgain(r) ==
  /\ request[r].at = "reading"
  /\ IF source = NoToken THEN GoesOn(r, "locking") /\ reload' = NoRequest
     ELSE /\ request' = [request EXCEPT ![r].at = "installing", ![r].read = source]
          /\ UNCHANGED reload
  /\ UNCHANGED <<history, source, config, accepted, changes>>

RepairReads(r) ==
  /\ request[r].at = "reading"
  /\ IF source = NoToken THEN GivesUp(r) /\ reload' = NoRequest
     ELSE /\ request' = [request EXCEPT ![r].at = "installing", ![r].read = source]
          /\ UNCHANGED reload
  /\ UNCHANGED <<history, source, config, accepted, changes>>

Installed(t, by) == Append(history, [token |-> t, by |-> by])

(* Mutant: the snapshot is taken before the generation moves. *)
RepairInstallsEarly(r) ==
  /\ request[r].at = "installing"
  /\ IF request[r].read = token THEN GivesUp(r) /\ UNCHANGED history
     ELSE /\ history' = Installed(request[r].read, "repair")
          /\ RetriesWith(r, [token |-> request[r].read, generation |-> generation])
  /\ reload' = NoRequest
  /\ UNCHANGED <<source, config, accepted, changes>>

(* The state lock is taken after the read: what the store holds by now is  *)
(* compared with what was read.                                            *)
RepairInstalls(r) ==
  /\ request[r].at = "installing"
  /\ IF request[r].read = token THEN GivesUp(r) /\ UNCHANGED history
     ELSE /\ history' = Installed(request[r].read, "repair")
          /\ RetriesWith(r, [token |-> request[r].read, generation |-> generation + 1])
  /\ reload' = NoRequest
  /\ UNCHANGED <<source, config, accepted, changes>>

-----------------------------------------------------------------------------
(* Config reloads, and the CLI that renews the credential *)

(* `apply_config` installs a token that differs from the configuration it  *)
(* replaces, and `set` one that differs from the store's.                  *)
ApplyConfig(t) ==
  /\ changes < MaxChanges /\ t # config
  /\ config' = t
  /\ history' = IF t = token THEN history ELSE Installed(t, "config")
  /\ changes' = changes + 1
  /\ UNCHANGED <<reload, source, accepted, request>>

(* The credentials file changes hands with the credential upstream         *)
(* accepts; it may also be unreadable for a while.                         *)
Renew(t) ==
  /\ changes < MaxChanges /\ t # accepted
  /\ source' = t /\ accepted' = t
  /\ changes' = changes + 1
  /\ UNCHANGED <<history, reload, config, request>>

Unreadable ==
  /\ changes < MaxChanges /\ source # NoToken
  /\ source' = NoToken
  /\ changes' = changes + 1
  /\ UNCHANGED <<history, reload, config, accepted, request>>

-----------------------------------------------------------------------------
Repair(r) == RepairLooks(r) \/ RepairLocks(r) \/ RepairReads(r) \/ RepairInstalls(r)

TokenNext ==
  \/ \E r \in Requests : \/ Bind(r) \/ OpenStream(r) \/ Reopen(r)
                         \/ Unauthenticated(r) \/ StreamDrops(r)
                         \/ Repair(r)
  \/ \E t \in Tokens : ApplyConfig(t) \/ Renew(t)
  \/ Unreadable

(* A repair is synchronous code: its thread runs on.                       *)
TokenSpec == TokenInit /\ [][TokenNext]_tokenVars /\ \A r \in Requests : WF_tokenVars(Repair(r))

-----------------------------------------------------------------------------
(* Every variable has its type.                                            *)
TokenTypeOK ==
  /\ history \in Seq([token : Tokens, by : {"start", "config", "repair"}])
  /\ history # <<>>
  /\ reload \in Requests \cup {NoRequest}
  /\ source \in Tokens \cup {NoToken}
  /\ config \in Tokens /\ accepted \in Tokens
  /\ request \in [Requests -> [at : {"idle", "sent", "open", "failed"} \cup Repairing,
                               phase : {"connect", "stream"}, retried : BOOLEAN,
                               token : Tokens \cup {NoToken}, bound : Nat, key : Nat,
                               read : Tokens \cup {NoToken}]]
  /\ changes \in 0..MaxChanges

(* catalog.rs:193-204: a request is bound to a token together with the     *)
(* generation under which that very token was installed.                   *)
BindingsAreInstalled ==
  \A r \in Requests : request[r].at # "idle" =>
    /\ request[r].bound + 1 \in DOMAIN history
    /\ history[request[r].bound + 1].token = request[r].token

(* catalog.rs:206-211, 268-270: at most one request works on the source,   *)
(* and it does so only while no other repair has installed anything newer  *)
(* than what upstream refused.                                             *)
ReadsConverge ==
  \A r \in Requests : request[r].at \in {"reading", "installing"} =>
    /\ reload = r
    /\ \A g \in (request[r].key + 1)..generation : history[g + 1].by = "config"

(* catalog.rs:193-204: a retry is bound to an installed token, of a newer  *)
(* generation than the refused send's, in whichever phase it was refused.  *)
RetryIsNewer ==
  [][\A r \in Requests :
       request[r].at \in Repairing /\ request'[r].at = "sent"
       => /\ request'[r].bound > request[r].bound
          /\ request'[r].bound + 1 \in DOMAIN history'
          /\ history'[request'[r].bound + 1].token = request'[r].token]_tokenVars

(* catalog.rs:252-256 against the other repairs: one that finds nothing    *)
(* newer has missed no other request's repair.                             *)
RepairMissesNoRepair ==
  [][\A r \in Requests :
       request[r].at \in Repairing /\ request'[r].at = "failed"
       => \A g \in (request[r].key + 1)..generation : history[g + 1].by = "config"]_tokenVars

(* catalog.rs:193-204, 252-256: what `repair` is there for: a retry has    *)
(* something newer to offer, and who gives up has missed no repair.        *)
RepairIsSound == RetryIsNewer /\ RepairMissesNoRepair

(* catalog.rs:252-256: `repair` "returns a newer-generation token when one *)
(* exists": with nothing returned, nothing newer is installed.             *)
RepairFindsNewer ==
  [][\A r \in Requests :
       request[r].at \in Repairing /\ request'[r].at = "failed"
       => generation <= request[r].key]_tokenVars

(* retry.rs:325: the key is the "Generation of `binding.token`".           *)
KeyIsBound == \A r \in Requests : request[r].at = "open" => request[r].key = request[r].bound

(* catalog.rs:262-292: every repair returns, however the source answers,   *)
(* unless other repairs overtake it for ever: the lock is always freed (it *)
(* is not a fair one).                                                     *)
RepairReturns ==
  \A r \in Requests :
    \/ []<>(request[r].at \notin Repairing)
    \/ \E s \in Requests \ {r} : []<>(reload = s) /\ []<>(reload # s)
=============================================================================
