----------------------------- MODULE ServerProofs -----------------------------
(***************************************************************************)
(* What holds, for every value of their constants, of the server and of    *)
(* the two stores that its requests share.                                 *)
(*                                                                         *)
(* The token store. Three facts carry the argument. A token once installed *)
(* stays the token of its generation (Installs). The key a request hands   *)
(* to `repair` is never behind the generation it is bound to nor ahead of  *)
(* the store's (KeysInRange), so that whatever `repair` hands out is newer *)
(* than what was refused. And only the holder of the reload lock installs  *)
(* for a repair, so that what was not newer under the lock can have been   *)
(* made newer by a config reload alone (ReadsConverge).                    *)
(*                                                                         *)
(* The model catalog. The slot is the newest fetch's (SlotInv), a caller   *)
(* never sees an older catalog than when it began (AnswerInv), and a       *)
(* failure on record is later than the catalog's time to live (StaleInv).  *)
(*                                                                         *)
(* The completion server, for every set of requests and every concurrency  *)
(* limit: each turn and each task accounts for what it holds (IInv).       *)
(***************************************************************************)
EXTENDS TokenStore, ModelCatalog, CompletionServer, FiniteSetTheorems, TLAPS

-----------------------------------------------------------------------------
(* The token store *)

Record == [at : {"idle", "sent", "open", "failed"} \cup Repairing,
           phase : {"connect", "stream"}, retried : BOOLEAN,
           token : Tokens \cup {NoToken}, bound : Nat, key : Nat,
           read : Tokens \cup {NoToken}]
Install == [token : Tokens, by : {"start", "config", "repair"}]

KeysInRange ==
  \A r \in Requests : request[r].at # "idle" =>
    request[r].bound <= request[r].key /\ request[r].key <= generation

ReadIsToken == \A r \in Requests : request[r].at = "installing" => request[r].read \in Tokens

StoreInv == TokenTypeOK /\ BindingsAreInstalled /\ KeysInRange /\ ReadIsToken /\ ReadsConverge

-----------------------------------------------------------------------------
(* A step that installs a token adds a generation and keeps the others.    *)
LEMMA Installs ==
  ASSUME NEW t \in Tokens, NEW by \in {"config", "repair"},
         history \in Seq(Install), history # <<>>,
         history' = Installed(t, by)
  PROVE  /\ history' \in Seq(Install) /\ history' # <<>>
         /\ Len(history') = Len(history) + 1
         /\ generation' = generation + 1
         /\ DOMAIN history \subseteq DOMAIN history'
         /\ \A n \in DOMAIN history : history'[n] = history[n]
         /\ history'[Len(history) + 1] = [token |-> t, by |-> by]
BY DEF Installed, generation, Install

LEMMA StoreFacts ==
  ASSUME TokenTypeOK
  PROVE  /\ history \in Seq(Install) /\ history # <<>>
         /\ Len(history) \in Nat \ {0} /\ generation \in Nat
         /\ generation + 1 = Len(history) /\ generation + 1 \in DOMAIN history
         /\ token \in Tokens /\ token = history[generation + 1].token
<1>1. history \in Seq(Install) /\ history # <<>>
  BY DEF TokenTypeOK, Install
<1>2. Len(history) \in Nat \ {0}
  BY <1>1
<1>3. generation + 1 = Len(history) /\ generation \in Nat /\ generation + 1 \in DOMAIN history
  BY <1>1, <1>2 DEF generation
<1>4. history[Len(history)] \in Install
  BY <1>1, <1>2
<1> QED BY <1>1, <1>2, <1>3, <1>4 DEF token, Install

LEMMA InitOK == TokenInit => StoreInv
<1> SUFFICES ASSUME TokenInit PROVE StoreInv
  OBVIOUS
<1>1. PICK t \in Tokens : /\ history = <<[token |-> t, by |-> "start"]>>
                          /\ config = t /\ source = t /\ accepted = t
  BY DEF TokenInit
<1>2. \A r \in Requests : request[r] = NewRequest
  BY DEF TokenInit
<1>3. TokenTypeOK
  BY <1>1, <1>2, BoundsAssumption DEF TokenInit, TokenTypeOK, NewRequest, Repairing
<1> QED BY <1>2, <1>3, RequestsAssumption
        DEF StoreInv, BindingsAreInstalled, KeysInRange, ReadIsToken, ReadsConverge, NewRequest

-----------------------------------------------------------------------------
(* A step of one request that installs nothing: what has to hold of the    *)
(* record it leaves.                                                       *)
Sound(q, r) ==
  /\ q \in Record
  /\ q.at # "idle" => /\ q.bound + 1 \in DOMAIN history
                      /\ history[q.bound + 1].token = q.token
                      /\ q.bound <= q.key /\ q.key <= generation
  /\ q.at = "installing" => q.read \in Tokens

LEMMA RequestIsSound ==
  ASSUME StoreInv, NEW r \in Requests
  PROVE  Sound(request[r], r)
BY DEF StoreInv, TokenTypeOK, Sound, Record, BindingsAreInstalled, KeysInRange, ReadIsToken

LEMMA RequestStep ==
  ASSUME StoreInv, NEW r \in Requests, NEW q,
         request' = [request EXCEPT ![r] = q], Sound(q, r),
         UNCHANGED <<history, source, config, accepted, changes>>,
         \/ /\ q.at \in {"reading", "installing"}
            /\ reload \in {r, NoRequest} /\ reload' = r
            /\ \A g \in (q.key + 1)..generation : history[g + 1].by = "config"
         \/ /\ q.at \notin {"reading", "installing"}
            /\ reload' = reload \/ (reload = r /\ reload' = NoRequest)
  PROVE  StoreInv'
<1>1. TokenTypeOK'
  BY DEF StoreInv, TokenTypeOK, Sound, Record
<1>2. request'[r] = q /\ \A s \in Requests \ {r} : request'[s] = request[s]
  BY DEF StoreInv, TokenTypeOK
<1>3. generation' = generation
  BY DEF generation
<1>4. BindingsAreInstalled'
  BY <1>2 DEF StoreInv, BindingsAreInstalled, Sound
<1>5. KeysInRange'
  BY <1>2, <1>3 DEF StoreInv, KeysInRange, Sound
<1>6. ReadIsToken'
  BY <1>2 DEF StoreInv, ReadIsToken, Sound
<1>7. ReadsConverge'
  <2> SUFFICES ASSUME NEW s \in Requests, request'[s].at \in {"reading", "installing"}
               PROVE  /\ reload' = s
                      /\ \A g \in (request'[s].key + 1)..generation : history[g + 1].by = "config"
    BY <1>3 DEF ReadsConverge
  <2>1. CASE s = r
    BY <2>1, <1>2
  <2>2. CASE s # r
    <3>1. reload = s /\ \A g \in (request[s].key + 1)..generation : history[g + 1].by = "config"
      BY <2>2, <1>2 DEF StoreInv, ReadsConverge
    <3> QED BY <3>1, <2>2, <1>2, RequestsAssumption
  <2> QED BY <2>1, <2>2
<1> QED BY <1>1, <1>4, <1>5, <1>6, <1>7 DEF StoreInv

-----------------------------------------------------------------------------
(* The record of a request sent again, bound to token t of generation g.   *)
Settled(q) == [q EXCEPT !.at = "sent", !.retried = TRUE, !.read = NoToken]
Rebound(q, t, g) == [q EXCEPT !.token = t, !.bound = g, !.key = g]

LEMMA SettledIsRecord ==
  ASSUME NEW q \in Record
  PROVE  Settled(q) \in Record /\ Settled(q).at = "sent"
BY DEF Record, Settled

LEMMA ReboundIsRecord ==
  ASSUME NEW q \in Record, q.at = "sent", NEW t \in Tokens, NEW g \in Nat
  PROVE  /\ Rebound(q, t, g) \in Record /\ Rebound(q, t, g).at = "sent"
         /\ Rebound(q, t, g).token = t
         /\ Rebound(q, t, g).bound = g /\ Rebound(q, t, g).key = g
BY DEF Record, Rebound

LEMMA RetryIsRecord ==
  ASSUME NEW q \in Record, NEW t \in Tokens, NEW g \in Nat
  PROVE  LET p == Rebound(Settled(q), t, g)
         IN  /\ p \in Record /\ p.at = "sent"
             /\ p.token = t /\ p.bound = g /\ p.key = g
BY SettledIsRecord, ReboundIsRecord

-----------------------------------------------------------------------------
(* A step that installs a token changes no request but the one whose       *)
(* repair it is, and that one holds the lock.                              *)
LEMMA InstallStep ==
  ASSUME StoreInv, NEW t \in Tokens, t # token,
         history' = Installed(t, "config"), config' = t,
         changes' \in 0..MaxChanges,
         UNCHANGED <<reload, source, accepted, request>>
  PROVE  StoreInv'
<1>1. /\ history' \in Seq(Install) /\ history' # <<>>
      /\ generation' = generation + 1
      /\ DOMAIN history \subseteq DOMAIN history'
      /\ \A n \in DOMAIN history : history'[n] = history[n]
      /\ history'[Len(history) + 1] = [token |-> t, by |-> "config"]
  BY Installs DEF StoreInv, TokenTypeOK, Install
<1>2. generation \in Nat /\ generation + 1 = Len(history) /\ history \in Seq(Install)
  BY StoreFacts DEF StoreInv
<1>3. TokenTypeOK'
  BY <1>1 DEF StoreInv, TokenTypeOK, Install
<1>4. BindingsAreInstalled'
  BY <1>1 DEF StoreInv, BindingsAreInstalled
<1>5. KeysInRange'
  <2> SUFFICES ASSUME NEW r \in Requests, request[r].at # "idle"
               PROVE  request[r].bound <= request[r].key /\ request[r].key <= generation + 1
    BY <1>1 DEF KeysInRange
  <2>1. request[r].bound <= request[r].key /\ request[r].key <= generation
    BY DEF StoreInv, KeysInRange
  <2>2. request[r].key \in Nat
    BY DEF StoreInv, TokenTypeOK
  <2> QED BY <2>1, <2>2, <1>2
<1>6. ReadIsToken'
  BY DEF StoreInv, ReadIsToken
<1>7. ReadsConverge'
  <2> SUFFICES ASSUME NEW r \in Requests, request[r].at \in {"reading", "installing"},
                      NEW g \in (request[r].key + 1)..(generation + 1)
               PROVE  reload = r /\ history'[g + 1].by = "config"
    BY <1>1 DEF ReadsConverge, StoreInv
  <2>1. /\ reload = r
        /\ \A k \in (request[r].key + 1)..generation : history[k + 1].by = "config"
    BY DEF StoreInv, ReadsConverge
  <2>2. request[r].key \in Nat /\ g \in Nat
    BY DEF StoreInv, TokenTypeOK
  <2>3. CASE g <= generation
    <3>1. g + 1 \in DOMAIN history
      BY <1>2, <2>2, <2>3
    <3> QED BY <1>1, <2>1, <2>2, <2>3, <3>1
  <2>4. CASE g = generation + 1
    <3>1. history'[g + 1] = [token |-> t, by |-> "config"]
      BY <2>4, <1>1, <1>2
    <3> QED BY <2>1, <3>1
  <2> QED BY <2>2, <2>3, <2>4, <1>2
<1> QED BY <1>3, <1>4, <1>5, <1>6, <1>7 DEF StoreInv

LEMMA RepairInstallStep ==
  ASSUME StoreInv, NEW r \in Requests, request[r].at = "installing", request[r].read # token,
         RepairInstalls(r)
  PROVE  StoreInv'
<1> DEFINE t == request[r].read
           q == Rebound(Settled(request[r]), t, generation + 1)
<1>1. t \in Tokens /\ reload = r
  BY DEF StoreInv, ReadIsToken, ReadsConverge
<1>2. /\ history' = Installed(t, "repair") /\ request' = [request EXCEPT ![r] = q]
      /\ reload' = NoRequest /\ UNCHANGED <<source, config, accepted, changes>>
  BY DEF RepairInstalls, RetriesWith, StoreInv, TokenTypeOK, Rebound, Settled
<1>3. /\ history' \in Seq(Install) /\ history' # <<>>
      /\ generation' = generation + 1 /\ Len(history') = Len(history) + 1
      /\ DOMAIN history \subseteq DOMAIN history'
      /\ \A n \in DOMAIN history : history'[n] = history[n]
      /\ history'[Len(history) + 1] = [token |-> t, by |-> "repair"]
  BY <1>1, <1>2, Installs DEF StoreInv, TokenTypeOK, Install
<1>4. generation \in Nat /\ generation + 1 = Len(history) /\ history \in Seq(Install)
  BY StoreFacts DEF StoreInv
<1>5. request[r] \in Record
  BY DEF StoreInv, TokenTypeOK, Record
<1>6. /\ request'[r] = q
      /\ \A s \in Requests \ {r} : request'[s] = request[s]
  BY <1>2 DEF StoreInv, TokenTypeOK
<1>7. /\ q \in Record /\ q.at = "sent"
      /\ q.bound = generation + 1 /\ q.key = generation + 1 /\ q.token = t
  BY <1>1, <1>4, <1>5, RetryIsRecord
<1> HIDE DEF q
<1>8. TokenTypeOK'
  BY <1>7, <1>2, <1>3 DEF StoreInv, TokenTypeOK, Install, Record
<1>9. BindingsAreInstalled'
  <2> SUFFICES ASSUME NEW s \in Requests, request'[s].at # "idle"
               PROVE  /\ request'[s].bound + 1 \in DOMAIN history'
                      /\ history'[request'[s].bound + 1].token = request'[s].token
    BY DEF BindingsAreInstalled
  <2>1. CASE s = r
    BY <2>1, <1>3, <1>4, <1>6, <1>7
  <2>2. CASE s # r
    BY <2>2, <1>3, <1>6 DEF StoreInv, BindingsAreInstalled
  <2> QED BY <2>1, <2>2
<1>10. KeysInRange'
  <2> SUFFICES ASSUME NEW s \in Requests, request'[s].at # "idle"
               PROVE  /\ request'[s].bound <= request'[s].key
                      /\ request'[s].key <= generation + 1
    BY <1>3 DEF KeysInRange
  <2>1. CASE s = r
    BY <2>1, <1>4, <1>6, <1>7
  <2>2. CASE s # r
    <3>1. request[s].key \in Nat /\ request[s].at # "idle" /\ request'[s] = request[s]
      BY <2>2, <1>6 DEF StoreInv, TokenTypeOK
    <3>2. request[s].bound <= request[s].key /\ request[s].key <= generation
      BY <3>1 DEF StoreInv, KeysInRange
    <3> QED BY <3>1, <3>2, <1>4
  <2> QED BY <2>1, <2>2
<1>11. \A s \in Requests : request'[s].at \notin {"reading", "installing"}
  BY <1>1, <1>6, <1>7 DEF StoreInv, ReadsConverge
<1>12. ReadIsToken' /\ ReadsConverge'
  BY <1>11 DEF ReadIsToken, ReadsConverge
<1> QED BY <1>8, <1>9, <1>10, <1>12 DEF StoreInv

-----------------------------------------------------------------------------
(* What `repair` hands out on its look at the store is sound.              *)
LEMMA RetryIsSound ==
  ASSUME StoreInv, NEW r \in Requests, request[r].at # "idle"
  PROVE  LET q == Rebound(Settled(request[r]), token, generation)
         IN  Sound(q, r) /\ q.at = "sent"
<1>1. /\ generation \in Nat /\ generation + 1 \in DOMAIN history
      /\ token \in Tokens /\ token = history[generation + 1].token
  BY StoreFacts DEF StoreInv
<1>2. request[r] \in Record
  BY RequestIsSound DEF Sound
<1> DEFINE q == Rebound(Settled(request[r]), token, generation)
<1>3. /\ q \in Record /\ q.at = "sent"
      /\ q.token = token /\ q.bound = generation /\ q.key = generation
  BY <1>1, <1>2, RetryIsRecord
<1> HIDE DEF q
<1>4. Sound(q, r) /\ q.at = "sent"
  BY <1>1, <1>3 DEF Sound
<1> QED BY <1>4 DEF q

LEMMA NextOK == StoreInv /\ [TokenNext]_tokenVars => StoreInv'
<1> SUFFICES ASSUME StoreInv, [TokenNext]_tokenVars PROVE StoreInv'
  OBVIOUS
<1>0. /\ generation \in Nat /\ generation + 1 \in DOMAIN history
      /\ token \in Tokens /\ token = history[generation + 1].token
  BY StoreFacts DEF StoreInv
<1>a. ASSUME NEW r \in Requests, Bind(r) PROVE StoreInv'
  <2> DEFINE p == [request[r] EXCEPT !.at = "sent"]
             q == Rebound(p, token, generation)
  <2>1. p \in Record /\ p.at = "sent"
    BY RequestIsSound DEF Sound, Record
  <2>2. request' = [request EXCEPT ![r] = q]
    BY <1>a DEF Bind, Rebound
  <2> HIDE DEF p
  <2>3. /\ q \in Record /\ q.at = "sent"
        /\ q.token = token /\ q.bound = generation /\ q.key = generation
    BY <2>1, <1>0, ReboundIsRecord
  <2> HIDE DEF q
  <2>4. Sound(q, r)
    BY <2>3, <1>0 DEF Sound
  <2> QED BY <1>a, <2>2, <2>3, <2>4, RequestStep DEF Bind, RequestLeavesRest
<1>b. ASSUME NEW r \in Requests, OpenStream(r) PROVE StoreInv'
  <2> DEFINE q == [request[r] EXCEPT !.at = "open", !.phase = "stream",
                                     !.retried = FALSE, !.key = generation]
  <2>1. request[r].bound <= generation
    BY <1>b, <1>0 DEF OpenStream, StoreInv, KeysInRange, TokenTypeOK
  <2>q. request[r] \in Record /\ request[r].at = "sent"
    BY <1>b, RequestIsSound DEF Sound, OpenStream
  <2>k. /\ q \in Record /\ q.at = "open" /\ q.token = request[r].token
        /\ q.bound = request[r].bound /\ q.key = generation
    BY <1>0, <2>q DEF Record
  <2>2. Sound(q, r) /\ q.at = "open"
    BY <1>0, <2>1, <2>q, <2>k, RequestIsSound DEF Sound
  <2>3. request' = [request EXCEPT ![r] = q]
    BY <1>b DEF OpenStream
  <2> HIDE DEF q
  <2> QED BY <1>b, <2>2, <2>3, RequestStep DEF OpenStream, RequestLeavesRest
<1>c. ASSUME NEW r \in Requests, NEW at \in {"open", "failed", "checking", "locking"},
             request[r].at # "idle", GoesOn(r, at), RequestLeavesRest
      PROVE StoreInv'
  <2> DEFINE q == [request[r] EXCEPT !.at = at]
  <2>1. Sound(q, r) /\ q.at = at
    BY <1>c, RequestIsSound DEF Sound, Record, Repairing
  <2>2. request' = [request EXCEPT ![r] = q]
    BY <1>c DEF GoesOn
  <2> HIDE DEF q
  <2> QED BY <1>c, <2>1, <2>2, RequestStep DEF RequestLeavesRest
<1>d. ASSUME NEW r \in Requests, StreamDrops(r) PROVE StoreInv'
  <2>1. Sound(NewRequest, r) /\ NewRequest.at = "idle"
    BY DEF Sound, NewRequest, Record
  <2>2. request' = [request EXCEPT ![r] = NewRequest]
    BY <1>d DEF StreamDrops
  <2> QED BY <1>d, <2>1, <2>2, RequestStep DEF StreamDrops, RequestLeavesRest
<1>e. ASSUME NEW r \in Requests, request[r].at # "idle", RetriesWith(r, Snapshot),
             UNCHANGED <<history, reload, source, config, accepted, changes>>
      PROVE StoreInv'
  <2> DEFINE q == Rebound(Settled(request[r]), token, generation)
  <2>1. Sound(q, r) /\ q.at = "sent"
    BY <1>e, RetryIsSound
  <2>2. request' = [request EXCEPT ![r] = q]
    BY <1>e DEF RetriesWith, Snapshot, Rebound, Settled
  <2> HIDE DEF q
  <2> QED BY <1>e, <2>1, <2>2, RequestStep
<1>f. ASSUME NEW r \in Requests, GivesUp(r), request[r].at # "idle", reload = r,
             reload' = NoRequest, UNCHANGED <<history, source, config, accepted, changes>>
      PROVE StoreInv'
  <2> DEFINE q == [request[r] EXCEPT !.at = "failed", !.read = NoToken]
  <2>1. Sound(q, r) /\ q.at = "failed"
    BY <1>f, RequestIsSound DEF Sound, Record
  <2>2. request' = [request EXCEPT ![r] = q]
    BY <1>f DEF GivesUp
  <2> HIDE DEF q
  <2> QED BY <1>f, <2>1, <2>2, RequestStep
<1>1. CASE \E r \in Requests : Bind(r) \/ OpenStream(r) \/ StreamDrops(r)
  BY <1>1, <1>a, <1>b, <1>d
<1>2. ASSUME NEW r \in Requests, Reopen(r) PROVE StoreInv'
  BY <1>2, <1>c DEF Reopen
<1>3. ASSUME NEW r \in Requests, Unauthenticated(r) PROVE StoreInv'
  BY <1>3, <1>c DEF Unauthenticated
<1>4. ASSUME NEW r \in Requests, RepairLooks(r) PROVE StoreInv'
  BY <1>4, <1>c, <1>e DEF RepairLooks, RequestLeavesRest
<1>5. ASSUME NEW r \in Requests, RepairLocks(r) PROVE StoreInv'
  <2>1. CASE Newer(r)
    BY <1>5, <2>1, <1>e DEF RepairLocks
  <2>2. CASE ~Newer(r)
    <3> DEFINE q == [request[r] EXCEPT !.at = "reading"]
    <3>1. Sound(q, r) /\ q.at = "reading" /\ q.key = request[r].key
      BY <1>5, RequestIsSound DEF Sound, Record, Repairing, RepairLocks
    <3>2. request' = [request EXCEPT ![r] = q]
      BY <1>5, <2>2 DEF RepairLocks, GoesOn
    <3>3. \A g \in (q.key + 1)..generation : history[g + 1].by = "config"
      BY <2>2, <3>1, <1>0 DEF Newer, StoreInv, TokenTypeOK
    <3> HIDE DEF q
    <3> QED BY <1>5, <2>2, <3>1, <3>2, <3>3, RequestStep DEF RepairLocks
  <2> QED BY <2>1, <2>2
<1>6. ASSUME NEW r \in Requests, RepairReads(r) PROVE StoreInv'
  <2>1. /\ reload = r
        /\ \A g \in (request[r].key + 1)..generation : history[g + 1].by = "config"
    BY <1>6 DEF RepairReads, StoreInv, ReadsConverge
  <2>2. CASE source = NoToken
    BY <1>6, <2>1, <2>2, <1>f DEF RepairReads
  <2>3. CASE source # NoToken
    <3> DEFINE q == [request[r] EXCEPT !.at = "installing", !.read = source]
    <3>1. source \in Tokens
      BY <2>3 DEF StoreInv, TokenTypeOK
    <3>2. Sound(q, r) /\ q.at = "installing" /\ q.key = request[r].key
      BY <1>6, <3>1, RequestIsSound DEF Sound, Record, Repairing, RepairReads
    <3>3. request' = [request EXCEPT ![r] = q]
      BY <1>6, <2>3 DEF RepairReads
    <3> HIDE DEF q
    <3> QED BY <1>6, <2>1, <2>3, <3>2, <3>3, RequestStep DEF RepairReads
  <2> QED BY <2>2, <2>3
<1>7. ASSUME NEW r \in Requests, RepairInstalls(r) PROVE StoreInv'
  <2>1. CASE request[r].read # token
    BY <1>7, <2>1, RepairInstallStep DEF RepairInstalls
  <2>2. CASE request[r].read = token
    BY <1>7, <2>2, <1>f DEF RepairInstalls, StoreInv, ReadsConverge
  <2> QED BY <2>1, <2>2
<1>8. ASSUME NEW t \in Tokens, ApplyConfig(t) PROVE StoreInv'
  <2>1. changes' \in 0..MaxChanges
    BY <1>8, BoundsAssumption DEF ApplyConfig, StoreInv, TokenTypeOK
  <2>2. CASE t # token
    BY <1>8, <2>1, <2>2, InstallStep DEF ApplyConfig
  <2>3. CASE t = token
    BY <1>8, <2>1, <2>3 DEF ApplyConfig, StoreInv, TokenTypeOK, BindingsAreInstalled, KeysInRange,
                            ReadIsToken, ReadsConverge, generation
  <2> QED BY <2>2, <2>3
<1>9. ASSUME NEW t \in Tokens, Renew(t) PROVE StoreInv'
  BY <1>9, BoundsAssumption DEF Renew, StoreInv, TokenTypeOK, BindingsAreInstalled, KeysInRange,
                                ReadIsToken, ReadsConverge, generation
<1>10. CASE Unreadable
  BY <1>10, BoundsAssumption DEF Unreadable, StoreInv, TokenTypeOK, BindingsAreInstalled, KeysInRange,
                                 ReadIsToken, ReadsConverge, generation
<1>11. CASE UNCHANGED tokenVars
  BY <1>11 DEF tokenVars, StoreInv, TokenTypeOK, BindingsAreInstalled, KeysInRange,
               ReadIsToken, ReadsConverge, generation
<1> QED BY <1>1, <1>2, <1>3, <1>4, <1>5, <1>6, <1>7, <1>8, <1>9, <1>10, <1>11 DEF TokenNext, Repair

LEMMA StoreHolds == TokenSpec => []StoreInv
BY InitOK, NextOK, PTL DEF TokenSpec

-----------------------------------------------------------------------------
(* A request under repair moves by its own repair alone.                   *)
LEMMA OnlyRepairMoves ==
  ASSUME StoreInv, [TokenNext]_tokenVars, NEW r \in Requests, request[r].at \in Repairing,
         request'[r] # request[r]
  PROVE  Repair(r)
<1>1. ASSUME NEW s \in Requests, NEW q, request' = [request EXCEPT ![s] = q]
      PROVE  s = r
  BY <1>1 DEF StoreInv, TokenTypeOK
<1>2. CASE \E s \in Requests : \/ Bind(s) \/ OpenStream(s) \/ Reopen(s) \/ Unauthenticated(s)
                             \/ StreamDrops(s)
  <2>1. PICK s \in Requests : \/ Bind(s) \/ OpenStream(s) \/ Reopen(s) \/ Unauthenticated(s)
                              \/ StreamDrops(s)
    BY <1>2
  <2>2. request[s].at \notin Repairing
    BY <2>1 DEF Bind, OpenStream, Reopen, Unauthenticated, StreamDrops, Repairing
  <2>3. s # r
    BY <2>2
  <2> QED BY <2>1, <2>3 DEF Bind, OpenStream, Reopen, Unauthenticated, StreamDrops, GoesOn, StoreInv, TokenTypeOK
<1>3. ASSUME NEW s \in Requests, Repair(s), s # r PROVE FALSE
  BY <1>3 DEF Repair, RepairLooks, RepairLocks, RepairReads, RepairInstalls, RetriesWith,
              GivesUp, GoesOn, StoreInv, TokenTypeOK
<1> QED BY <1>2, <1>3 DEF TokenNext, ApplyConfig, Renew, Unreadable, tokenVars

(* What the repair hands out is newer than what was refused.               *)
LEMMA RetryStep ==
  ASSUME StoreInv, [TokenNext]_tokenVars, NEW r \in Requests, request[r].at \in Repairing,
         request'[r].at = "sent"
  PROVE  /\ request'[r].bound > request[r].bound
         /\ request'[r].bound + 1 \in DOMAIN history'
         /\ history'[request'[r].bound + 1].token = request'[r].token
<1>0. /\ request'[r].bound + 1 \in DOMAIN history'
      /\ history'[request'[r].bound + 1].token = request'[r].token
  BY NextOK DEF StoreInv, BindingsAreInstalled
<1> SUFFICES request'[r].bound > request[r].bound
  BY <1>0
<1>1. Repair(r)
  BY OnlyRepairMoves DEF Repairing
<1>2. /\ request[r].bound \in Nat /\ request[r].key \in Nat /\ generation \in Nat
      /\ request[r].bound <= request[r].key /\ request[r].key <= generation
  BY StoreFacts DEF StoreInv, TokenTypeOK, KeysInRange, Repairing
<1>3. CASE RepairLooks(r) \/ RepairLocks(r)
  <2>1. Newer(r) /\ request'[r].bound = generation
    BY <1>3 DEF RepairLooks, RepairLocks, RetriesWith, Snapshot, GoesOn, StoreInv, TokenTypeOK
  <2> QED BY <2>1, <1>2 DEF Newer
<1>4. CASE RepairInstalls(r)
  <2>1. request'[r].bound = generation + 1
    BY <1>4 DEF RepairInstalls, RetriesWith, GivesUp, StoreInv, TokenTypeOK
  <2> QED BY <2>1, <1>2
<1>5. CASE RepairReads(r)
  BY <1>5 DEF RepairReads, GivesUp, StoreInv, TokenTypeOK
<1> QED BY <1>1, <1>3, <1>4, <1>5 DEF Repair

(* A repair that gives up holds the lock, which is why nothing it missed   *)
(* was installed by another repair.                                        *)
LEMMA GivesUpStep ==
  ASSUME StoreInv, [TokenNext]_tokenVars, NEW r \in Requests, request[r].at \in Repairing,
         request'[r].at = "failed"
  PROVE  \A g \in (request[r].key + 1)..generation : history[g + 1].by = "config"
<1>1. Repair(r)
  BY OnlyRepairMoves DEF Repairing
<1>2. request[r].at \in {"reading", "installing"}
  BY <1>1 DEF Repair, RepairLooks, RepairLocks, RepairReads, RepairInstalls, RetriesWith,
              GoesOn, StoreInv, TokenTypeOK
<1> QED BY <1>2 DEF StoreInv, ReadsConverge

(* Every variable keeps its type, whatever requests, renewals and reloads  *)
(* do.                                                                     *)
THEOREM TokenTypeCorrect == TokenSpec => []TokenTypeOK
BY StoreHolds, PTL DEF StoreInv

(* The reload lock of `repair` (catalog.rs:262-292) does what it is for:   *)
(* one request at a time works on the credential source, and only while no *)
(* other repair has got ahead of it.                                       *)
THEOREM ReadsAreSerialised == TokenSpec => []ReadsConverge
BY StoreHolds, PTL DEF StoreInv

(* `repair` (catalog.rs:252-292) is sound for any number of requests and   *)
(* installations: a retry goes out under a token that was installed under  *)
(* the generation it is bound to, newer than the one refused, and a        *)
(* request that gives up has missed no other request's repair.             *)
THEOREM RepairsAreSound == TokenSpec => RepairIsSound
<1>1. StoreInv /\ [TokenNext]_tokenVars =>
        [\A r \in Requests : request[r].at \in Repairing /\ request'[r].at = "sent"
           => /\ request'[r].bound > request[r].bound
              /\ request'[r].bound + 1 \in DOMAIN history'
              /\ history'[request'[r].bound + 1].token = request'[r].token]_tokenVars
  BY RetryStep
<1>2. StoreInv /\ [TokenNext]_tokenVars =>
        [\A r \in Requests : request[r].at \in Repairing /\ request'[r].at = "failed"
           => \A g \in (request[r].key + 1)..generation : history[g + 1].by = "config"]_tokenVars
  BY GivesUpStep
<1> QED BY <1>1, <1>2, StoreHolds, PTL
        DEF TokenSpec, RepairIsSound, RetryIsNewer, RepairMissesNoRepair

-----------------------------------------------------------------------------
(* The model catalog *)

(* A call that may still lead a fetch leads one at most.                   *)
Looking == {c \in Callers : caller[c].at \in {"looking", "waiting"}}
LedOnce == catalog.seq + Cardinality(Looking) <= calls

CatalogTypes == CatalogTypeOK /\ LedOnce

(* The slot is the newest fetch's; who runs has it, and a fetch that has   *)
(* not committed has no models. The cooldown is that of the last failure.  *)
SlotInv ==
  /\ catalog.models <= catalog.seq
  /\ catalog.fetch # None => catalog.fetch = catalog.seq /\ catalog.models < catalog.seq
  /\ \A s \in Seqs : /\ task[s].at = "running" => catalog.fetch = s
                     /\ task[s].at \in {"none", "running", "dead"} => task[s].models = None
                     /\ s > catalog.seq => task[s].at = "none"
  /\ now # 0 /\ failedAt <= now
  /\ IF failedAt = None THEN catalog.retryUntil = 0
                        ELSE catalog.retryUntil = failedAt + Backoff

(* What a caller could have had at once is cached or has been replaced.    *)
AnswerInv ==
  /\ \A c \in Callers :
       /\ caller[c].at # "answered" => caller[c].answer = "none"
       /\ caller[c].since <= catalog.models
       /\ caller[c].at = "leading" /\ task[caller[c].on].at \in {"committed", "over"}
            => caller[c].since <= task[caller[c].on].models
  /\ ErrorsAreColdOnly

(* A fetch runs only when the catalog is past its time, and so a failure   *)
(* on record is later than that.                                           *)
StaleInv ==
  /\ catalog.models # None => catalog.expiry = fetchedAt[catalog.models] + Ttl
  /\ \A s \in Seqs : task[s].at = "running" => catalog.models = None \/ now >= catalog.expiry
  /\ catalog.models # None /\ failedAt # None => failedAt >= catalog.expiry

CatalogInv == CatalogTypes /\ SlotInv /\ AnswerInv /\ StaleInv

USE CatalogBoundsAssumption, TimesAssumption

Callings == [at : {"idle", "looking", "waiting", "leading", "answered"},
             on : 0..MaxCalls, since : 0..MaxCalls,
             answer : {"none", "models", "error", "died", "cancelled"}, models : 0..MaxCalls]
Catalogs == [models : 0..MaxCalls, expiry : Nat, retryUntil : Nat,
             fetch : 0..MaxCalls, seq : 0..MaxCalls]
Fetches == [at : {"none", "running", "committed", "over", "dead"},
            answer : {"none", "models", "failure"}, models : 0..MaxCalls]

LEMMA LookingIs == IsFiniteSet(Looking) /\ Cardinality(Looking) \in Nat
<1>1. Looking \subseteq Callers
  BY DEF Looking
<1> QED BY <1>1, CallersAssumption, FS_Subset, FS_CardinalityType

(* What a caller's record is after the two ways it is changed.             *)
LEMMA MovesIs ==
  ASSUME CatalogTypeOK, NEW c \in Callers, NEW at \in {"looking", "waiting", "leading"},
         NEW seq \in 0..MaxCalls, Moves(c, at, seq)
  PROVE  \E q \in Callings :
           /\ caller' = [caller EXCEPT ![c] = q]
           /\ q.at = at /\ q.on = seq /\ q.since = caller[c].since
           /\ q.answer = caller[c].answer
<1> DEFINE q == [caller[c] EXCEPT !.at = at, !.on = seq]
<1>1. caller \in [Callers -> Callings] /\ caller[c] \in Callings
  BY DEF CatalogTypeOK, Callings
<1>2. /\ q \in Callings /\ q.at = at /\ q.on = seq /\ q.since = caller[c].since
      /\ q.answer = caller[c].answer
  BY <1>1 DEF Callings
<1>3. caller' = [caller EXCEPT ![c] = q]
  BY <1>1 DEF Moves
<1> HIDE DEF q
<1> QED BY <1>2, <1>3

LEMMA AnswersIs ==
  ASSUME CatalogTypeOK, NEW c \in Callers, NEW answer \in {"models", "error", "died", "cancelled"},
         NEW models \in 0..MaxCalls, Answers(c, answer, models)
  PROVE  \E q \in Callings :
           /\ caller' = [caller EXCEPT ![c] = q]
           /\ q.at = "answered" /\ q.on = None /\ q.since = caller[c].since
           /\ q.answer = answer /\ q.models = models
<1> DEFINE q == [caller[c] EXCEPT !.at = "answered", !.on = None, !.answer = answer,
                                  !.models = models]
<1>1. caller \in [Callers -> Callings] /\ caller[c] \in Callings
  BY DEF CatalogTypeOK, Callings
<1>2. /\ q \in Callings /\ q.at = "answered" /\ q.on = None /\ q.since = caller[c].since
      /\ q.answer = answer /\ q.models = models
  <2>1. None \in 0..MaxCalls
    BY DEF None
  <2>2. q \in Callings
    BY <1>1, <2>1 DEF Callings
  <2>3. q.at = "answered" /\ q.on = None
    BY <1>1 DEF Callings
  <2>4. q.since = caller[c].since /\ q.answer = answer
    BY <1>1 DEF Callings
  <2>5. q.models = models
    BY <1>1 DEF Callings
  <2> QED BY <2>2, <2>3, <2>4, <2>5
<1>3. caller' = [caller EXCEPT ![c] = q]
  BY <1>1 DEF Answers
<1> HIDE DEF q
<1> QED BY <1>2, <1>3

(* What one caller does, seen from the sum of those that may still lead.   *)
LEMMA LookingStep ==
  ASSUME CatalogTypeOK, NEW c \in Callers, NEW q, caller' = [caller EXCEPT ![c] = q]
  PROVE  Cardinality(Looking') =
           Cardinality(Looking)
           + (IF q.at \in {"looking", "waiting"} /\ c \notin Looking THEN 1 ELSE 0)
           - (IF q.at \notin {"looking", "waiting"} /\ c \in Looking THEN 1 ELSE 0)
<1>1. caller'[c] = q /\ \A d \in Callers \ {c} : caller'[d] = caller[d]
  BY DEF CatalogTypeOK
<1>2. CASE q.at \in {"looking", "waiting"}
  <2>1. Looking' = Looking \cup {c}
    BY <1>1, <1>2 DEF Looking
  <2>2. Cardinality(Looking \cup {c})
          = IF c \in Looking THEN Cardinality(Looking) ELSE Cardinality(Looking) + 1
    BY LookingIs, FS_AddElement
  <2> QED BY <1>2, <2>1, <2>2, LookingIs
<1>3. CASE q.at \notin {"looking", "waiting"}
  <2>1. Looking' = Looking \ {c}
    BY <1>1, <1>3 DEF Looking
  <2>2. Cardinality(Looking \ {c})
          = IF c \in Looking THEN Cardinality(Looking) - 1 ELSE Cardinality(Looking)
    BY LookingIs, FS_RemoveElement
  <2> QED BY <1>3, <2>1, <2>2, LookingIs
<1> QED BY <1>2, <1>3

(* A step of one caller; a dead fetch may lose its slot.                   *)
LEMMA CallerSteps ==
  ASSUME CatalogInv, NEW c \in Callers, NEW q \in Callings,
         caller' = [caller EXCEPT ![c] = q],
         UNCHANGED <<task, now, fetchedAt, failedAt>>,
         \/ catalog' = catalog
         \/ catalog' = [catalog EXCEPT !.fetch = None]
            /\ \A s \in Seqs : task[s].at = "running" => catalog.fetch # s,
         calls' \in {calls, calls + 1} /\ calls' \in 0..MaxCalls,
         q.at \in {"looking", "waiting"} => c \in Looking \/ calls' = calls + 1,
         q.on # None <=> q.at \in {"waiting", "leading"},
         q.at # "leading",
         q.at # "answered" => q.answer = "none",
         q.since <= catalog.models,
         q.at = "answered" /\ q.answer = "error" => q.since = None
  PROVE  CatalogInv'
<1>1. caller'[c] = q /\ \A d \in Callers \ {c} : caller'[d] = caller[d]
  BY DEF CatalogInv, CatalogTypes, CatalogTypeOK
<1>2. /\ catalog' \in Catalogs /\ catalog'.models = catalog.models
      /\ catalog'.expiry = catalog.expiry /\ catalog'.retryUntil = catalog.retryUntil
      /\ catalog'.seq = catalog.seq /\ catalog'.fetch \in {catalog.fetch, None}
      /\ \A s \in Seqs : task[s].at = "running" => catalog'.fetch = s
  <2>1. catalog \in Catalogs
    BY DEF CatalogInv, CatalogTypes, CatalogTypeOK, Catalogs
  <2> QED BY <2>1 DEF Catalogs, CatalogInv, SlotInv, None
<1>3. CatalogTypeOK'
  <2>1. caller' \in [Callers -> Callings]
    BY DEF CatalogInv, CatalogTypes, CatalogTypeOK, Callings
  <2>2. \A d \in Callers : caller'[d].on # None <=> caller'[d].at \in {"waiting", "leading"}
    BY <1>1 DEF CatalogInv, CatalogTypes, CatalogTypeOK
  <2> QED BY <1>2, <2>1, <2>2 DEF CatalogInv, CatalogTypes, CatalogTypeOK, Callings, Catalogs
<1>4. LedOnce'
  <2>1. Cardinality(Looking') =
          Cardinality(Looking)
          + (IF q.at \in {"looking", "waiting"} /\ c \notin Looking THEN 1 ELSE 0)
          - (IF q.at \notin {"looking", "waiting"} /\ c \in Looking THEN 1 ELSE 0)
    BY LookingStep DEF CatalogInv, CatalogTypes
  <2>2. Cardinality(Looking) \in Nat /\ calls \in Nat /\ catalog.seq \in Nat
    BY LookingIs DEF CatalogInv, CatalogTypes, CatalogTypeOK
  <2>3. q.at \in {"looking", "waiting"} /\ c \notin Looking => calls' = calls + 1
    OBVIOUS
  <2> HIDE DEF Looking
  <2>4. catalog.seq + Cardinality(Looking') <= calls'
    BY <2>1, <2>2, <2>3 DEF CatalogInv, CatalogTypes, LedOnce
  <2> QED BY <1>2, <2>4 DEF LedOnce
<1>5. SlotInv'
  BY <1>2 DEF CatalogInv, SlotInv
<1>6. AnswerInv'
  BY <1>1, <1>2 DEF CatalogInv, AnswerInv, ErrorsAreColdOnly
<1>7. StaleInv'
  BY <1>2 DEF CatalogInv, StaleInv
<1> QED BY <1>3, <1>4, <1>5, <1>6, <1>7 DEF CatalogInv, CatalogTypes

LEMMA Answered ==
  ASSUME CatalogInv, NEW c \in Callers, NEW answer \in {"models", "error", "died", "cancelled"},
         NEW models \in 0..MaxCalls, Answers(c, answer, models),
         UNCHANGED <<catalog, task, calls, now, fetchedAt, failedAt>>,
         answer = "error" => caller[c].since = None
  PROVE  CatalogInv'
<1>1. PICK q \in Callings :
        /\ caller' = [caller EXCEPT ![c] = q]
        /\ q.at = "answered" /\ q.on = None /\ q.since = caller[c].since
        /\ q.answer = answer /\ q.models = models
  BY AnswersIs DEF CatalogInv, CatalogTypes
<1>2. caller[c].since <= catalog.models /\ calls' \in 0..MaxCalls
  BY DEF CatalogInv, AnswerInv, CatalogTypes, CatalogTypeOK
<1> QED BY <1>1, <1>2, CallerSteps

LEMMA CallsStep ==
  ASSUME CatalogInv, NEW c \in Callers, Calls(c)
  PROVE  CatalogInv'
<1> DEFINE q == [Idle EXCEPT !.at = "looking", !.since = catalog.models]
<1>1. catalog.models \in 0..MaxCalls /\ 0 \in 0..MaxCalls
  BY DEF CatalogInv, CatalogTypes, CatalogTypeOK
<1>2. /\ q \in Callings /\ q.at = "looking" /\ q.on = None /\ q.since = catalog.models
      /\ q.answer = "none"
  BY <1>1 DEF Idle, Callings, None
<1>3. /\ caller' = [caller EXCEPT ![c] = q] /\ calls' = calls + 1 /\ calls' \in 0..MaxCalls
      /\ UNCHANGED <<catalog, task, now, fetchedAt, failedAt>>
  BY DEF Calls, CatalogInv, CatalogTypes, CatalogTypeOK
<1> HIDE DEF q
<1>4. q.since <= catalog.models
  BY <1>1, <1>2
<1>5. /\ q.on # None <=> q.at \in {"waiting", "leading"}
      /\ q.at # "leading" /\ q.at # "answered"
  BY <1>2
<1>6. UNCHANGED <<task, now, fetchedAt, failedAt>> /\ catalog' = catalog
  BY <1>3
<1>7. calls' \in {calls, calls + 1}
  BY <1>3
<1> QED BY <1>2, <1>3, <1>4, <1>5, <1>6, <1>7, CallerSteps

LEMMA LeadsStep ==
  ASSUME CatalogInv, NEW c \in Callers, caller[c].at = "looking", ~Fresh, ~CoolingDown,
         catalog.fetch = None, Leads(c), UNCHANGED <<calls, now, fetchedAt, failedAt>>
  PROVE  CatalogInv'
<1> DEFINE s == catalog.seq + 1
<1>1. /\ catalog \in Catalogs /\ task \in [Seqs -> Fetches] /\ catalog.seq \in 0..MaxCalls
      /\ calls \in 0..MaxCalls
  BY DEF CatalogInv, CatalogTypes, CatalogTypeOK, Catalogs, Fetches
<1>2. c \in Looking
  BY DEF Looking
<1>3. s \in Seqs /\ s \in 0..MaxCalls /\ s # None
  <2>1. Cardinality(Looking) # 0 /\ Cardinality(Looking) \in Nat
    BY <1>2, LookingIs, FS_EmptySet
  <2>2. s <= calls
    BY <1>1, <2>1 DEF CatalogInv, CatalogTypes, LedOnce
  <2> QED BY <1>1, <2>2 DEF Seqs, None
<1> DEFINE old == catalog.seq
<1>4. /\ catalog' = [catalog EXCEPT !.seq = s, !.fetch = s]
      /\ task' = [task EXCEPT ![s].at = "running"]
      /\ Moves(c, "leading", s)
  BY DEF Leads
<1>5. PICK q \in Callings :
        /\ caller' = [caller EXCEPT ![c] = q]
        /\ q.at = "leading" /\ q.on = s /\ q.since = caller[c].since
        /\ q.answer = caller[c].answer
  BY <1>3, <1>4, MovesIs DEF CatalogInv, CatalogTypes
<1>6. caller'[c] = q /\ \A d \in Callers \ {c} : caller'[d] = caller[d]
  BY <1>5 DEF CatalogInv, CatalogTypes, CatalogTypeOK
<1>7. /\ catalog' \in Catalogs /\ catalog'.models = catalog.models
      /\ catalog'.expiry = catalog.expiry /\ catalog'.retryUntil = catalog.retryUntil
      /\ catalog'.seq = s /\ catalog'.fetch = s
  BY <1>1, <1>3, <1>4 DEF Catalogs
<1>8. /\ task' \in [Seqs -> Fetches] /\ task'[s].at = "running"
      /\ task'[s].models = task[s].models
      /\ \A t \in Seqs \ {s} : task'[t] = task[t]
  BY <1>1, <1>3, <1>4 DEF Fetches
<1> HIDE DEF s
<1>9. s = catalog.seq + 1
  BY DEF s
<1>10. \A t \in Seqs : task[t].at # "running"
  BY <1>3 DEF CatalogInv, SlotInv, Seqs, None
<1>11. CatalogTypeOK'
  <2>1. caller' \in [Callers -> Callings]
    BY <1>5 DEF CatalogInv, CatalogTypes, CatalogTypeOK, Callings
  <2>2. \A d \in Callers : caller'[d].on # None <=> caller'[d].at \in {"waiting", "leading"}
    BY <1>3, <1>5, <1>6 DEF CatalogInv, CatalogTypes, CatalogTypeOK
  <2> QED BY <1>7, <1>8, <2>1, <2>2 DEF CatalogInv, CatalogTypes, CatalogTypeOK, Callings,
             Catalogs, Fetches
<1>12. LedOnce'
  <2>1. Cardinality(Looking') = Cardinality(Looking) - 1
    <3>1. Cardinality(Looking') =
            Cardinality(Looking)
            + (IF q.at \in {"looking", "waiting"} /\ c \notin Looking THEN 1 ELSE 0)
            - (IF q.at \notin {"looking", "waiting"} /\ c \in Looking THEN 1 ELSE 0)
      BY <1>5, LookingStep DEF CatalogInv, CatalogTypes
    <3> HIDE DEF Looking
    <3> QED BY <1>2, <1>5, <3>1, LookingIs
  <2> HIDE DEF Looking
  <2> QED BY <1>1, <1>7, <1>9, <2>1, LookingIs DEF CatalogInv, CatalogTypes, LedOnce
<1>13. SlotInv'
  <2>1. task[s].at = "none"
    BY <1>1, <1>3, <1>9 DEF CatalogInv, SlotInv
  <2>2. task[s].models = None
    BY <1>3, <2>1 DEF CatalogInv, SlotInv
  <2>3. catalog.models \in Nat /\ catalog.models <= catalog.seq
    BY <1>1 DEF CatalogInv, SlotInv, Catalogs
  <2>4. \A t \in Seqs : /\ task'[t].at = "running" => t = s
                        /\ task'[t].at \in {"none", "running", "dead"} => task'[t].models = None
    BY <1>3, <1>8, <1>10, <2>2 DEF CatalogInv, SlotInv
  <2>5. \A t \in Seqs : t > s => task'[t].at = "none"
    BY <1>1, <1>3, <1>8, <1>9 DEF CatalogInv, SlotInv, Seqs
  <2> QED BY <1>1, <1>7, <1>9, <2>3, <2>4, <2>5 DEF CatalogInv, SlotInv
<1>14. AnswerInv'
  <2>1. ASSUME NEW d \in Callers
        PROVE  /\ caller'[d].at # "answered" => caller'[d].answer = "none"
               /\ caller'[d].since <= catalog.models
               /\ caller'[d].at = "answered" /\ caller'[d].answer = "error"
                    => caller'[d].since = None
    BY <1>5, <1>6 DEF CatalogInv, AnswerInv, ErrorsAreColdOnly
  <2>2. ASSUME NEW d \in Callers, caller'[d].at = "leading",
               task'[caller'[d].on].at \in {"committed", "over"}
        PROVE  caller'[d].since <= task'[caller'[d].on].models
    <3>1. d # c /\ caller'[d] = caller[d] /\ caller[d].on # s
      BY <1>5, <1>6, <1>8, <2>2
    <3>2. caller[d].on \in Seqs
      BY <2>2, <3>1 DEF CatalogInv, CatalogTypes, CatalogTypeOK, Seqs, None
    <3> QED BY <1>8, <2>2, <3>1, <3>2 DEF CatalogInv, AnswerInv
  <2> QED BY <1>7, <2>1, <2>2 DEF AnswerInv, ErrorsAreColdOnly
<1>15. StaleInv'
  <2>1. catalog.models = None \/ now >= catalog.expiry
    BY DEF Fresh, CatalogInv, CatalogTypes, CatalogTypeOK
  <2> QED BY <1>7, <1>8, <2>1 DEF CatalogInv, StaleInv
<1> QED BY <1>11, <1>12, <1>13, <1>14, <1>15 DEF CatalogInv, CatalogTypes

LEMMA CallStep ==
  ASSUME CatalogInv, NEW c \in Callers, Call(c) \/ Leaves(c)
  PROVE  CatalogInv'
<1> USE DEF CatalogInv
<1>1. /\ catalog.models \in 0..MaxCalls /\ None \in 0..MaxCalls /\ catalog.fetch \in 0..MaxCalls
      /\ caller[c].since <= catalog.models /\ calls \in 0..MaxCalls /\ CatalogTypeOK
      /\ caller[c].since \in Nat
  BY DEF CatalogTypes, CatalogTypeOK, AnswerInv, None
<1>2. ASSUME NEW at \in {"looking", "waiting"}, NEW s \in 0..MaxCalls, Moves(c, at, s),
             c \in Looking, s # None <=> at = "waiting",
             \/ catalog' = catalog
             \/ catalog' = [catalog EXCEPT !.fetch = None]
                /\ \A t \in Seqs : task[t].at = "running" => catalog.fetch # t,
             UNCHANGED <<task, calls, now, fetchedAt, failedAt>>
      PROVE  CatalogInv'
  <2>1. PICK q \in Callings :
          /\ caller' = [caller EXCEPT ![c] = q]
          /\ q.at = at /\ q.on = s /\ q.since = caller[c].since
          /\ q.answer = caller[c].answer
    BY <1>1, <1>2, MovesIs
  <2>2. q.answer = "none"
    BY <1>2, <2>1 DEF Looking, AnswerInv
  <2> HIDE DEF CatalogInv
  <2> QED BY <1>1, <1>2, <2>1, <2>2, CallerSteps
<1>3. CASE Looks(c)
  <2>1. c \in Looking /\ caller[c].at = "looking"
    BY <1>3 DEF Looks, Looking
  <2>2. CASE FromCache(c)
    BY <1>1, <1>3, <2>2, Answered DEF FromCache, Looks
  <2>3. CASE catalog.models = None /\ Answers(c, "error", None) /\ UNCHANGED <<catalog, task>>
    <3>1. caller[c].since = None
      BY <1>1, <2>3 DEF None
    <3> QED BY <1>1, <1>3, <2>3, <3>1, Answered DEF Looks
  <2>4. CASE catalog.fetch # None /\ Follows(c)
    BY <1>1, <1>2, <1>3, <2>1, <2>4 DEF Follows, Looks
  <2>5. CASE ~Fresh /\ ~CoolingDown /\ catalog.fetch = None /\ Leads(c)
    BY <1>3, <2>1, <2>5, LeadsStep DEF Looks
  <2> QED BY <1>3, <2>2, <2>3, <2>4, <2>5 DEF Looks, AnswersInCooldown
<1>4. CASE Woken(c)
  <2>1. /\ c \in Looking /\ Moves(c, "looking", None)
        /\ UNCHANGED <<task, calls, now, fetchedAt, failedAt>>
    BY <1>4 DEF Woken, Looking
  <2>2. \/ catalog' = catalog
        \/ catalog' = [catalog EXCEPT !.fetch = None]
           /\ \A t \in Seqs : task[t].at = "running" => catalog.fetch # t
    BY <1>4 DEF Woken
  <2> QED BY <1>1, <1>2, <2>1, <2>2
<1>5. CASE LeaderReturns(c)
  <2> DEFINE s == caller[c].on
  <2>1. s \in Seqs /\ task[s].models \in 0..MaxCalls /\ task[s].models \in Nat
    BY <1>5 DEF LeaderReturns, CatalogTypes, CatalogTypeOK, Seqs, None
  <2>2. CASE task[s].models # None
    BY <1>5, <2>1, <2>2, Answered DEF LeaderReturns
  <2>3. CASE task[s].models = None /\ task[s].at = "dead"
    BY <1>1, <1>5, <2>3, Answered DEF LeaderReturns
  <2>4. CASE task[s].models = None /\ task[s].at # "dead"
    <3>1. caller[c].since <= task[s].models
      BY <1>5, <2>4 DEF LeaderReturns, AnswerInv
    <3>2. caller[c].since = None
      BY <1>1, <2>1, <2>4, <3>1 DEF None
    <3> QED BY <1>1, <1>5, <2>4, <3>2, Answered DEF LeaderReturns
  <2> QED BY <2>2, <2>3, <2>4
<1>6. CASE Leaves(c)
  BY <1>1, <1>6, Answered DEF Leaves
<1> QED BY <1>3, <1>4, <1>5, <1>6 DEF Call

-----------------------------------------------------------------------------
(* The fetches *)

(* A fetch ends its exchange: with models, or without.                     *)
LEMMA CommitsStep ==
  ASSUME CatalogInv, NEW s \in Seqs, Commits(s) \/ (\E cancelLike \in BOOLEAN : Fails(s, cancelLike))
  PROVE  CatalogInv'
<1>1. /\ catalog \in Catalogs /\ task \in [Seqs -> Fetches] /\ now \in 0..MaxTime
      /\ s \in 0..MaxCalls /\ 0 \in 0..MaxCalls /\ fetchedAt \in [Seqs -> 0..MaxTime]
      /\ failedAt \in 0..MaxTime
  BY DEF CatalogInv, CatalogTypes, CatalogTypeOK, Catalogs, Fetches, Seqs
<1>2. PICK m \in 0..MaxCalls : \E answer \in {"models", "failure"} :
        task' = [task EXCEPT ![s] = [at |-> "committed", answer |-> answer, models |-> m]]
        /\ m \in {s, catalog.models}
  BY <1>1 DEF Commits, Fails, Outcome, Catalogs
<1>3. /\ task' \in [Seqs -> Fetches] /\ task'[s].at = "committed" /\ task'[s].models = m
      /\ \A t \in Seqs \ {s} : task'[t] = task[t]
  BY <1>1, <1>2 DEF Fetches
<1>4. task[s].at = "running" /\ caller' = caller /\ calls' = calls /\ now' = now
  BY DEF Commits, Fails, FetchLeavesRest
<1>5. /\ catalog.fetch = s /\ catalog.seq = s /\ catalog.models < s
      /\ \A t \in Seqs \ {s} : task[t].at # "running"
  BY <1>4 DEF CatalogInv, SlotInv, Seqs, None
<1>6. catalog' \in Catalogs /\ catalog'.fetch = None /\ catalog'.seq = catalog.seq
  <2>1. CASE Commits(s)
    <3>1. now + Ttl \in Nat
      BY <1>1
    <3>2. catalog' \in Catalogs
      BY <1>1, <2>1, <3>1 DEF Commits, Catalogs, None
    <3> QED BY <1>1, <2>1, <3>2 DEF Commits, Catalogs
  <2>2. CASE \E cancelLike \in BOOLEAN : Fails(s, cancelLike)
    <3>1. now + Backoff \in Nat
      BY <1>1
    <3>2. catalog' \in Catalogs
      BY <1>1, <2>2, <3>1 DEF Fails, Catalogs, None
    <3> QED BY <1>1, <2>2, <3>2 DEF Fails, Catalogs
  <2> QED BY <2>1, <2>2
<1>7. CASE Commits(s)
  <2>1. /\ catalog'.models = s /\ catalog'.expiry = now + Ttl /\ catalog'.retryUntil = 0
        /\ m = s
    <3>1. catalog' = [catalog EXCEPT !.models = s, !.expiry = now + Ttl, !.retryUntil = 0,
                                     !.fetch = None]
      BY <1>7 DEF Commits
    <3>2. task' = [task EXCEPT ![s] = [at |-> "committed", answer |-> "models", models |-> s]]
      BY <1>7 DEF Commits, Outcome
    <3> QED BY <1>1, <1>3, <3>1, <3>2 DEF Catalogs
  <2>2. /\ fetchedAt' \in [Seqs -> 0..MaxTime] /\ fetchedAt'[s] = now /\ failedAt' = None
    BY <1>1, <1>7 DEF Commits
  <2>3. CatalogTypeOK'
    BY <1>1, <1>3, <1>4, <1>6, <2>2
       DEF CatalogInv, CatalogTypes, CatalogTypeOK, Catalogs, Fetches, None
  <2>4. SlotInv'
    BY <1>1, <1>3, <1>4, <1>5, <1>6, <2>1, <2>2 DEF CatalogInv, SlotInv, None
  <2>5. AnswerInv'
    <3>1. \A c \in Callers : caller[c].since <= s
      BY <1>1, <1>5 DEF CatalogInv, AnswerInv, CatalogTypes, CatalogTypeOK, Catalogs
    <3>2. \A c \in Callers : caller[c].at = "leading" => caller[c].on \in Seqs
      BY DEF CatalogInv, CatalogTypes, CatalogTypeOK, Seqs, None
    <3> QED BY <1>3, <1>4, <2>1, <3>1, <3>2 DEF CatalogInv, AnswerInv, ErrorsAreColdOnly
  <2>6. StaleInv'
    BY <1>3, <1>5, <2>1, <2>2 DEF StaleInv
  <2> QED BY <1>4, <1>6, <2>3, <2>4, <2>5, <2>6 DEF CatalogInv, CatalogTypes, LedOnce, Looking
<1>8. ASSUME NEW cancelLike \in BOOLEAN, Fails(s, cancelLike) PROVE CatalogInv'
  <2>1. /\ catalog'.models = catalog.models /\ catalog'.expiry = catalog.expiry
        /\ catalog'.retryUntil = IF cancelLike THEN catalog.retryUntil ELSE now + Backoff
        /\ m = catalog.models
    <3>1. catalog' = IF cancelLike THEN [catalog EXCEPT !.fetch = None]
                     ELSE [catalog EXCEPT !.retryUntil = now + Backoff, !.fetch = None]
      BY <1>8 DEF Fails
    <3>2. task' = [task EXCEPT ![s] = [at |-> "committed", answer |-> "failure",
                                       models |-> catalog.models]]
      BY <1>8 DEF Fails, Outcome
    <3> QED BY <1>1, <1>3, <3>1, <3>2 DEF Catalogs
  <2>2. failedAt' = (IF cancelLike THEN failedAt ELSE now) /\ fetchedAt' = fetchedAt
    BY <1>8 DEF Fails
  <2>3. CatalogTypeOK'
    BY <1>1, <1>3, <1>4, <1>6, <2>2
       DEF CatalogInv, CatalogTypes, CatalogTypeOK, Catalogs, Fetches
  <2>4. SlotInv'
    BY <1>1, <1>3, <1>4, <1>5, <1>6, <2>1, <2>2 DEF CatalogInv, SlotInv, None
  <2>5. AnswerInv'
    <3>1. \A c \in Callers : caller[c].at = "leading" => caller[c].on \in Seqs
      BY DEF CatalogInv, CatalogTypes, CatalogTypeOK, Seqs, None
    <3> QED BY <1>3, <1>4, <2>1, <3>1 DEF CatalogInv, AnswerInv, ErrorsAreColdOnly
  <2>6. StaleInv'
    <3>1. catalog.models = None \/ now >= catalog.expiry
      BY <1>4 DEF CatalogInv, StaleInv
    <3> QED BY <1>3, <1>5, <2>1, <2>2, <3>1 DEF CatalogInv, StaleInv
  <2> QED BY <1>4, <1>6, <2>3, <2>4, <2>5, <2>6 DEF CatalogInv, CatalogTypes, LedOnce, Looking
<1> QED BY <1>7, <1>8

(* A fetch tells its followers, or dies.                                   *)
LEMMA FetchEnds ==
  ASSUME CatalogInv, NEW s \in Seqs, Notifies(s) \/ Dies(s)
  PROVE  CatalogInv'
<1>1. /\ task \in [Seqs -> Fetches]
      /\ UNCHANGED <<catalog, fetchedAt, failedAt, caller, calls, now>>
  BY DEF CatalogInv, CatalogTypes, CatalogTypeOK, Fetches, Notifies, Dies, FetchLeavesRest
<1>2. /\ task' \in [Seqs -> Fetches] /\ task'[s].models = task[s].models
      /\ \A t \in Seqs \ {s} : task'[t] = task[t]
  BY <1>1 DEF Fetches, Notifies, Dies
<1>3. \/ task[s].at = "committed" /\ task'[s].at = "over"
      \/ task[s].at = "running" /\ task'[s].at = "dead"
  BY <1>1 DEF Fetches, Notifies, Dies
<1>4. CatalogTypeOK'
  BY <1>1, <1>2 DEF CatalogInv, CatalogTypes, CatalogTypeOK, Fetches
<1>5. SlotInv'
  BY <1>1, <1>2, <1>3 DEF CatalogInv, SlotInv
<1>6. AnswerInv'
  <2>1. \A c \in Callers : caller[c].at = "leading" => caller[c].on \in Seqs
    BY DEF CatalogInv, CatalogTypes, CatalogTypeOK, Seqs, None
  <2> QED BY <1>1, <1>2, <1>3, <2>1 DEF CatalogInv, AnswerInv, ErrorsAreColdOnly
<1>7. StaleInv'
  BY <1>1, <1>2, <1>3 DEF CatalogInv, StaleInv
<1> QED BY <1>1, <1>4, <1>5, <1>6, <1>7 DEF CatalogInv, CatalogTypes, LedOnce, Looking

LEMMA TickStep == CatalogInv /\ Tick => CatalogInv'
<1> SUFFICES ASSUME CatalogInv, Tick PROVE CatalogInv'
  OBVIOUS
<1>1. /\ now \in 0..MaxTime /\ now' = now + 1 /\ now' \in 0..MaxTime /\ failedAt \in Nat
      /\ catalog.expiry \in Nat
      /\ UNCHANGED <<catalog, task, caller, calls, fetchedAt, failedAt>>
  BY DEF Tick, CatalogInv, CatalogTypes, CatalogTypeOK
<1>2. CatalogTypes' /\ AnswerInv'
  BY <1>1 DEF CatalogInv, CatalogTypes, CatalogTypeOK, LedOnce, Looking, AnswerInv,
     ErrorsAreColdOnly
<1>3. SlotInv'
  BY <1>1 DEF CatalogInv, SlotInv
<1>4. StaleInv'
  BY <1>1 DEF CatalogInv, StaleInv
<1> QED BY <1>2, <1>3, <1>4 DEF CatalogInv

LEMMA CatalogStarts == CatalogInit => CatalogInv
<1> SUFFICES ASSUME CatalogInit PROVE CatalogInv
  OBVIOUS
<1>1. CatalogTypeOK
  BY DEF CatalogInit, CatalogTypeOK, NewCatalog, NoTask, Idle, None, Seqs
<1>2. LedOnce
  <2>1. Looking = {}
    BY DEF Looking, CatalogInit, Idle
  <2> QED BY <2>1, FS_EmptySet DEF LedOnce, CatalogInit, NewCatalog
<1>3. SlotInv
  BY DEF CatalogInit, SlotInv, NewCatalog, NoTask, None, Seqs
<1>4. AnswerInv
  BY DEF CatalogInit, AnswerInv, ErrorsAreColdOnly, NewCatalog, Idle, None
<1>5. StaleInv
  BY DEF CatalogInit, StaleInv, NewCatalog, NoTask, None
<1> QED BY <1>1, <1>2, <1>3, <1>4, <1>5 DEF CatalogInv, CatalogTypes

LEMMA CatalogSteps == CatalogInv /\ [CatalogNext]_catalogVars => CatalogInv'
<1>1. CatalogInv /\ UNCHANGED catalogVars => CatalogInv'
  BY DEF catalogVars, CatalogInv, CatalogTypes, CatalogTypeOK, LedOnce, Looking, SlotInv,
         AnswerInv, ErrorsAreColdOnly, StaleInv
<1> QED BY <1>1, CallsStep, CallStep, CommitsStep, FetchEnds, TickStep
        DEF CatalogNext, Fetch, CatalogRests

LEMMA CatalogHolds == CatalogSpec => []CatalogInv
BY CatalogStarts, CatalogSteps, PTL DEF CatalogSpec

THEOREM CatalogTypeCorrect == CatalogSpec => []CatalogTypeOK
BY CatalogHolds, PTL DEF CatalogInv, CatalogTypes

(* Only the caller that leads starts a fetch.                              *)
LEMMA StartIsRationed ==
  ASSUME CatalogInv, [CatalogNext]_catalogVars, NEW s \in Seqs,
         task[s].at = "none", task'[s].at = "running"
  PROVE  /\ \A t \in Seqs \ {s} : task'[t].at # "running"
         /\ failedAt = None \/ now >= failedAt + Backoff
<1>1. task \in [Seqs -> Fetches]
  BY DEF CatalogInv, CatalogTypes, CatalogTypeOK, Fetches
<1>2. task' # task
  OBVIOUS
<1>3. ASSUME NEW r \in Seqs, Fetch(r) PROVE FALSE
  <2>1. task'[s] = task[s] \/ task'[s].at \in {"committed", "over", "dead"}
    BY <1>1, <1>3 DEF Fetch, Commits, Fails, Outcome, Notifies, Dies, Fetches
  <2> QED BY <2>1
<1>4. PICK c \in Callers : Looks(c)
  BY <1>2, <1>3 DEF CatalogNext, catalogVars, Calls, Call, Woken, LeaderReturns, Leaves, Tick,
     CatalogRests
<1>5. ~CoolingDown /\ catalog.fetch = None /\ Leads(c)
  BY <1>2, <1>4 DEF Looks, FromCache, AnswersInCooldown, Follows
<1>6. task' = [task EXCEPT ![catalog.seq + 1].at = "running"]
  BY <1>5 DEF Leads
<1>7. s = catalog.seq + 1 /\ \A t \in Seqs \ {s} : task'[t] = task[t]
  BY <1>1, <1>6
<1>8. \A t \in Seqs : task[t].at # "running"
  BY <1>5 DEF CatalogInv, SlotInv, Seqs, None
<1>9. failedAt = None \/ now >= failedAt + Backoff
  BY <1>5 DEF CoolingDown, CatalogInv, SlotInv, CatalogTypes, CatalogTypeOK
<1> QED BY <1>7, <1>8, <1>9

(* `list_models` and `run_catalog_fetch` (catalog.rs): a slot is taken     *)
(* and given back under one lock, with the cooldown, and cleared by a      *)
(* follower only for the fetch it waited for.                              *)
THEOREM FetchesRation == CatalogSpec => FetchesAreRationed
<1> DEFINE Rationed(s) == task[s].at = "none" /\ task'[s].at = "running"
                          => /\ \A t \in Seqs \ {s} : task'[t].at # "running"
                             /\ failedAt = None \/ now >= failedAt + Backoff
<1>1. CatalogInv /\ [CatalogNext]_catalogVars => [\A s \in Seqs : Rationed(s)]_catalogVars
  BY StartIsRationed
<1> QED BY <1>1, CatalogHolds, PTL DEF CatalogSpec, FetchesAreRationed

(* What a caller is handed from the cache is in time, or a refresh has     *)
(* failed since.                                                           *)
LEMMA CacheIsFair ==
  ASSUME CatalogInv, catalog.models # None, Fresh \/ CoolingDown
  PROVE  \/ now < fetchedAt[catalog.models] + Ttl
         \/ failedAt >= fetchedAt[catalog.models] + Ttl
<1>1. catalog.expiry = fetchedAt[catalog.models] + Ttl
  BY DEF CatalogInv, StaleInv
<1>2. now \in Nat /\ failedAt \in Nat /\ catalog.expiry \in Nat /\ catalog.retryUntil \in Nat
  BY DEF CatalogInv, CatalogTypes, CatalogTypeOK
<1>3. CASE Fresh
  BY <1>1, <1>3 DEF Fresh
<1>4. CASE CoolingDown
  <2>1. failedAt # None
    BY <1>2, <1>4 DEF CoolingDown, CatalogInv, SlotInv
  <2> QED BY <1>1, <2>1 DEF CatalogInv, StaleInv
<1> QED BY <1>3, <1>4

LEMMA CacheIsHandedOut ==
  ASSUME CatalogInv, [CatalogNext]_catalogVars, NEW c \in Callers,
         caller[c].at # "answered", caller'[c].answer = "models"
  PROVE  \/ /\ caller[c].at = "looking" /\ caller'[c].models = catalog.models
            /\ caller'[c].since = caller[c].since
            /\ catalog.models # None /\ (Fresh \/ CoolingDown)
         \/ /\ caller[c].at = "leading" /\ caller[c].on \in Seqs
            /\ task[caller[c].on].at \in {"committed", "over"}
            /\ caller'[c].models = task[caller[c].on].models
            /\ caller'[c].since = caller[c].since
<1>1. CatalogTypeOK /\ caller[c].answer = "none" /\ caller' # caller
  BY DEF CatalogInv, CatalogTypes, AnswerInv
<1>2. caller \in [Callers -> Callings] /\ caller[c] \in Callings
  BY <1>1 DEF CatalogTypeOK, Callings
<1>3. PICK d \in Callers : Calls(d) \/ Call(d) \/ Leaves(d)
  BY <1>1 DEF CatalogNext, catalogVars, Fetch, Commits, Fails, Notifies, Dies, FetchLeavesRest,
     Tick, CatalogRests
<1>4. ASSUME NEW answer, NEW models, Answers(d, answer, models)
      PROVE  c = d /\ answer = "models" /\ caller'[c].models = models
             /\ caller'[c].since = caller[c].since
  <2>1. c = d
    BY <1>1, <1>2, <1>4 DEF Answers
  <2>2. caller'[c].answer = answer /\ caller'[c].models = models
        /\ caller'[c].since = caller[c].since
    BY <1>2, <1>4, <2>1 DEF Answers, Callings
  <2> QED BY <2>1, <2>2
<1>5. ASSUME NEW at, NEW s, Moves(d, at, s) PROVE FALSE
  <2>1. caller'[c].answer = caller[c].answer
    BY <1>2, <1>5 DEF Moves, Callings
  <2> QED BY <1>1, <2>1
<1>6. CASE Calls(d)
  <2>1. caller'[c].answer \in {"none", caller[c].answer}
    BY <1>2, <1>6 DEF Calls, Idle, Callings
  <2> QED BY <1>1, <2>1
<1>7. CASE Looks(d)
  <2>1. caller[d].at = "looking" /\ (Fresh \/ CoolingDown) /\ FromCache(d)
        /\ catalog.models # None
    BY <1>4, <1>5, <1>7 DEF Looks, FromCache, AnswersInCooldown, Follows, Leads, Fresh
  <2>2. Answers(d, "models", catalog.models)
    BY <2>1 DEF FromCache
  <2> QED BY <1>4, <2>1, <2>2
<1>8. CASE Woken(d)
  BY <1>5, <1>8 DEF Woken
<1>9. CASE LeaderReturns(d)
  <2>1. caller[d].on \in Seqs
    BY <1>1, <1>9 DEF LeaderReturns, CatalogTypeOK, Seqs, None
  <2>2. task[caller[d].on].models # None /\ Answers(d, "models", task[caller[d].on].models)
    BY <1>4, <1>9 DEF LeaderReturns
  <2>3. task[caller[d].on].at \in {"committed", "over"}
    BY <1>9, <2>1, <2>2 DEF LeaderReturns, CatalogInv, SlotInv
  <2>4. caller[d].at = "leading"
    BY <1>9 DEF LeaderReturns
  <2> QED BY <1>4, <2>1, <2>2, <2>3, <2>4
<1>10. CASE Leaves(d)
  <2>1. Answers(d, "cancelled", None)
    BY <1>10 DEF Leaves
  <2> QED BY <1>4, <2>1
<1> QED BY <1>3, <1>6, <1>7, <1>8, <1>9, <1>10 DEF Call

LEMMA ModelsGrow ==
  ASSUME CatalogInv, [CatalogNext]_catalogVars
  PROVE  catalog'.models >= catalog.models
<1>1. catalog \in Catalogs /\ catalog.models \in Nat
  BY DEF CatalogInv, CatalogTypes, CatalogTypeOK, Catalogs
<1>2. CASE catalog'.models = catalog.models
  BY <1>1, <1>2
<1>3. CASE \E s \in Seqs : Commits(s)
  <2>1. PICK s \in Seqs : Commits(s)
    BY <1>3
  <2>2. catalog.fetch = s /\ s # None /\ catalog.seq = s /\ catalog.models < s
    BY <2>1 DEF Commits, CatalogInv, SlotInv, Seqs, None
  <2>3. catalog'.models = s
    BY <1>1, <2>1 DEF Commits, Catalogs
  <2> QED BY <1>1, <2>2, <2>3 DEF Seqs
<1>4. CASE \E s \in Seqs : \E cancelLike \in BOOLEAN : Fails(s, cancelLike)
  BY <1>1, <1>2, <1>4 DEF Fails, Catalogs
<1>5. CASE \E c \in Callers : Looks(c)
  BY <1>1, <1>2, <1>5 DEF Looks, FromCache, AnswersInCooldown, Follows, Leads, Catalogs
<1>6. CASE \E c \in Callers : Woken(c)
  BY <1>1, <1>2, <1>6 DEF Woken, Catalogs
<1> QED BY <1>2, <1>3, <1>4, <1>5, <1>6
        DEF CatalogNext, catalogVars, Calls, Call, LeaderReturns, Leaves, Fetch, Notifies, Dies,
            Tick, CatalogRests

LEMMA HandsOutFairly ==
  ASSUME CatalogInv, [CatalogNext]_catalogVars, NEW c \in Callers,
         caller[c].at # "answered", caller'[c].answer = "models"
  PROVE  /\ caller'[c].models >= caller[c].since
         /\ caller[c].at = "looking" =>
              \/ now < fetchedAt[caller'[c].models] + Ttl
              \/ failedAt >= fetchedAt[caller'[c].models] + Ttl
<1>1. /\ caller[c].since \in Nat /\ catalog.models \in Nat
      /\ \A s \in Seqs : task[s].models \in Nat
      /\ caller[c].since <= catalog.models
  BY DEF CatalogInv, CatalogTypes, CatalogTypeOK, AnswerInv
<1>2. CASE /\ caller[c].at = "looking" /\ caller'[c].models = catalog.models
           /\ catalog.models # None /\ (Fresh \/ CoolingDown)
  BY <1>1, <1>2, CacheIsFair
<1>3. CASE /\ caller[c].at = "leading" /\ caller[c].on \in Seqs
           /\ task[caller[c].on].at \in {"committed", "over"}
           /\ caller'[c].models = task[caller[c].on].models
  BY <1>1, <1>3 DEF CatalogInv, AnswerInv
<1> QED BY <1>2, <1>3, CacheIsHandedOut

(* `list_models` (catalog.rs): the rules of what a call is answered with.  *)
THEOREM BestIsAnswered == CatalogSpec => AnswersAreTheBest
<1> DEFINE Ages == /\ catalog'.models >= catalog.models
                   /\ \A c \in Callers :
                        caller[c].at # "answered" /\ caller'[c].answer = "models"
                          => caller'[c].models >= caller[c].since
           Stale == \A c \in Callers :
                      caller[c].at = "looking" /\ caller'[c].answer = "models"
                      => \/ now < fetchedAt[caller'[c].models] + Ttl
                         \/ failedAt >= fetchedAt[caller'[c].models] + Ttl
<1>1. CatalogInv => ErrorsAreColdOnly
  BY DEF CatalogInv, AnswerInv
<1>2. CatalogInv /\ [CatalogNext]_catalogVars => [Ages]_catalogVars
  BY ModelsGrow, HandsOutFairly
<1>3. CatalogInv /\ [CatalogNext]_catalogVars => [Stale]_catalogVars
  BY HandsOutFairly
<1> QED BY <1>1, <1>2, <1>3, CatalogHolds, PTL
        DEF CatalogSpec, AnswersAreTheBest, StaleOnlyAfterFailure, CatalogDoesNotAge

-----------------------------------------------------------------------------
(* The completion server *)

USE DEF Server, tracker, Handler

Slots == {t \in Turns : HoldsSlot(t)}
Permits == {t \in Turns : HoldsPermit(t)}

TurnRecord ==
  [at : {"idle", "added", "refused", "reading", "connecting", "first", "completing",
         "returning", "responding", "body", "tail", "told", "finalizing", "over"},
   verdict : Verdicts, task : {"none", "recording", "releasing", "done"},
   recorder : BOOLEAN, record : Verdicts \cup {"aborted"}, metric : Verdicts,
   aborted : BOOLEAN]

(* The types, but for the limit of the permits, which SlotsAccounted adds. *)
Types ==
  /\ shutdown \in {"serving", "draining", "waiting", "over"}
  /\ draining \in BOOLEAN /\ accepting \in BOOLEAN
  /\ inflight \in Nat /\ permits \in Nat
  /\ emptied \in BOOLEAN /\ idle \in BOOLEAN
  /\ conn \in [Turns -> [at : {"none", "serving", "graceful", "closed"}, armed : BOOLEAN]]
  /\ turn \in [Turns -> TurnRecord]

(* A record that was written says what its request decided, unless the     *)
(* panel had aborted it.                                                   *)
Matches(t) == \/ turn[t].record = turn[t].verdict
              \/ turn[t].verdict = "disconnected" /\ turn[t].record = "aborted"

(* Where a request stands determines what it has decided and recorded.     *)
Ordered(t) ==
  /\ turn[t].task # "none" => turn[t].at \in {"finalizing", "over"}
  /\ turn[t].at = "finalizing" => turn[t].task # "none"
  /\ turn[t].at \in {"idle", "added", "refused", "reading"} => ~turn[t].recorder
  /\ turn[t].at \in {"completing", "returning", "responding", "tail", "finalizing"}
       => turn[t].verdict # "none"
  /\ turn[t].task # "none" => turn[t].verdict # "none"

Recorded(t) ==
  /\ turn[t].at \in {"idle", "added", "refused", "reading", "connecting", "first",
                     "body", "tail"}
       => turn[t].record = "none"
  /\ turn[t].task = "recording" => turn[t].record = "none"
  /\ turn[t].at \in {"completing", "returning"} => turn[t].record = "none" \/ Matches(t)
  /\ turn[t].at = "responding" /\ turn[t].recorder => turn[t].record # "none" /\ Matches(t)
  /\ turn[t].task \in {"releasing", "done"} => turn[t].record # "none" /\ Matches(t)
  /\ turn[t].at = "told" => turn[t].record = "failed"
  /\ turn[t].at = "over" /\ turn[t].recorder /\ turn[t].task = "none"
       => turn[t].record # "none"
  /\ turn[t].metric = "completed" => turn[t].record = "completed"
  /\ turn[t].metric = "failed" /\ turn[t].recorder
       => turn[t].record \in {"failed", "disconnected", "aborted"}

TurnInv == \A t \in Turns : Ordered(t) /\ Recorded(t)

(* Both waiters of the drain start after the flag is up; no turn is        *)
(* admitted any more, so what they saw empty stays so.                     *)
DrainInv ==
  /\ shutdown # "serving" <=> draining
  /\ emptied \/ idle => draining /\ \A t \in Turns : ~HoldsPermit(t)
  /\ \A t \in Turns : conn[t].at = "graceful" => emptied

IInv == Types /\ SlotsAccounted /\ TurnInv /\ DrainInv

-----------------------------------------------------------------------------
(* Counting *)

LEMMA CountMove ==
  ASSUME NEW S, IsFiniteSet(S), NEW T, NEW x, S \ {x} = T \ {x}
  PROVE  /\ IsFiniteSet(T)
         /\ Cardinality(S) \in Nat /\ Cardinality(T) \in Nat
         /\ Cardinality(T) = Cardinality(S) + (IF x \in T THEN 1 ELSE 0)
                                            - (IF x \in S THEN 1 ELSE 0)
<1>1. IsFiniteSet(S \ {x}) /\ Cardinality(S \ {x}) =
        IF x \in S THEN Cardinality(S) - 1 ELSE Cardinality(S)
  BY FS_RemoveElement
<1>2. T = IF x \in T THEN (S \ {x}) \cup {x} ELSE S \ {x}
  OBVIOUS
<1>3. IsFiniteSet((S \ {x}) \cup {x}) /\ Cardinality((S \ {x}) \cup {x}) =
        Cardinality(S \ {x}) + 1
  BY <1>1, FS_AddElement
<1>4. Cardinality(S) \in Nat /\ Cardinality(S \ {x}) \in Nat
  BY <1>1, FS_CardinalityType
<1>5. IsFiniteSet(T)
  BY <1>1, <1>2, <1>3
<1>6. Cardinality(T) \in Nat
  BY <1>5, FS_CardinalityType
<1>7. CASE x \in T
  <2>1. Cardinality(T) = Cardinality(S \ {x}) + 1
    BY <1>2, <1>3, <1>7
  <2> QED BY <1>1, <1>4, <1>5, <1>6, <1>7, <2>1
<1>8. CASE x \notin T
  <2>1. Cardinality(T) = Cardinality(S \ {x})
    BY <1>2, <1>8
  <2>2. Cardinality(T) = IF x \in S THEN Cardinality(S) - 1 ELSE Cardinality(S)
    BY <1>1, <2>1
  <2> QED BY <1>4, <1>5, <1>6, <1>8, <2>2
<1> QED BY <1>7, <1>8

(* What one step of one turn does to the counters. *)
Settles(t) ==
  /\ inflight' = inflight + (IF HoldsSlot(t)' THEN 1 ELSE 0)
                          - (IF HoldsSlot(t) THEN 1 ELSE 0)
  /\ permits' = permits + (IF HoldsPermit(t) THEN 1 ELSE 0)
                        - (IF HoldsPermit(t)' THEN 1 ELSE 0)

Others(t) == \A u \in Turns : u # t => turn'[u] = turn[u]

LEMMA Counted ==
  ASSUME IInv, NEW t \in Turns, Others(t), Settles(t)
  PROVE  SlotsAccounted'
<1>1. IsFiniteSet(Slots) /\ IsFiniteSet(Permits)
  BY TurnsAssumption, FS_Subset DEF Slots, Permits
<1>2. Slots \ {t} = Slots' \ {t} /\ Permits \ {t} = Permits' \ {t}
  BY DEF Others, Slots, Permits, HoldsSlot, HoldsPermit
<1>3. t \in Slots <=> HoldsSlot(t)
  BY DEF Slots
<1>4. t \in Slots' <=> HoldsSlot(t)'
  BY DEF Slots
<1>5. (t \in Permits <=> HoldsPermit(t)) /\ (t \in Permits' <=> HoldsPermit(t)')
  BY DEF Permits
<1>6. /\ Cardinality(Slots) \in Nat
      /\ Cardinality(Slots') = Cardinality(Slots) + (IF t \in Slots' THEN 1 ELSE 0)
                                                  - (IF t \in Slots THEN 1 ELSE 0)
  BY <1>1, <1>2, CountMove
<1>7. /\ Cardinality(Permits) \in Nat
      /\ Cardinality(Permits') = Cardinality(Permits) + (IF t \in Permits' THEN 1 ELSE 0)
                                                      - (IF t \in Permits THEN 1 ELSE 0)
  BY <1>1, <1>2, CountMove
<1>8. inflight = Cardinality(Slots) /\ permits + Cardinality(Permits) = MaxPermits
  BY DEF IInv, SlotsAccounted, Slots, Permits
<1>9. inflight' = Cardinality(Slots')
  BY <1>3, <1>4, <1>6, <1>8 DEF Settles
<1>10. permits' + Cardinality(Permits') = MaxPermits
  BY <1>5, <1>7, <1>8, PermitsAssumption DEF Settles, IInv, Types
<1> QED BY <1>9, <1>10 DEF SlotsAccounted, Slots, Permits

(* A turn that holds a slot is counted, so `done` never saturates. *)
LEMMA SlotCounted ==
  ASSUME IInv, NEW t \in Turns, HoldsSlot(t)
  PROVE  inflight \in Nat /\ inflight > 0 /\ permits \in Nat
<1>1. IsFiniteSet(Slots)
  BY TurnsAssumption, FS_Subset DEF Slots
<1>2. Cardinality(Slots) # 0
  BY <1>1, FS_EmptySet DEF Slots
<1> QED BY <1>2 DEF IInv, Types, SlotsAccounted, Slots

LEMMA EmptyIsQuiet ==
  ASSUME Types, SlotsAccounted, inflight = 0, NEW t \in Turns
  PROVE  ~HoldsPermit(t)
<1>1. IsFiniteSet(Slots)
  BY TurnsAssumption, FS_Subset DEF Slots
<1>2. Slots = {}
  BY <1>1, FS_EmptySet DEF SlotsAccounted, Slots
<1> QED BY <1>2 DEF Slots, HoldsSlot

-----------------------------------------------------------------------------
(* The step of one turn *)

(* What every step of a turn's own does to the rest of the state. *)
Quiet(t) ==
  /\ UNCHANGED <<shutdown, draining, accepting, conn>>
  /\ HoldsPermit(t)' => HoldsPermit(t) \/ ~draining
  /\ (emptied => emptied') /\ (emptied' => emptied \/ (draining /\ inflight' = 0))
  /\ idle' => idle \/ (shutdown = "waiting" /\ inflight' = 0)

Step(t) ==
  /\ Types' /\ Others(t) /\ Settles(t) /\ Quiet(t)
  /\ Ordered(t)' /\ Recorded(t)'

USE DEF Goes, Open, ReleasesAdmission, ReleasesRefusal, LeavesInflight, Leave, Completed

(* The fields of the turn that steps, in place of the function they are in. *)
Becomes(t, r) == /\ turn' \in [Turns -> TurnRecord] /\ Others(t) /\ turn'[t] = r

LEMMA TurnBecomes ==
  ASSUME Types, NEW t \in Turns, NEW r \in TurnRecord, turn' = [turn EXCEPT ![t] = r]
  PROVE  Becomes(t, r)
BY DEF Types, Becomes, Others

LEMMA TurnSteps ==
  ASSUME IInv, NEW t \in Turns, Progress(t) \/ Runs(t)
  PROVE  Step(t)
<1>1. Types /\ turn[t] \in TurnRecord /\ Ordered(t) /\ Recorded(t)
  BY DEF IInv, TurnInv, Types
<1>2. HoldsSlot(t) => inflight > 0
  BY SlotCounted
<1>3. CASE Arrive(t)
  <2> DEFINE r == [turn[t] EXCEPT !.at = "added"]
  <2>1. r \in TurnRecord
    BY <1>1, <1>3 DEF Arrive, TurnRecord, Verdicts
  <2>2. turn' = [turn EXCEPT ![t] = r]
    BY <1>1, <1>3 DEF Arrive, Types
  <2>3. Becomes(t, r)
    BY <1>1, <2>1, <2>2, TurnBecomes
  <2> QED BY <1>1, <1>2, <2>3, <1>3
         DEF Arrive, Becomes, Step, Types, Settles, Quiet, Matches, HoldsSlot, HoldsPermit,
             TurnRecord, Ordered, Recorded
<1>4. CASE Admit(t)
  <2> DEFINE r == [turn[t] EXCEPT !.at = IF draining \/ permits = 0 THEN "refused" ELSE "reading"]
  <2>1. r \in TurnRecord
    BY <1>1, <1>4 DEF Admit, TurnRecord, Verdicts
  <2>2. turn' = [turn EXCEPT ![t] = r]
    BY <1>1, <1>4 DEF Admit, Types
  <2>3. Becomes(t, r)
    BY <1>1, <2>1, <2>2, TurnBecomes
  <2> QED BY <1>1, <1>2, <2>3, <1>4, SMTT(30)
         DEF Admit, Becomes, Step, Types, Settles, Quiet, Matches, HoldsSlot, HoldsPermit,
             TurnRecord, Ordered, Recorded
<1>5. CASE RefusalLeaves(t)
  <2> DEFINE r == [turn[t] EXCEPT !.at = "over"]
  <2>1. r \in TurnRecord
    BY <1>1, <1>5 DEF RefusalLeaves, TurnRecord, Verdicts
  <2>2. turn' = [turn EXCEPT ![t] = r]
    BY <1>1, <1>5 DEF RefusalLeaves, Types
  <2>3. Becomes(t, r)
    BY <1>1, <2>1, <2>2, TurnBecomes
  <2> QED BY <1>1, <1>2, <2>3, <1>5
         DEF RefusalLeaves, Becomes, Step, Types, Settles, Quiet, Matches, HoldsSlot, HoldsPermit,
             TurnRecord, Ordered, Recorded
<1>6. CASE BodyArrives(t)
  <2> DEFINE r == [turn[t] EXCEPT !.at = "connecting", !.recorder = TRUE]
  <2>1. r \in TurnRecord
    BY <1>1, <1>6 DEF BodyArrives, TurnRecord, Verdicts
  <2>2. turn' = [turn EXCEPT ![t] = r]
    BY <1>1, <1>6 DEF BodyArrives, Types
  <2>3. Becomes(t, r)
    BY <1>1, <2>1, <2>2, TurnBecomes
  <2> QED BY <1>1, <1>2, <2>3, <1>6
         DEF BodyArrives, Becomes, Step, Types, Settles, Quiet, Matches, HoldsSlot, HoldsPermit,
             TurnRecord, Ordered, Recorded
<1>7. CASE BodyIsBad(t)
  <2> DEFINE r == [turn[t] EXCEPT !.at = "completing", !.recorder = TRUE, !.verdict = "failed"]
  <2>1. r \in TurnRecord
    BY <1>1, <1>7 DEF BodyIsBad, TurnRecord, Verdicts
  <2>2. turn' = [turn EXCEPT ![t] = r]
    BY <1>1, <1>7 DEF BodyIsBad, Types
  <2>3. Becomes(t, r)
    BY <1>1, <2>1, <2>2, TurnBecomes
  <2> QED BY <1>1, <1>2, <2>3, <1>7
         DEF BodyIsBad, Becomes, Step, Types, Settles, Quiet, Matches, HoldsSlot, HoldsPermit,
             TurnRecord, Ordered, Recorded
<1>8. CASE BodyFails(t)
  <2> DEFINE r == [turn[t] EXCEPT !.at = "responding", !.verdict = "failed"]
  <2>1. r \in TurnRecord
    BY <1>1, <1>8 DEF BodyFails, TurnRecord, Verdicts
  <2>2. turn' = [turn EXCEPT ![t] = r]
    BY <1>1, <1>8 DEF BodyFails, Types
  <2>3. Becomes(t, r)
    BY <1>1, <2>1, <2>2, TurnBecomes
  <2> QED BY <1>1, <1>2, <2>3, <1>8
         DEF BodyFails, Becomes, Step, Types, Settles, Quiet, Matches, HoldsSlot, HoldsPermit,
             TurnRecord, Ordered, Recorded
<1>9. CASE StreamOpens(t)
  <2> DEFINE r == [turn[t] EXCEPT !.at = "first"]
  <2>1. r \in TurnRecord
    BY <1>1, <1>9 DEF StreamOpens, TurnRecord, Verdicts
  <2>2. turn' = [turn EXCEPT ![t] = r]
    BY <1>1, <1>9 DEF StreamOpens, Types
  <2>3. Becomes(t, r)
    BY <1>1, <2>1, <2>2, TurnBecomes
  <2> QED BY <1>1, <1>2, <2>3, <1>9
         DEF StreamOpens, Becomes, Step, Types, Settles, Quiet, Matches, HoldsSlot, HoldsPermit,
             TurnRecord, Ordered, Recorded
<1>10. CASE StreamFails(t)
  <2> DEFINE r == [turn[t] EXCEPT !.at = "completing", !.verdict = "failed"]
  <2>1. r \in TurnRecord
    BY <1>1, <1>10 DEF StreamFails, TurnRecord, Verdicts
  <2>2. turn' = [turn EXCEPT ![t] = r]
    BY <1>1, <1>10 DEF StreamFails, Types
  <2>3. Becomes(t, r)
    BY <1>1, <2>1, <2>2, TurnBecomes
  <2> QED BY <1>1, <1>2, <2>3, <1>10
         DEF StreamFails, Becomes, Step, Types, Settles, Quiet, Matches, HoldsSlot, HoldsPermit,
             TurnRecord, Ordered, Recorded
<1>11. CASE FirstCommits(t)
  <2> DEFINE r == [turn[t] EXCEPT !.at = "body"]
  <2>1. r \in TurnRecord
    BY <1>1, <1>11 DEF FirstCommits, TurnRecord, Verdicts
  <2>2. turn' = [turn EXCEPT ![t] = r]
    BY <1>1, <1>11 DEF FirstCommits, Types
  <2>3. Becomes(t, r)
    BY <1>1, <2>1, <2>2, TurnBecomes
  <2> QED BY <1>1, <1>2, <2>3, <1>11
         DEF FirstCommits, Becomes, Step, Types, Settles, Quiet, Matches, HoldsSlot, HoldsPermit,
             TurnRecord, Ordered, Recorded
<1>12. CASE FirstTells(t)
  <2> DEFINE r == [turn[t] EXCEPT !.at = "told", !.verdict = "failed",
        !.record = Completed(t, "failed")]
  <2>1. r \in TurnRecord
    BY <1>1, <1>12 DEF FirstTells, TurnRecord, Verdicts
  <2>2. turn' = [turn EXCEPT ![t] = r]
    BY <1>1, <1>12 DEF FirstTells, Types
  <2>3. Becomes(t, r)
    BY <1>1, <2>1, <2>2, TurnBecomes
  <2> QED BY <1>1, <1>2, <2>3, <1>12
         DEF FirstTells, Becomes, Step, Types, Settles, Quiet, Matches, HoldsSlot, HoldsPermit,
             TurnRecord, Ordered, Recorded
<1>13. CASE ResponseEnds(t)
  <2> DEFINE r == [turn[t] EXCEPT !.at = "over", !.metric = turn[t].verdict]
  <2>1. r \in TurnRecord
    BY <1>1, <1>13 DEF ResponseEnds, TurnRecord, Verdicts
  <2>2. turn' = [turn EXCEPT ![t] = r]
    BY <1>1, <1>13 DEF ResponseEnds, Types
  <2>3. Becomes(t, r)
    BY <1>1, <2>1, <2>2, TurnBecomes
  <2> QED BY <1>1, <1>2, <2>3, <1>13
         DEF ResponseEnds, Becomes, Step, Types, Settles, Quiet, Matches, HoldsSlot, HoldsPermit,
             TurnRecord, Ordered, Recorded
<1>14. CASE TailTaken(t)
  <2> DEFINE r == [turn[t] EXCEPT !.at = "finalizing", !.task = "recording"]
  <2>1. r \in TurnRecord
    BY <1>1, <1>14 DEF TailTaken, TurnRecord, Verdicts
  <2>2. turn' = [turn EXCEPT ![t] = r]
    BY <1>1, <1>14 DEF TailTaken, Types
  <2>3. Becomes(t, r)
    BY <1>1, <2>1, <2>2, TurnBecomes
  <2> QED BY <1>1, <1>2, <2>3, <1>14
         DEF TailTaken, Becomes, Step, Types, Settles, Quiet, Matches, HoldsSlot, HoldsPermit,
             TurnRecord, Ordered, Recorded
<1>15. CASE BodyEnds(t)
  <2> DEFINE r == [turn[t] EXCEPT !.at = "over",
        !.metric = IF turn[t].verdict = "completed" THEN "completed" ELSE "failed"]
  <2>1. r \in TurnRecord
    BY <1>1, <1>15 DEF BodyEnds, TurnRecord, Verdicts
  <2>2. turn' = [turn EXCEPT ![t] = r]
    BY <1>1, <1>15 DEF BodyEnds, Types
  <2>3. Becomes(t, r)
    BY <1>1, <2>1, <2>2, TurnBecomes
  <2> QED BY <1>1, <1>2, <2>3, <1>15
         DEF BodyEnds, Becomes, Step, Types, Settles, Quiet, Matches, HoldsSlot, HoldsPermit,
             TurnRecord, Ordered, Recorded
<1>16. CASE ToldEnds(t)
  <2> DEFINE r == [turn[t] EXCEPT !.at = "over", !.metric = "failed"]
  <2>1. r \in TurnRecord
    BY <1>1, <1>16 DEF ToldEnds, TurnRecord, Verdicts
  <2>2. turn' = [turn EXCEPT ![t] = r]
    BY <1>1, <1>16 DEF ToldEnds, Types
  <2>3. Becomes(t, r)
    BY <1>1, <2>1, <2>2, TurnBecomes
  <2> QED BY <1>1, <1>2, <2>3, <1>16
         DEF ToldEnds, Becomes, Step, Types, Settles, Quiet, Matches, HoldsSlot, HoldsPermit,
             TurnRecord, Ordered, Recorded
<1>17. CASE Abort(t)
  <2> DEFINE r == [turn[t] EXCEPT !.aborted = TRUE]
  <2>1. r \in TurnRecord
    BY <1>1, <1>17 DEF Abort, TurnRecord, Verdicts
  <2>2. turn' = [turn EXCEPT ![t] = r]
    BY <1>1, <1>17 DEF Abort, Types
  <2>3. Becomes(t, r)
    BY <1>1, <2>1, <2>2, TurnBecomes
  <2> QED BY <1>1, <1>2, <2>3, <1>17
         DEF Abort, Becomes, Step, Types, Settles, Quiet, Matches, HoldsSlot, HoldsPermit,
             TurnRecord, Ordered, Recorded
<1>18. CASE HandlerRecords(t)
  <2> DEFINE r == [turn[t] EXCEPT !.record = Completed(t, turn[t].verdict)]
  <2>1. r \in TurnRecord
    BY <1>1, <1>18 DEF HandlerRecords, TurnRecord, Verdicts
  <2>2. turn' = [turn EXCEPT ![t] = r]
    BY <1>1, <1>18 DEF HandlerRecords, Types
  <2>3. Becomes(t, r)
    BY <1>1, <2>1, <2>2, TurnBecomes
  <2> QED BY <1>1, <1>2, <2>3, <1>18
         DEF HandlerRecords, Becomes, Step, Types, Settles, Quiet, Matches, HoldsSlot, HoldsPermit,
             TurnRecord, Ordered, Recorded
<1>19. CASE HandlerReturns(t)
  <2> DEFINE r == [turn[t] EXCEPT !.at = IF Open(t) THEN "responding" ELSE "over",
        !.metric = IF Open(t) THEN turn[t].metric ELSE "disconnected",
        !.record = Completed(t, "disconnected")]
  <2>1. r \in TurnRecord
    BY <1>1, <1>19 DEF HandlerReturns, TurnRecord, Verdicts
  <2>2. turn' = [turn EXCEPT ![t] = r]
    BY <1>1, <1>19 DEF HandlerReturns, Types
  <2>3. Becomes(t, r)
    BY <1>1, <2>1, <2>2, TurnBecomes
  <2>4. Types' /\ Settles(t) /\ Quiet(t)
    <3>1. ~HoldsPermit(t)' /\ ~HoldsSlot(t)'
      BY <1>1, <2>3, <1>19 DEF HandlerReturns, Becomes, HoldsSlot, HoldsPermit, TurnRecord, Ordered
    <3>2. CASE turn[t].at = "completing"
      BY <1>1, <1>2, <2>3, <3>1, <3>2, <1>19
         DEF HandlerReturns, Becomes, Types, Settles, Quiet, HoldsSlot, HoldsPermit
    <3>3. CASE turn[t].at = "returning"
      BY <1>1, <2>3, <3>1, <3>3, <1>19
         DEF HandlerReturns, Becomes, Types, Settles, Quiet, HoldsSlot, HoldsPermit, Ordered
    <3> QED BY <3>2, <3>3, <1>19 DEF HandlerReturns
  <2>5. turn[t].record # "none" /\ Matches(t) /\ turn'[t].record = turn[t].record
        /\ turn'[t].verdict = turn[t].verdict /\ turn'[t].task = turn[t].task
    BY <1>1, <2>3, <1>19 DEF HandlerReturns, Becomes, TurnRecord, Recorded
  <2>6. Recorded(t)'
    BY <1>1, <2>3, <2>5, <1>19, SMTT(30)
       DEF HandlerReturns, Becomes, TurnRecord, Ordered, Recorded, Matches
  <2>7. Ordered(t)'
    BY <1>1, <2>3, <1>19, SMTT(30) DEF HandlerReturns, Becomes, TurnRecord, Ordered
  <2> QED BY <2>3, <2>4, <2>6, <2>7 DEF Step, Becomes
<1>20. CASE TaskRecords(t)
  <2> DEFINE r == [turn[t] EXCEPT !.task = "releasing", !.record = Completed(t, turn[t].verdict)]
  <2>1. r \in TurnRecord
    BY <1>1, <1>20 DEF TaskRecords, TurnRecord, Verdicts
  <2>2. turn' = [turn EXCEPT ![t] = r]
    BY <1>1, <1>20 DEF TaskRecords, Types
  <2>3. Becomes(t, r)
    BY <1>1, <2>1, <2>2, TurnBecomes
  <2> QED BY <1>1, <1>2, <2>3, <1>20
         DEF TaskRecords, Becomes, Step, Types, Settles, Quiet, Matches, HoldsSlot, HoldsPermit,
             TurnRecord, Ordered, Recorded
<1>21. CASE TaskReleases(t)
  <2> DEFINE r == [turn[t] EXCEPT !.task = "done"]
  <2>1. r \in TurnRecord
    BY <1>1, <1>21 DEF TaskReleases, TurnRecord, Verdicts
  <2>2. turn' = [turn EXCEPT ![t] = r]
    BY <1>1, <1>21 DEF TaskReleases, Types
  <2>3. Becomes(t, r)
    BY <1>1, <2>1, <2>2, TurnBecomes
  <2> QED BY <1>1, <1>2, <2>3, <1>21
         DEF TaskReleases, Becomes, Step, Types, Settles, Quiet, Matches, HoldsSlot, HoldsPermit,
             TurnRecord, Ordered, Recorded
<1>22. CASE DropReading(t)
  <2> DEFINE r == [turn[t] EXCEPT !.at = "over", !.metric = "disconnected"]
  <2>1. r \in TurnRecord
    BY <1>1, <1>22 DEF DropReading, TurnRecord, Verdicts
  <2>2. turn' = [turn EXCEPT ![t] = r]
    BY <1>1, <1>22 DEF DropReading, Types
  <2>3. Becomes(t, r)
    BY <1>1, <2>1, <2>2, TurnBecomes
  <2> QED BY <1>1, <1>2, <2>3, <1>22
         DEF DropReading, Becomes, Step, Types, Settles, Quiet, Matches, HoldsSlot, HoldsPermit,
             TurnRecord, Ordered, Recorded
<1>23. CASE DropConnecting(t)
  <2> DEFINE r == [turn[t] EXCEPT !.at = "completing", !.verdict = "disconnected"]
  <2>1. r \in TurnRecord
    BY <1>1, <1>23 DEF DropConnecting, TurnRecord, Verdicts
  <2>2. turn' = [turn EXCEPT ![t] = r]
    BY <1>1, <1>23 DEF DropConnecting, Types
  <2>3. Becomes(t, r)
    BY <1>1, <2>1, <2>2, TurnBecomes
  <2> QED BY <1>1, <1>2, <2>3, <1>23
         DEF DropConnecting, Becomes, Step, Types, Settles, Quiet, Matches, HoldsSlot, HoldsPermit,
             TurnRecord, Ordered, Recorded
<1>24. CASE DropFirst(t)
  <2> DEFINE r == [turn[t] EXCEPT !.at = "returning", !.verdict = "disconnected"]
  <2>1. r \in TurnRecord
    BY <1>1, <1>24 DEF DropFirst, TurnRecord, Verdicts
  <2>2. turn' = [turn EXCEPT ![t] = r]
    BY <1>1, <1>24 DEF DropFirst, Types
  <2>3. Becomes(t, r)
    BY <1>1, <2>1, <2>2, TurnBecomes
  <2> QED BY <1>1, <1>2, <2>3, <1>24
         DEF DropFirst, Becomes, Step, Types, Settles, Quiet, Matches, HoldsSlot, HoldsPermit,
             TurnRecord, Ordered, Recorded
<1>25. CASE DropBody(t)
  <2> DEFINE r == [turn[t] EXCEPT !.at = "over", !.metric = "disconnected", !.task = "recording",
        !.verdict = IF turn[t].at = "tail" THEN turn[t].verdict ELSE "disconnected"]
  <2>1. r \in TurnRecord
    BY <1>1, <1>25, ZenonT(30) DEF DropBody, TurnRecord, Verdicts
  <2>2. turn' = [turn EXCEPT ![t] = r]
    BY <1>1, <1>25 DEF DropBody, Types
  <2>3. Becomes(t, r)
    BY <1>1, <2>1, <2>2, TurnBecomes
  <2> QED BY <1>1, <1>2, <2>3, <1>25
         DEF DropBody, Becomes, Step, Types, Settles, Quiet, Matches, HoldsSlot, HoldsPermit,
             TurnRecord, Ordered, Recorded
<1>26. CASE DropTold(t)
  <2> DEFINE r == [turn[t] EXCEPT !.at = "over", !.metric = "disconnected"]
  <2>1. r \in TurnRecord
    BY <1>1, <1>26 DEF DropTold, TurnRecord, Verdicts
  <2>2. turn' = [turn EXCEPT ![t] = r]
    BY <1>1, <1>26 DEF DropTold, Types
  <2>3. Becomes(t, r)
    BY <1>1, <2>1, <2>2, TurnBecomes
  <2> QED BY <1>1, <1>2, <2>3, <1>26
         DEF DropTold, Becomes, Step, Types, Settles, Quiet, Matches, HoldsSlot, HoldsPermit,
             TurnRecord, Ordered, Recorded
<1>27. CASE DropRest(t)
  <2> DEFINE r == [turn[t] EXCEPT !.at = "over", !.metric = "disconnected"]
  <2>1. r \in TurnRecord
    BY <1>1, <1>27 DEF DropRest, TurnRecord, Verdicts
  <2>2. turn' = [turn EXCEPT ![t] = r]
    BY <1>1, <1>27 DEF DropRest, Types
  <2>3. Becomes(t, r)
    BY <1>1, <2>1, <2>2, TurnBecomes
  <2> QED BY <1>1, <1>2, <2>3, <1>27
         DEF DropRest, Becomes, Step, Types, Settles, Quiet, Matches, HoldsSlot, HoldsPermit,
             TurnRecord, Ordered, Recorded
<1>28. ASSUME NEW verdict \in {"completed", "failed"}, FirstDecides(t, verdict)
      PROVE  Step(t)
  <2> DEFINE r == [turn[t] EXCEPT !.at = "returning", !.verdict = verdict]
  <2>1. r \in TurnRecord
    BY <1>1, <1>28 DEF FirstDecides, TurnRecord, Verdicts
  <2>2. turn' = [turn EXCEPT ![t] = r]
    BY <1>1, <1>28 DEF FirstDecides, Types
  <2>3. Becomes(t, r)
    BY <1>1, <2>1, <2>2, TurnBecomes
  <2> QED BY <1>1, <1>2, <2>3, <1>28
         DEF FirstDecides, Becomes, Step, Types, Settles, Quiet, Matches, HoldsSlot, HoldsPermit,
             TurnRecord, Ordered, Recorded
<1>29. ASSUME NEW verdict \in {"completed", "failed", "disconnected"}, BodyDecides(t, verdict)
      PROVE  Step(t)
  <2>1. CASE turn' = [turn EXCEPT ![t].at = "tail", ![t].verdict = verdict]
    <3> DEFINE r == [turn[t] EXCEPT !.at = "tail", !.verdict = verdict]
    <3>1. r \in TurnRecord
      BY <1>1, <1>29 DEF TurnRecord, Verdicts
    <3>2. turn' = [turn EXCEPT ![t] = r]
      BY <1>1, <2>1 DEF Types
    <3>3. Becomes(t, r)
      BY <1>1, <3>1, <3>2, TurnBecomes
    <3> QED
      BY <1>1, <1>2, <3>3, <1>29
         DEF BodyDecides, Becomes, Step, Types, Settles, Quiet, Matches, HoldsSlot, HoldsPermit,
             TurnRecord, Ordered, Recorded
  <2>2. CASE turn' = [turn EXCEPT ![t].at = "finalizing", ![t].verdict = verdict,
                                       ![t].task = "recording"]
    <3> DEFINE r == [turn[t] EXCEPT !.at = "finalizing", !.verdict = verdict,
          !.task = "recording"]
    <3>1. r \in TurnRecord
      BY <1>1, <1>29 DEF TurnRecord, Verdicts
    <3>2. turn' = [turn EXCEPT ![t] = r]
      BY <1>1, <2>2 DEF Types
    <3>3. Becomes(t, r)
      BY <1>1, <3>1, <3>2, TurnBecomes
    <3> QED
      BY <1>1, <1>2, <3>3, <1>29
         DEF BodyDecides, Becomes, Step, Types, Settles, Quiet, Matches, HoldsSlot, HoldsPermit,
             TurnRecord, Ordered, Recorded
  <2> QED BY <2>1, <2>2, <1>29 DEF BodyDecides
<1> QED BY <1>3, <1>4, <1>5, <1>6, <1>7, <1>8, <1>9, <1>10, <1>11, <1>12, <1>13,
          <1>14, <1>15, <1>16, <1>17, <1>18, <1>19, <1>20, <1>21, <1>22, <1>23,
          <1>24, <1>25, <1>26, <1>27, <1>28, <1>29 DEF Progress, Runs

-----------------------------------------------------------------------------
(* The invariant *)

LEMMA InitInv == Init => IInv
<1> SUFFICES ASSUME Init PROVE IInv
  OBVIOUS
<1>1. Types
  BY PermitsAssumption DEF Init, Types, TurnRecord, Verdicts, NewTurn
<1>2. Slots = {} /\ Permits = {}
  BY DEF Init, NewTurn, Slots, Permits, HoldsSlot, HoldsPermit
<1>3. SlotsAccounted
  BY <1>2, FS_EmptySet, PermitsAssumption DEF Init, SlotsAccounted, Slots, Permits
<1>4. TurnInv /\ DrainInv
  BY DEF Init, NewTurn, TurnInv, Ordered, Recorded, DrainInv, HoldsPermit
<1> QED BY <1>1, <1>3, <1>4 DEF IInv

LEMMA StepInv ==
  ASSUME IInv, NEW t \in Turns, Step(t)
  PROVE  IInv'
<1>1. Types' /\ SlotsAccounted'
  BY Counted DEF Step
<1>2. TurnInv'
  BY DEF IInv, TurnInv, Step, Others, Ordered, Recorded, Matches
<1>3. ASSUME NEW u \in Turns, HoldsPermit(u)'
      PROVE  HoldsPermit(u) \/ ~draining
  BY <1>3 DEF Step, Others, Quiet, HoldsPermit
<1>4. inflight' = 0 => \A u \in Turns : ~HoldsPermit(u)'
  <2> SUFFICES ASSUME inflight' = 0, NEW u \in Turns
               PROVE  ~HoldsPermit(u)'
    OBVIOUS
  <2>1. IsFiniteSet(Slots')
    BY TurnsAssumption, FS_Subset DEF Slots
  <2>2. Cardinality(Slots') = 0
    BY <1>1 DEF SlotsAccounted, Slots
  <2>3. Slots' = {}
    BY <2>1, <2>2, FS_EmptySet
  <2> QED BY <2>3 DEF Slots, HoldsSlot
<1>5. DrainInv'
  <2>1. shutdown' # "serving" <=> draining'
    BY DEF Step, Quiet, IInv, DrainInv
  <2>2. ASSUME emptied' \/ idle'
        PROVE  draining' /\ \A u \in Turns : ~HoldsPermit(u)'
    <3>1. CASE emptied \/ idle
      BY <1>3, <3>1 DEF Step, Quiet, IInv, DrainInv
    <3>2. CASE ~(emptied \/ idle)
      BY <1>4, <2>2, <3>2 DEF Step, Quiet, IInv, DrainInv
    <3> QED BY <3>1, <3>2
  <2>3. emptied => emptied'
    BY DEF Step, Quiet, IInv, Types
  <2>4. \A u \in Turns : conn'[u].at = "graceful" => emptied'
    BY <2>3 DEF Step, Quiet, IInv, DrainInv
  <2> QED BY <2>1, <2>2, <2>4 DEF DrainInv
<1> QED BY <1>1, <1>2, <1>5 DEF IInv

(* A step that moves no turn settles nothing. *)
LEMMA TurnsRest ==
  ASSUME IInv, UNCHANGED <<turn, inflight, permits>>
  PROVE  SlotsAccounted' /\ TurnInv' /\ \A t \in Turns : HoldsPermit(t)' <=> HoldsPermit(t)
BY DEF IInv, SlotsAccounted, TurnInv, Ordered, Recorded, Matches, HoldsSlot, HoldsPermit

LEMMA ConnectionInv ==
  ASSUME IInv, NEW t \in Turns, Connection(t)
  PROVE  IInv'
<1>1. UNCHANGED <<turn, inflight, permits, shutdown, draining, accepting, emptied, idle>>
  BY DEF Connection, Accept, ClientLeaves, ForceClose, Graceful, Closes
<1>2. SlotsAccounted' /\ TurnInv' /\ \A u \in Turns : HoldsPermit(u)' <=> HoldsPermit(u)
  BY <1>1, TurnsRest
<1>3. conn' \in [Turns -> [at : {"none", "serving", "graceful", "closed"}, armed : BOOLEAN]]
  <2> DEFINE C == [at : {"none", "serving", "graceful", "closed"}, armed : BOOLEAN]
  <2>1. \E c \in C : conn' = [conn EXCEPT ![t] = c]
    <3>0. conn \in [Turns -> C] /\ conn[t] \in C /\ draining \in BOOLEAN
      BY DEF IInv, Types
    <3>1. CASE Accept(t)
      <4> WITNESS [at |-> "serving", armed |-> ~draining] \in C
      <4> QED BY <3>1 DEF Accept
    <3>2. CASE ClientLeaves(t) \/ ForceClose(t)
      <4>1. [conn[t] EXCEPT !.at = "closed"] \in C
        BY <3>0
      <4>2. conn' = [conn EXCEPT ![t] = [conn[t] EXCEPT !.at = "closed"]]
        BY <3>0, <3>2 DEF ClientLeaves, ForceClose, Closes
      <4> QED BY <4>1, <4>2
    <3>3. CASE Graceful(t)
      <4> DEFINE at == IF turn[t].at = "idle" THEN "closed" ELSE "graceful"
      <4>1. [conn[t] EXCEPT !.at = at] \in C
        BY <3>0
      <4>2. conn' = [conn EXCEPT ![t] = [conn[t] EXCEPT !.at = at]]
        BY <3>0, <3>3 DEF Graceful
      <4> QED BY <4>1, <4>2
    <3> QED BY <3>1, <3>2, <3>3 DEF Connection
  <2> QED BY <2>1 DEF IInv, Types
<1>4. Types'
  BY <1>1, <1>3 DEF IInv, Types
<1>5. \A u \in Turns : conn'[u].at = "graceful" => emptied
  <2>1. CASE Accept(t)
    BY <2>1 DEF IInv, Types, DrainInv, Accept
  <2>2. CASE ClientLeaves(t) \/ ForceClose(t)
    BY <2>2 DEF IInv, Types, DrainInv, ClientLeaves, ForceClose, Closes
  <2>3. CASE Graceful(t)
    BY <2>3 DEF IInv, Types, DrainInv, Graceful
  <2> QED BY <2>1, <2>2, <2>3 DEF Connection
<1> QED BY <1>1, <1>2, <1>4, <1>5 DEF IInv, DrainInv

LEMMA ShutdownInv ==
  ASSUME IInv, Shutdown
  PROVE  IInv'
<1>1. UNCHANGED <<turn, inflight, permits, conn>>
  BY DEF Shutdown, BeginDrain, StartWait, StopServing, Lifetime
<1>2. SlotsAccounted' /\ TurnInv' /\ \A u \in Turns : HoldsPermit(u)' <=> HoldsPermit(u)
  BY <1>1, TurnsRest
<1>3. Types'
  BY <1>1 DEF IInv, Types, Shutdown, BeginDrain, StartWait, StopServing
<1>4. inflight = 0 => \A u \in Turns : ~HoldsPermit(u)
  BY EmptyIsQuiet DEF IInv
<1>5. DrainInv'
  <2>1. CASE BeginDrain
    <3>1. shutdown' = "draining" /\ draining' /\ (emptied' <=> inflight = 0) /\ idle' = idle
          /\ ~draining
      BY <2>1 DEF BeginDrain, IInv, DrainInv, Types
    <3>2. ~emptied /\ ~idle
      BY <3>1 DEF IInv, DrainInv
    <3>3. (emptied' \/ idle') => \A u \in Turns : ~HoldsPermit(u)'
      BY <1>2, <1>4, <3>1, <3>2
    <3>4. \A u \in Turns : conn'[u].at # "graceful"
      BY <1>1, <3>2 DEF IInv, DrainInv
    <3> QED BY <3>1, <3>3, <3>4 DEF DrainInv
  <2>2. ASSUME NEW reusePort \in BOOLEAN, StartWait(reusePort)
        PROVE  DrainInv'
    BY <1>1, <1>2, <1>4, <2>2 DEF StartWait, IInv, DrainInv, Types
  <2>3. CASE StopServing
    BY <1>1, <1>2, <2>3 DEF StopServing, IInv, DrainInv
  <2> QED BY <2>1, <2>2, <2>3 DEF Shutdown
<1> QED BY <1>2, <1>3, <1>5 DEF IInv

LEMMA NextInv == IInv /\ [Next]_vars => IInv'
<1> SUFFICES ASSUME IInv, [Next]_vars PROVE IInv'
  OBVIOUS
<1>1. CASE Shutdown
  BY <1>1, ShutdownInv
<1>2. ASSUME NEW t \in Turns, Connection(t)
      PROVE  IInv'
  BY <1>2, ConnectionInv
<1>3. ASSUME NEW t \in Turns, Progress(t) \/ Runs(t)
      PROVE  IInv'
  BY <1>3, TurnSteps, StepInv
<1>4. CASE Rests \/ UNCHANGED vars
  <2>1. UNCHANGED vars
    BY <1>4 DEF Rests
  <2>2. SlotsAccounted' /\ TurnInv' /\ \A u \in Turns : HoldsPermit(u)' <=> HoldsPermit(u)
    BY <2>1, TurnsRest DEF vars
  <2> QED BY <2>1, <2>2 DEF vars, IInv, Types, DrainInv
<1> QED BY <1>1, <1>2, <1>3, <1>4 DEF Next

THEOREM Invariance == Spec => []IInv
BY InitInv, NextInv, PTL DEF Spec

-----------------------------------------------------------------------------
(* What it is for *)

(* CompletionServer is type correct; that the free permits stay within the *)
(* limit comes from the accounting.                                        *)
THEOREM TypeCorrect == Spec => []TypeOK
<1>1. IInv => TypeOK
  <2> SUFFICES ASSUME IInv PROVE TypeOK
    OBVIOUS
  <2>1. Cardinality(Permits) \in Nat
    BY TurnsAssumption, FS_Subset, FS_CardinalityType DEF Permits
  <2>2. permits \in 0..MaxPermits
    BY <2>1, PermitsAssumption DEF IInv, Types, SlotsAccounted, Permits
  <2> QED BY <2>2 DEF IInv, Types, TypeOK, TurnRecord
<1> QED BY <1>1, Invariance, PTL

(* Through every interleaving of refusals, drops, bodies and their tasks   *)
(* the drain count is the number of turns in progress and each permit is   *)
(* held by one turn or free.                                               *)
THEOREM SlotsAreAccounted == Spec => []SlotsAccounted
<1>1. IInv => SlotsAccounted
  BY DEF IInv
<1> QED BY <1>1, Invariance, PTL

(* The end of the shutdown's wait leaves no admitted turn behind, and none *)
(* is admitted after it.                                                   *)
THEOREM DrainCoversTurns == Spec => []NoTurnAfterDrain
<1>1. IInv => NoTurnAfterDrain
  BY DEF IInv, DrainInv, NoTurnAfterDrain
<1> QED BY <1>1, Invariance, PTL

(* A graceful shutdown of a connection cuts no turn.                       *)
THEOREM GracefulCutsNothing == Spec => []GracefulIsQuiet
<1>1. IInv => GracefulIsQuiet
  BY DEF IInv, DrainInv, GracefulIsQuiet
<1> QED BY <1>1, Invariance, PTL

(* A request that has a record object keeps its slot until it is written,  *)
(* but for handlers that answer without a body.                            *)
THEOREM SlotsCoverStreams == Spec => []SlotCoversStream
<1>1. IInv => SlotCoversStream
  BY DEF IInv, Types, TurnRecord, TurnInv, Ordered, Recorded, HoldsSlot, HoldsPermit,
         SlotCoversStream
<1> QED BY <1>1, Invariance, PTL

(* The metric of a request never says better or worse than its record.     *)
THEOREM MetricAgrees == Spec => []VerdictsAgree
<1>1. IInv => VerdictsAgree
  BY DEF IInv, TurnInv, Recorded, VerdictsAgree
<1> QED BY <1>1, Invariance, PTL

(* A record that is written stays as it is.                                *)
THEOREM RecordsAreFinal == Spec => RecordIsFinal
<1>1. IInv /\ [Next]_vars
      => \A t \in Turns : turn[t].record # "none" => turn'[t].record = turn[t].record
  <2> SUFFICES ASSUME IInv, [Next]_vars, NEW t \in Turns, turn[t].record # "none"
               PROVE  turn'[t].record = turn[t].record
    OBVIOUS
  <2>1. CASE UNCHANGED turn
    BY <2>1
  <2>2. ASSUME NEW u \in Turns, Progress(u) \/ Runs(u)
        PROVE  turn'[t].record = turn[t].record
    <3>1. CASE u # t
      BY <2>2, <3>1, TurnSteps DEF Step, Others
    <3>2. CASE u = t
      BY <2>2, <3>2, SMTT(30)
         DEF IInv, Types, TurnRecord, Progress, Runs, Arrive, Admit, RefusalLeaves,
         BodyArrives, BodyIsBad, BodyFails, StreamOpens, StreamFails, FirstDecides, FirstCommits,
         FirstTells, ResponseEnds, BodyDecides, TailTaken, BodyEnds, ToldEnds, Abort,
         HandlerRecords, HandlerReturns, TaskRecords, TaskReleases, DropReading, DropConnecting,
         DropFirst, DropBody, DropTold, DropRest
    <3> QED BY <3>1, <3>2
  <2>3. Shutdown \/ Rests \/ UNCHANGED vars \/ (\E u \in Turns : Connection(u))
        => UNCHANGED turn
    BY DEF Shutdown, BeginDrain, StartWait, StopServing, Lifetime, Rests, vars, Connection,
       Accept, ClientLeaves, ForceClose, Graceful, Closes
  <2> QED BY <2>1, <2>2, <2>3 DEF Next
<1>2. IInv /\ [Next]_vars => [\A t \in Turns : turn[t].record # "none"
                                => turn'[t].record = turn[t].record]_vars
  BY <1>1
<1> QED BY <1>2, Invariance, PTL DEF Spec, RecordIsFinal
=============================================================================
