---------------------------- MODULE LogFilesProofs ----------------------------
(***************************************************************************)
(* What holds of the files under the log root, the request directories     *)
(* (LogDirs) and the index (LogIndex), two machines that share no state.   *)
(*                                                                         *)
(* LogDirs, for any requests, leftovers, policies and faults: a directory  *)
(* belongs to one request, is not taken from under it but where the cap    *)
(* takes everything older too, and eviction is fair. Three things carry    *)
(* it. Every name in use is a leftover's or a request's, so a free one     *)
(* remains and is not another's (NamesInv). What a pass may remove of a    *)
(* request is named for an hour no older than the one before the pass      *)
(* (PassInv). An eviction has either taken a directory it has considered   *)
(* or spared it as a failure scene, and counts what is left (EvictInv).    *)
(*                                                                         *)
(* LogIndex, for any requests, lines, cap and faults: the index keeps its  *)
(* newest line and, while nothing fails, its bound, and each line is       *)
(* counted once. The writer's idea of the file's length is never more than *)
(* the length (a failed flush makes it less), so that a file past the cap  *)
(* has the lines a rewrite keeps; what a rewrite is about to write back    *)
(* ends with the newest line (TailInv).                                    *)
(***************************************************************************)
EXTENDS LogDirs, LogIndex, FiniteSetTheorems, TLAPS

-----------------------------------------------------------------------------
(* The request directories *)

Named(r) == req[r].at = "named"
Owner(r) == Named(r) \/ Running(r)

(* The name is a leftover's, or that of another request than r.            *)
Elsewhere(r, d) ==
  d \in OldDirs \/ \E s \in Requests \ {r} : req[s].at # "idle" /\ req[s].dir = d

(* A leftover, or the directory of a request that has found its name.      *)
Settled(d) ==
  d \in OldDirs \/ \E s \in Requests : req[s].at \notin {"idle", "named"} /\ req[s].dir = d

NamesInv ==
  /\ \A d \in DOMAIN disk \cup taken : Settled(d)
  /\ \A d \in DOMAIN active :
       active[d] \in Requests /\ Owner(active[d]) /\ req[active[d]].dir = d
  /\ \A r \in Requests : Named(r) =>
       \A k \in Nat : 1 <= k /\ k < req[r].dir.n => Elsewhere(r, [at |-> req[r].dir.at, n |-> k])

PassInv ==
  /\ \A r \in Requests : Named(r) => req[r].dir.at >= now - 1
  /\ pass.at # "idle" =>
       /\ pass.now <= now /\ (pass.at = "walking" => pass.gone = {})
       /\ pass.kept \cap DOMAIN pass.seen = {}
       /\ \A r \in Requests : Owner(r) /\ req[r].dir \notin pass.kept =>
            req[r].dir.at >= pass.now - 1

EvictInv ==
  pass.at = "evicting" =>
    /\ pass.queue \cap pass.gone = {}
    /\ \A d \in Left \ pass.queue : d \in ErrorsSeen \/ faults > 0
    /\ pass.spare > 0 => Cardinality(ErrorsSeen \cap pass.queue) = pass.spare + pass.policy.keep
    /\ pass.total = SizeOf(Left)

DirsInv == Types /\ PassTypes /\ NamesInv /\ DirsAreOwn /\ PassInv /\ EvictInv

-----------------------------------------------------------------------------
(* Names *)

LEMMA Bounds ==
  /\ StartTime \in Nat /\ MaxTime \in Nat /\ StartTime <= MaxTime
  /\ MaxSuffix \in Nat /\ MaxRestarts \in Nat /\ MaxIoFaults \in Nat
  /\ \A p \in Policies : p.days \in Nat /\ p.payload \in Nat /\ p.max \in Nat /\ p.keep \in Nat
BY TimeAssumption, PolicyAssumption

LEMMA NamesAreFinite == IsFiniteSet(Names)
<1> DEFINE A == 0 .. MaxTime
           B == 1 .. MaxSuffix
           f == [p \in A \X B |-> [at |-> p[1], n |-> p[2]]]
<1>1. IsFiniteSet(A) /\ IsFiniteSet(B)
  BY Bounds, FS_Interval
<1>2. IsFiniteSet(A \X B)
  BY <1>1, FS_Product
<1>3. f \in Surjection(A \X B, Names)
  <2>1. f \in [A \X B -> Names]
    BY DEF Names
  <2>2. ASSUME NEW d \in Names
        PROVE  \E p \in A \X B : f[p] = d
    <3>1. d.at \in A /\ d.n \in B /\ d = [at |-> d.at, n |-> d.n]
      BY DEF Names
    <3>2. <<d.at, d.n>> \in A \X B /\ f[<<d.at, d.n>>] = d
      BY <3>1
    <3> QED BY <3>2
  <2> QED BY <2>1, <2>2 DEF Surjection
<1> QED BY <1>2, <1>3, FS_Surjection

LEMMA SomeAreFinite ==
  ASSUME NEW ds \in SUBSET Names
  PROVE  IsFiniteSet(ds) /\ Cardinality(ds) \in Nat
BY NamesAreFinite, FS_Subset, FS_CardinalityType

LEMMA LeastNatural ==
  ASSUME NEW S \in SUBSET Nat, S # {}
  PROVE  \E x \in S : \A y \in S : x <= y
<1> DEFINE R == OpToRel(<, Nat)
<1>1. IsWellFoundedOn(R, Nat)
  BY NatLessThanWellFounded
<1> HIDE DEF R
<1>2. PICK x \in S : \A y \in S : ~ (<<y, x>> \in R)
  BY <1>1, WFMin, Zenon
<1>3. \A y \in S : x <= y
  <2> TAKE y \in S
  <2>1. x \in Nat /\ y \in Nat
    OBVIOUS
  <2>2. y < x => <<y, x>> \in R
    BY <2>1 DEF R, OpToRel
  <2> QED BY <1>2, <2>1, <2>2
<1> QED BY <1>3

(* The sorted list has a first directory.                                  *)
LEMMA OldestIsFirst ==
  ASSUME NEW ds \in SUBSET Names, ds # {}
  PROVE  Oldest(ds) \in ds /\ \A e \in ds \ {Oldest(ds)} : Older(Oldest(ds), e)
<1> DEFINE Ats == {d.at : d \in ds}
<1>1. \A d \in ds : d.at \in Nat /\ d.n \in Nat /\ d = [at |-> d.at, n |-> d.n]
  BY Bounds DEF Names
<1>2. Ats \in SUBSET Nat /\ Ats # {}
  BY <1>1
<1>3. PICK a \in Ats : \A b \in Ats : a <= b
  BY <1>2, LeastNatural
<1> DEFINE Ns == {d.n : d \in {e \in ds : e.at = a}}
<1>4. Ns \in SUBSET Nat /\ Ns # {}
  BY <1>1, <1>3
<1>5. PICK n \in Ns : \A m \in Ns : n <= m
  BY <1>4, LeastNatural
<1>6. PICK d \in ds : d.at = a /\ d.n = n
  BY <1>5
<1>7. \A e \in ds \ {d} : Older(d, e)
  <2> TAKE e \in ds \ {d}
  <2>1. e.at \in Nat /\ e.n \in Nat /\ d.at \in Nat /\ d.n \in Nat /\ (e.at # d.at \/ e.n # d.n)
    BY <1>1
  <2>2. e.at \in Ats /\ d.at <= e.at
    BY <1>3, <1>6
  <2>3. e.at = d.at => d.n <= e.n
    BY <1>5, <1>6
  <2> QED BY <2>1, <2>2, <2>3 DEF Older
<1>8. \E x \in ds : \A e \in ds \ {x} : Older(x, e)
  BY <1>7
<1> QED BY <1>8 DEF Oldest

(* Names in use are OldDirs' or the requests', fewer than MaxSuffix.       *)
LEMMA NotAllTaken ==
  ASSUME Types, NEW r \in Requests, NEW at
  PROVE  \E k \in 1 .. MaxSuffix : ~ Elsewhere(r, [at |-> at, n |-> k])
<1> DEFINE own == [s \in Requests |-> req[s].dir]
           Dirs == {req[s].dir : s \in Requests}
           T == OldDirs \cup Dirs
           f == [k \in 1 .. MaxSuffix |-> [at |-> at, n |-> k]]
<1>1. IsFiniteSet(Requests) /\ IsFiniteSet(OldDirs)
  <2>1. OldDirs \in SUBSET Names
    BY NameAssumption, Bounds DEF Names
  <2> QED BY <2>1, SomeAreFinite, NameAssumption
<1>2. own \in Surjection(Requests, Dirs)
  BY DEF Surjection
<1>3. IsFiniteSet(Dirs) /\ Cardinality(Dirs) <= Cardinality(Requests)
  BY <1>1, <1>2, FS_Surjection
<1>4. /\ IsFiniteSet(T)
      /\ Cardinality(T) = Cardinality(OldDirs) + Cardinality(Dirs) - Cardinality(OldDirs \cap Dirs)
  BY <1>1, <1>3, FS_Union
<1>5. /\ Cardinality(T) \in Nat /\ Cardinality(OldDirs) \in Nat /\ Cardinality(Dirs) \in Nat
      /\ Cardinality(OldDirs \cap Dirs) \in Nat /\ Cardinality(Requests) \in Nat
  BY <1>1, <1>3, <1>4, FS_CardinalityType, FS_Intersection
<1>6. Cardinality(T) < MaxSuffix
  BY <1>3, <1>4, <1>5, NameAssumption, Bounds
<1>7. Cardinality(1 .. MaxSuffix) = MaxSuffix
  BY FS_Interval, Bounds
<1>8. SUFFICES ASSUME \A k \in 1 .. MaxSuffix : Elsewhere(r, [at |-> at, n |-> k])
               PROVE  FALSE
  OBVIOUS
<1>9. \A k \in 1 .. MaxSuffix : f[k] \in T
  BY <1>8 DEF Elsewhere
<1>10. \A j, k \in 1 .. MaxSuffix : f[j] = f[k] => j = k
  <2> TAKE j, k \in 1 .. MaxSuffix
  <2>1. f[j].n = j /\ f[k].n = k
    OBVIOUS
  <2> QED BY <2>1
<1>11. f \in Injection(1 .. MaxSuffix, T)
  BY <1>9, <1>10 DEF Injection, IsInjective
<1>12. Cardinality(1 .. MaxSuffix) <= Cardinality(T)
  BY <1>4, <1>11, FS_Injection
<1> QED BY <1>5, <1>6, <1>7, <1>12, Bounds

(* The next free name is found, and those passed over are not free.        *)
LEMMA NextIsFree ==
  ASSUME Types, NEW r \in Requests, NEW at \in 0 .. MaxTime, NEW n \in Nat,
         \A k \in Nat : 1 <= k /\ k <= n => Elsewhere(r, [at |-> at, n |-> k]),
         \A k \in Nat : n < k /\ ~ Free([at |-> at, n |-> k]) => Elsewhere(r, [at |-> at, n |-> k])
  PROVE  /\ NextFree(at, n) \in Names /\ NextFree(at, n).at = at /\ NextFree(at, n).n > n
         /\ Free(NextFree(at, n))
         /\ \A k \in Nat : 1 <= k /\ k < NextFree(at, n).n => Elsewhere(r, [at |-> at, n |-> k])
<1> DEFINE free == {k \in n + 1 .. MaxSuffix : Free([at |-> at, n |-> k])}
<1>1. PICK j \in 1 .. MaxSuffix : ~ Elsewhere(r, [at |-> at, n |-> j])
  BY NotAllTaken
<1>2. j \in free
  BY <1>1, Bounds
<1>3. free \in SUBSET Nat
  BY Bounds
<1>4. \E x \in free : \A y \in free : x <= y
  BY <1>2, <1>3, LeastNatural
<1>5. PICK m \in free : \A y \in free : m <= y
  BY <1>4
<1>6. Min(free) \in free /\ \A y \in free : Min(free) <= y
  BY <1>4 DEF Min
<1>7. NextFree(at, n) = [at |-> at, n |-> Min(free)]
  BY DEF NextFree
<1>8. Min(free) \in n + 1 .. MaxSuffix /\ Free([at |-> at, n |-> Min(free)])
  BY <1>6
<1>9. \A k \in Nat : 1 <= k /\ k < Min(free) => Elsewhere(r, [at |-> at, n |-> k])
  <2> SUFFICES ASSUME NEW k \in Nat, 1 <= k, k < Min(free), n < k
               PROVE  Elsewhere(r, [at |-> at, n |-> k])
    OBVIOUS
  <2>1. k \in n + 1 .. MaxSuffix /\ k \notin free
    BY <1>6, <1>8, Bounds
  <2> QED BY <2>1
<1> HIDE DEF free
<1> QED BY <1>7, <1>8, <1>9, Bounds DEF Names

LEMMA WithIs ==
  ASSUME NEW f, NEW x, NEW v
  PROVE  /\ DOMAIN With(f, x, v) = DOMAIN f \cup {x} /\ With(f, x, v)[x] = v
         /\ \A y \in DOMAIN f \ {x} : With(f, x, v)[y] = f[y]
BY DEF With

LEMMA WithoutIs ==
  ASSUME NEW f, NEW x
  PROVE  /\ DOMAIN Without(f, x) = DOMAIN f \ {x}
         /\ \A y \in DOMAIN f \ {x} : Without(f, x)[y] = f[y]
BY DEF Without, Restrict

LEMMA NothingMapped == DOMAIN <<>> = {}
OBVIOUS

LEMMA IdleTypes ==
  /\ DOMAIN Idle = {"at", "kept", "policy", "now", "listed", "seen", "queue", "gone", "total",
                    "spare"}
  /\ Idle.at = "idle" /\ Idle.policy \in Policies /\ Idle.now = 0
  /\ Idle.seen = <<>> /\ Idle.queue = {} /\ Idle.gone = {} /\ Idle.total = 0 /\ Idle.spare = 0
BY PolicyAssumption DEF Idle

-----------------------------------------------------------------------------
(* The requests' steps *)

LEMMA InitDirs == Init => DirsInv
<1> SUFFICES ASSUME Init PROVE DirsInv
  OBVIOUS
<1>1. Types
  <2>1. DOMAIN disk \subseteq Names /\ \A d \in DOMAIN disk : disk[d] \in Entry
    BY NameAssumption, EntryAssumption, Bounds DEF Init, Names, Entry
  <2> QED BY <2>1, NothingMapped, Bounds DEF Init, Types
<1>2. PassTypes
  BY IdleTypes, NothingMapped DEF Init, PassTypes
<1>3. NamesInv
  <2>1. \A d \in DOMAIN disk : d \in OldDirs
    BY DEF Init
  <2> QED BY <2>1, NothingMapped DEF Init, NamesInv, Settled, Named
<1>4. DirsAreOwn /\ PassInv /\ EvictInv
  BY IdleTypes DEF Init, DirsAreOwn, PassInv, EvictInv, Named, Owner, Running
<1> QED BY <1>1, <1>2, <1>3, <1>4 DEF DirsInv

LEMMA OwnersAreActive ==
  ASSUME DirsInv, NEW r \in Requests, Owner(r)
  PROVE  req[r].dir \in DOMAIN active /\ active[req[r].dir] = r /\ req[r].dir \in Names
BY DEF DirsInv, DirsAreOwn, Types, Owner, Named, Running

(* Another's or a leftover's are the only names that are not free.         *)
LEMMA TakenElsewhere ==
  ASSUME DirsInv, NEW r \in Requests, NEW d, ~ Free(d),
         Owner(r) => d # req[r].dir /\ Named(r), Named(r) \/ req[r].at = "idle"
  PROVE  Elsewhere(r, d)
<1>1. CASE d \in DOMAIN active
  BY <1>1 DEF DirsInv, NamesInv, Elsewhere, Owner, Named, Running
<1>2. CASE d \in taken
  BY <1>2 DEF DirsInv, NamesInv, Settled, Elsewhere, Named
<1> QED BY <1>1, <1>2 DEF Free

LEMMA Reserves ==
  ASSUME DirsInv, NEW r \in Requests, Reserve(r)
  PROVE  \E d \in Names :
           /\ d.at = now /\ Free(d)
           /\ \A k \in Nat : 1 <= k /\ k < d.n => Elsewhere(r, [at |-> d.at, n |-> k])
           /\ req[r].at = "idle"
           /\ req' = [req EXCEPT ![r] = [at |-> "named", dir |-> d]]
           /\ active' = With(active, d, r)
<1>1. now \in 0 .. MaxTime /\ Types
  BY Bounds DEF DirsInv, Types
<1>2. req[r].at = "idle"
  BY DEF Reserve
<1>3. \A k \in Nat : ~ Free([at |-> now, n |-> k]) => Elsewhere(r, [at |-> now, n |-> k])
  BY <1>2, TakenElsewhere DEF Owner, Named, Running
<1>4. /\ NextFree(now, 0) \in Names /\ NextFree(now, 0).at = now /\ Free(NextFree(now, 0))
      /\ \A k \in Nat : 1 <= k /\ k < NextFree(now, 0).n => Elsewhere(r, [at |-> now, n |-> k])
  BY <1>1, <1>3, NextIsFree
<1> QED BY <1>4 DEF Reserve

LEMMA RenamesOnCollision ==
  ASSUME DirsInv, NEW r \in Requests, Collides(r)
  PROVE  \E e \in Names :
           /\ e.at = req[r].dir.at /\ Free(e) /\ e # req[r].dir
           /\ \A k \in Nat : 1 <= k /\ k < e.n => Elsewhere(r, [at |-> e.at, n |-> k])
           /\ Named(r) /\ req[r].dir \in DOMAIN disk
           /\ req' = [req EXCEPT ![r].dir = e]
           /\ active' = With(Without(active, req[r].dir), e, r)
           /\ taken' = taken \cup {req[r].dir}
<1> DEFINE d == req[r].dir
           e == NextFree(d.at, d.n)
<1>1. Named(r) /\ d \in DOMAIN disk
  BY DEF Collides, Named
<1>2. d \in Names /\ d.at \in 0 .. MaxTime /\ d.n \in Nat /\ d = [at |-> d.at, n |-> d.n]
  BY <1>1, OwnersAreActive, Bounds DEF Owner, Names
<1>3. Elsewhere(r, d)
  BY <1>1 DEF DirsInv, NamesInv, Settled, Elsewhere, Named
<1>4. \A k \in Nat : 1 <= k /\ k <= d.n => Elsewhere(r, [at |-> d.at, n |-> k])
  <2> SUFFICES ASSUME NEW k \in Nat, 1 <= k, k <= d.n
               PROVE  Elsewhere(r, [at |-> d.at, n |-> k])
    OBVIOUS
  <2>1. CASE k = d.n
    BY <1>2, <1>3, <2>1
  <2>2. CASE k < d.n
    BY <1>1, <2>2 DEF DirsInv, NamesInv
  <2> QED BY <1>2, <2>1, <2>2
<1>5. \A k \in Nat : d.n < k /\ ~ Free([at |-> d.at, n |-> k]) =>
        Elsewhere(r, [at |-> d.at, n |-> k])
  <2> SUFFICES ASSUME NEW k \in Nat, d.n < k, ~ Free([at |-> d.at, n |-> k])
               PROVE  Elsewhere(r, [at |-> d.at, n |-> k])
    OBVIOUS
  <2>1. [at |-> d.at, n |-> k].n # d.n
    BY <1>2
  <2> QED BY <1>1, <2>1, TakenElsewhere
<1>6. Types
  BY DEF DirsInv
<1>7. /\ e \in Names /\ e.at = d.at /\ e.n > d.n /\ Free(e)
      /\ \A k \in Nat : 1 <= k /\ k < e.n => Elsewhere(r, [at |-> d.at, n |-> k])
  BY <1>2, <1>4, <1>5, <1>6, NextIsFree
<1>8. e # d
  BY <1>2, <1>7
<1> QED BY <1>1, <1>7, <1>8 DEF Collides

(* A name that a request passed over stays elsewhere.                      *)
LEMMA StaysElsewhere ==
  ASSUME NamesInv, NEW r \in Requests, Named(r), NEW s \in Requests, NEW d, Elsewhere(r, d),
         \A q \in Requests \ {s} : req'[q] = req[q],
         req[s].at # "idle" =>
           /\ req'[s].at # "idle"
           /\ req'[s].dir = req[s].dir \/ (Named(s) /\ req[s].dir \in DOMAIN disk)
  PROVE  (Elsewhere(r, d))'
<1>1. CASE d \in OldDirs
  BY <1>1 DEF Elsewhere
<1>2. CASE \E q \in Requests \ {r, s} : req[q].at # "idle" /\ req[q].dir = d
  BY <1>2 DEF Elsewhere
<1>3. CASE s # r /\ req[s].at # "idle" /\ req[s].dir = d /\ req'[s].dir = req[s].dir
  BY <1>3 DEF Elsewhere
<1>4. CASE s # r /\ req[s].dir = d /\ Named(s) /\ req[s].dir \in DOMAIN disk
  <2>1. d \in OldDirs \/ \E q \in Requests : req[q].at \notin {"idle", "named"} /\ req[q].dir = d
    BY <1>4 DEF NamesInv, Settled
  <2> QED BY <1>1, <1>2, <1>4, <2>1 DEF Named
<1> QED BY <1>1, <1>2, <1>3, <1>4 DEF Elsewhere

(* So does a directory whose request has found its name.                   *)
LEMMA StaysSettled ==
  ASSUME NEW s \in Requests, NEW d, Settled(d),
         \A q \in Requests \ {s} : req'[q] = req[q],
         req[s].at \notin {"idle", "named"} =>
           req'[s].at \notin {"idle", "named"} /\ req'[s].dir = req[s].dir
  PROVE  (Settled(d))'
BY DEF Settled

(* What a pass has gathered is not disturbed by a request's step.          *)
LEMMA RequestsLeaveThePass ==
  ASSUME PassTypes, EvictInv, faults \in Nat, pass' = pass, faults' \in Nat, faults' >= faults
  PROVE  PassTypes' /\ EvictInv'
<1>1. PassTypes'
  BY DEF PassTypes
<1>2. EvictInv'
  BY DEF EvictInv, Left, ErrorsSeen, SizeOf
<1> QED BY <1>1, <1>2

(* The names passed over by a named request, after a step of request s.    *)
LEMMA PassedOver ==
  ASSUME NamesInv, NEW s \in Requests, \A q \in Requests \ {s} : req'[q] = req[q],
         req[s].at # "idle" =>
           /\ req'[s].at # "idle"
           /\ req'[s].dir = req[s].dir \/ (Named(s) /\ req[s].dir \in DOMAIN disk),
         NEW r \in Requests, Named(r), req'[r].dir = req[r].dir
  PROVE  \A k \in Nat : 1 <= k /\ k < req'[r].dir.n =>
           (Elsewhere(r, [at |-> req[r].dir.at, n |-> k]))'
<1>1. \A x : Elsewhere(r, x) => (Elsewhere(r, x))'
  BY StaysElsewhere
<1>2. \A k \in Nat : 1 <= k /\ k < req[r].dir.n => Elsewhere(r, [at |-> req[r].dir.at, n |-> k])
  BY DEF NamesInv
<1> QED BY <1>1, <1>2 DEF Elsewhere

LEMMA ReserveKeepsDirs ==
  ASSUME DirsInv, NEW r \in Requests, Reserve(r)
  PROVE  DirsInv'
<1>1. PICK d \in Names :
        /\ d.at = now /\ Free(d)
        /\ \A k \in Nat : 1 <= k /\ k < d.n => Elsewhere(r, [at |-> d.at, n |-> k])
        /\ req[r].at = "idle"
        /\ req' = [req EXCEPT ![r] = [at |-> "named", dir |-> d]]
        /\ active' = With(active, d, r)
  BY Reserves
<1>2. UNCHANGED <<now, disk, taken, pass, restarts, faults>>
  BY DEF Reserve
<1>3. /\ req'[r].at = "named" /\ req'[r].dir = d
      /\ \A q \in Requests \ {r} : req'[q] = req[q]
  BY <1>1 DEF DirsInv, Types
<1>4. /\ DOMAIN active' = DOMAIN active \cup {d} /\ active'[d] = r
      /\ \A x \in DOMAIN active \ {d} : active'[x] = active[x]
  BY <1>1 DEF With
<1>5. d \notin DOMAIN active
  BY <1>1 DEF Free
<1>6. Types'
  BY <1>1, <1>2, <1>4 DEF DirsInv, Types
<1>7. PassTypes' /\ EvictInv'
  <2>1. PassTypes /\ EvictInv /\ faults \in Nat
    BY DEF DirsInv, Types
  <2> QED BY <1>2, <2>1, RequestsLeaveThePass
<1>8. NamesInv'
  <2>1. \A x \in DOMAIN disk' \cup taken' : (Settled(x))'
    <3> TAKE x \in DOMAIN disk' \cup taken'
    <3>1. Settled(x)
      BY <1>2 DEF DirsInv, NamesInv
    <3> QED BY <1>1, <1>3, <3>1, StaysSettled
  <2>2. \A x \in DOMAIN active' :
          active'[x] \in Requests /\ (Owner(active[x]))' /\ req'[active'[x]].dir = x
    BY <1>1, <1>3, <1>4, <1>5 DEF DirsInv, NamesInv, Owner, Named, Running
  <2>3. ASSUME NEW q \in Requests, Named(q)'
        PROVE  \A k \in Nat : 1 <= k /\ k < req'[q].dir.n =>
                 (Elsewhere(q, [at |-> req[q].dir.at, n |-> k]))'
    <3>1. CASE q = r
      BY <1>1, <1>3, <3>1 DEF Elsewhere
    <3>2. CASE q # r
      <4>1. Named(q) /\ req'[q] = req[q] /\ NamesInv
        BY <1>3, <2>3, <3>2 DEF Named, DirsInv
      <4> QED BY <1>1, <1>3, <4>1, PassedOver
    <3> QED BY <3>1, <3>2
  <2> QED BY <2>1, <2>2, <2>3 DEF NamesInv
<1>9. DirsAreOwn'
  BY <1>1, <1>3, <1>4, <1>5 DEF DirsInv, DirsAreOwn
<1>10. PassInv'
  <2>1. now \in Nat /\ (pass.at # "idle" => pass.now <= now /\ pass.now \in Nat)
    BY Bounds DEF DirsInv, Types, PassInv, PassTypes
  <2> QED BY <1>1, <1>2, <1>3, <2>1 DEF DirsInv, PassInv, Owner, Named, Running
<1> QED BY <1>6, <1>7, <1>8, <1>9, <1>10 DEF DirsInv

LEMMA CollisionKeepsDirs ==
  ASSUME DirsInv, NEW r \in Requests, Collides(r)
  PROVE  DirsInv'
<1>1. PICK e \in Names :
        /\ e.at = req[r].dir.at /\ Free(e) /\ e # req[r].dir
        /\ \A k \in Nat : 1 <= k /\ k < e.n => Elsewhere(r, [at |-> e.at, n |-> k])
        /\ Named(r) /\ req[r].dir \in DOMAIN disk
        /\ req' = [req EXCEPT ![r].dir = e]
        /\ active' = With(Without(active, req[r].dir), e, r)
        /\ taken' = taken \cup {req[r].dir}
  BY RenamesOnCollision
<1>2. UNCHANGED <<now, disk, pass, restarts, faults>>
  BY DEF Collides
<1>3. /\ req'[r].at = "named" /\ req'[r].dir = e
      /\ \A q \in Requests \ {r} : req'[q] = req[q]
      /\ req[r].dir \in Names
  BY <1>1, OwnersAreActive DEF DirsInv, Types, Named, Owner
<1>4. /\ DOMAIN active' = (DOMAIN active \ {req[r].dir}) \cup {e} /\ active'[e] = r
      /\ \A x \in DOMAIN active \ {req[r].dir, e} : active'[x] = active[x]
  BY <1>1 DEF With, Without, Restrict
<1>5. e \notin DOMAIN active /\ active[req[r].dir] = r
  BY <1>1, OwnersAreActive DEF Free, Owner
<1>6. Types'
  BY <1>1, <1>2, <1>3, <1>4 DEF DirsInv, Types
<1>7. PassTypes' /\ EvictInv'
  <2>1. PassTypes /\ EvictInv /\ faults \in Nat
    BY DEF DirsInv, Types
  <2> QED BY <1>2, <2>1, RequestsLeaveThePass
<1>8. NamesInv'
  <2>1. \A x \in DOMAIN disk' \cup taken' : (Settled(x))'
    <3> TAKE x \in DOMAIN disk' \cup taken'
    <3>1. Settled(x)
      BY <1>1, <1>2 DEF DirsInv, NamesInv
    <3> QED BY <1>1, <1>3, <3>1, StaysSettled DEF Named
  <2>2. \A x \in DOMAIN active' :
          active'[x] \in Requests /\ (Owner(active[x]))' /\ req'[active'[x]].dir = x
    BY <1>1, <1>3, <1>4, <1>5 DEF DirsInv, NamesInv, Owner, Named, Running
  <2>3. ASSUME NEW q \in Requests, Named(q)'
        PROVE  \A k \in Nat : 1 <= k /\ k < req'[q].dir.n =>
                 (Elsewhere(q, [at |-> req[q].dir.at, n |-> k]))'
    <3>1. CASE q = r
      BY <1>1, <1>3, <3>1 DEF Elsewhere
    <3>2. CASE q # r
      <4>1. Named(q) /\ req'[q] = req[q] /\ NamesInv
        BY <1>3, <2>3, <3>2 DEF Named, DirsInv
      <4> QED BY <1>1, <1>3, <4>1, PassedOver
    <3> QED BY <3>1, <3>2
  <2> QED BY <2>1, <2>2, <2>3 DEF NamesInv
<1>9. DirsAreOwn'
  BY <1>1, <1>3, <1>4, <1>5 DEF DirsInv, DirsAreOwn
<1>10. PassInv'
  <2>1. now \in Nat /\ (pass.at # "idle" => pass.now <= now /\ pass.now \in Nat) /\ e.at \in Nat
    BY Bounds DEF DirsInv, Types, PassInv, PassTypes, Names
  <2> QED BY <1>1, <1>2, <1>3, <2>1 DEF DirsInv, PassInv, Owner, Named, Running
<1> QED BY <1>6, <1>7, <1>8, <1>9, <1>10 DEF DirsInv

(* The steps of a request that has its name: it makes its directory or     *)
(* fails to, writes there, and lets it go.                                 *)
OwnStep(r) ==
  /\ req'[r].at \in {"running", "done", "unlogged"} /\ req'[r].dir = req[r].dir
  /\ req' \in [Requests -> [at : {"idle", "named", "running", "done", "unlogged"},
                             dir : Names \cup {NoDir}]]
  /\ \A q \in Requests \ {r} : req'[q] = req[q]
  /\ IF req'[r].at = "running" THEN active' = active
                               ELSE active' = Without(active, req[r].dir)

LEMMA OwnStepKeepsDirs ==
  ASSUME DirsInv, NEW r \in Requests, Owner(r),
         UNCHANGED <<now, taken, pass, restarts>>, faults' \in Nat, faults' >= faults,
         OwnStep(r),
         DOMAIN disk' \subseteq DOMAIN disk \cup {req[r].dir},
         \A d \in DOMAIN disk' : disk'[d] \in Entry
  PROVE  DirsInv'
<1> DEFINE at == req'[r].at
<1>1. /\ req'[r].dir = req[r].dir
      /\ \A q \in Requests \ {r} : req'[q] = req[q]
      /\ req[r].dir \in Names /\ req[r].dir \in DOMAIN active /\ active[req[r].dir] = r
  BY OwnersAreActive DEF OwnStep
<1>2. at \in {"running", "done", "unlogged"}
  BY DEF OwnStep
<1>3. /\ DOMAIN active' \subseteq DOMAIN active
      /\ at # "running" => DOMAIN active' = DOMAIN active \ {req[r].dir}
      /\ at = "running" => active' = active
      /\ \A x \in DOMAIN active' : active'[x] = active[x]
  BY <1>2 DEF OwnStep, Without, Restrict
<1>4. Types'
  BY <1>1, <1>2, <1>3 DEF DirsInv, Types, OwnStep
<1>5. PassTypes' /\ EvictInv'
  <2>1. PassTypes /\ EvictInv /\ faults \in Nat
    BY DEF DirsInv, Types
  <2> QED BY <2>1, RequestsLeaveThePass
<1>6. NamesInv'
  <2>1. \A x \in DOMAIN disk' \cup taken' : (Settled(x))'
    <3> TAKE x \in DOMAIN disk' \cup taken'
    <3>1. CASE x = req[r].dir
      BY <1>1, <1>2, <3>1 DEF Settled
    <3>2. CASE x # req[r].dir
      <4>1. Settled(x)
        BY <3>2 DEF DirsInv, NamesInv
      <4> QED BY <1>1, <1>2, <4>1, StaysSettled
    <3> QED BY <3>1, <3>2
  <2>2. \A x \in DOMAIN active' :
          active'[x] \in Requests /\ (Owner(active[x]))' /\ req'[active'[x]].dir = x
    <3> TAKE x \in DOMAIN active'
    <3>1. x \in DOMAIN active /\ active'[x] = active[x]
      BY <1>3
    <3>2. active[x] \in Requests /\ Owner(active[x]) /\ req[active[x]].dir = x
      BY <3>1 DEF DirsInv, NamesInv
    <3>3. CASE active[x] = r
      BY <1>1, <1>2, <1>3, <3>1, <3>2, <3>3 DEF Owner, Running
    <3>4. CASE active[x] # r
      BY <1>1, <3>1, <3>2, <3>4 DEF Owner, Running, Named
    <3> QED BY <3>3, <3>4
  <2>3. ASSUME NEW q \in Requests, Named(q)'
        PROVE  \A k \in Nat : 1 <= k /\ k < req'[q].dir.n =>
                 (Elsewhere(q, [at |-> req[q].dir.at, n |-> k]))'
    <3>1. q # r
      BY <1>1, <1>2, <2>3 DEF Named
    <3>2. Named(q) /\ req'[q] = req[q] /\ NamesInv
      BY <1>1, <2>3, <3>1 DEF Named, DirsInv
    <3> QED BY <1>1, <1>2, <3>2, PassedOver
  <2> QED BY <2>1, <2>2, <2>3 DEF NamesInv
<1>7. DirsAreOwn'
  <2> SUFFICES ASSUME NEW q \in Requests, Owner(q)'
               PROVE  /\ req'[q].dir \in DOMAIN active' /\ active'[req'[q].dir] = q
                      /\ req'[q].dir = req[q].dir /\ Owner(q)
    BY <1>3 DEF DirsInv, DirsAreOwn, Owner, Named, Running
  <2>1. Owner(q) /\ req'[q].dir = req[q].dir
    BY <1>1 DEF Owner, Named, Running
  <2>2. req[q].dir \in DOMAIN active /\ active[req[q].dir] = q
    BY <2>1, OwnersAreActive
  <2>3. q = r => at = "running"
    BY <1>1, <1>2 DEF Owner, Named, Running
  <2>4. q # r => req[q].dir # req[r].dir
    BY <1>1, <2>2
  <2> QED BY <1>3, <2>1, <2>2, <2>3, <2>4
<1>8. PassInv'
  <2>1. \A q \in Requests : (Owner(q)' => Owner(q)) /\ (Named(q)' => Named(q))
                              /\ req'[q].dir = req[q].dir
    BY <1>1, <1>2 DEF Owner, Named, Running
  <2> QED BY <2>1 DEF DirsInv, PassInv
<1> QED BY <1>4, <1>5, <1>6, <1>7, <1>8 DEF DirsInv

LEMMA RequestsKeepDirs ==
  ASSUME DirsInv, NEW r \in Requests,
         Makes(r) \/ GoesUnlogged(r) \/ Writes(r) \/ Release(r)
  PROVE  DirsInv'
<1>1. faults \in Nat /\ \A d \in DOMAIN disk : disk[d] \in Entry
  BY DEF DirsInv, Types
<1>2. Fresh \in Entry
  BY DEF Fresh, Entry
<1>3. CASE Makes(r)
  <2>1. /\ DOMAIN disk' = DOMAIN disk \cup {req[r].dir}
        /\ \A d \in DOMAIN disk' : disk'[d] \in Entry
    BY <1>1, <1>2, <1>3 DEF Makes, With
  <2>2. OwnStep(r)
    BY <1>3 DEF Makes, OwnStep, DirsInv, Types
  <2> QED BY <1>1, <1>3, <2>1, <2>2, OwnStepKeepsDirs DEF Makes, Owner, Named
<1>4. CASE GoesUnlogged(r)
  <2>1. /\ DOMAIN disk' \subseteq DOMAIN disk \cup {req[r].dir}
        /\ \A d \in DOMAIN disk' : disk'[d] \in Entry
    BY <1>1, <1>2, <1>4 DEF GoesUnlogged, With
  <2>2. OwnStep(r)
    BY <1>4 DEF GoesUnlogged, OwnStep, DirsInv, Types
  <2> QED BY <1>1, <1>4, <2>1, <2>2, OwnStepKeepsDirs DEF GoesUnlogged, Fails, Owner, Named
<1>5. CASE Writes(r)
  <2>1. DOMAIN disk' = DOMAIN disk /\ \A d \in DOMAIN disk' : disk'[d] \in Entry
    BY <1>1, <1>5 DEF Writes, Entry
  <2>2. OwnStep(r)
    BY <1>5 DEF Writes, OwnStep, DirsInv, Types
  <2>3. UNCHANGED <<now, taken, pass, restarts, faults>> /\ Owner(r)
    BY <1>5 DEF Writes, Owner, Running
  <2> QED BY <1>1, <2>1, <2>2, <2>3, OwnStepKeepsDirs
<1>6. CASE Release(r)
  <2>1. OwnStep(r)
    BY <1>6 DEF Release, OwnStep, DirsInv, Types
  <2> QED BY <1>1, <1>6, <2>1, OwnStepKeepsDirs DEF Release, Owner, Running
<1> QED BY <1>3, <1>4, <1>5, <1>6

-----------------------------------------------------------------------------
(* The cleaner's steps *)

LEMMA CleaningKeepsNames ==
  ASSUME DirsInv, UNCHANGED <<now, active, taken, req, restarts>>, faults' \in Nat,
         DOMAIN disk' \subseteq DOMAIN disk, \A d \in DOMAIN disk' : disk'[d] \in Entry
  PROVE  Types' /\ NamesInv' /\ DirsAreOwn'
<1>1. Types'
  BY DEF DirsInv, Types
<1>2. NamesInv'
  BY DEF DirsInv, NamesInv, Settled, Elsewhere, Owner, Named, Running
<1>3. DirsAreOwn'
  BY DEF DirsInv, DirsAreOwn
<1> QED BY <1>1, <1>2, <1>3

LEMMA IdleIsClean ==
  ASSUME pass' = Idle, PassInv, UNCHANGED <<now, req>>
  PROVE  PassTypes' /\ PassInv' /\ EvictInv'
<1>1. PassTypes'
  BY IdleTypes, NothingMapped DEF PassTypes
<1>2. PassInv' /\ EvictInv'
  BY IdleTypes DEF PassInv, EvictInv, Named
<1> QED BY <1>1, <1>2

LEMMA PassBeginsKeepsDirs ==
  ASSUME DirsInv, PassBegins
  PROVE  DirsInv'
<1>1. Types' /\ NamesInv' /\ DirsAreOwn'
  BY CleaningKeepsNames DEF PassBegins, DirsInv, Types
<1>2. PICK p \in Policies :
        pass' = [Idle EXCEPT !.at = "walking", !.kept = DOMAIN active,
                             !.policy = p, !.now = now, !.listed = DOMAIN disk]
  BY DEF PassBegins
<1>3. /\ pass'.at = "walking" /\ pass'.kept = DOMAIN active /\ pass'.policy = p
      /\ pass'.now = now /\ pass'.seen = <<>> /\ pass'.queue = {} /\ pass'.gone = {}
      /\ pass'.total = 0 /\ pass'.spare = 0 /\ DOMAIN pass' = DOMAIN Idle
  BY <1>2, IdleTypes
<1>4. now \in Nat
  BY Bounds DEF DirsInv, Types
<1>5. PassTypes'
  BY <1>3, <1>4, IdleTypes, NothingMapped DEF PassTypes
<1>6. PassInv' /\ EvictInv'
  <2>1. \A r \in Requests : Owner(r) => req[r].dir \in DOMAIN active
    BY OwnersAreActive
  <2>2. UNCHANGED <<now, req>>
    BY DEF PassBegins
  <2>3. \A r \in Requests : Named(r) => req[r].dir.at >= now - 1
    BY DEF DirsInv, PassInv
  <2>4. PassInv'
    BY <1>3, <1>4, <2>1, <2>2, <2>3, NothingMapped DEF PassInv, Owner, Named, Running
  <2> QED BY <1>3, <2>4 DEF EvictInv
<1> QED BY <1>1, <1>5, <1>6 DEF DirsInv

(* What a walk leaves of an entry's payload and failure.                   *)
LEMMA StrippedIsEntry ==
  ASSUME DirsInv, NEW d \in DOMAIN disk
  PROVE  Stripped(d) \in Entry
BY DEF DirsInv, Types, Stripped, Entry

LEMMA WalkKeepsDirs ==
  ASSUME DirsInv, NEW d \in DOMAIN disk, Walk(d)
  PROVE  DirsInv'
<1>1. /\ UNCHANGED <<now, active, taken, req, restarts>> /\ pass.at = "walking"
      /\ Candidate(d) /\ faults' \in Nat
  BY DEF Walk, Works, Fails, DirsInv, Types
<1>2. /\ DOMAIN disk' \subseteq DOMAIN disk
      /\ \A x \in DOMAIN disk' : disk'[x] \in Entry
  <2>1. CASE disk' = Without(disk, d)
    BY <2>1 DEF DirsInv, Types, Without, Restrict
  <2>2. CASE disk' = [disk EXCEPT ![d] = Stripped(d)]
    BY <2>2, StrippedIsEntry DEF DirsInv, Types
  <2> QED BY <2>1, <2>2 DEF Walk
<1>3. Types' /\ NamesInv' /\ DirsAreOwn'
  BY <1>1, <1>2, CleaningKeepsNames
<1>4. PassTypes' /\ PassInv' /\ EvictInv'
  <2>1. CASE pass' = pass
    BY <1>1, <2>1 DEF DirsInv, PassTypes, PassInv, EvictInv, Owner, Named, Running
  <2>2. CASE pass' = [pass EXCEPT !.seen = With(@, d, Stripped(d))]
    <3>1. /\ pass'.at = "walking" /\ pass'.seen = With(pass.seen, d, Stripped(d))
          /\ UNCHANGED <<pass.kept, pass.policy, pass.now, pass.queue, pass.gone, pass.total,
                         pass.spare>>
          /\ DOMAIN pass' = DOMAIN pass
      BY <1>1, <2>2 DEF DirsInv, PassTypes
    <3>2. /\ DOMAIN pass'.seen = DOMAIN pass.seen \cup {d}
          /\ pass'.seen[d] = Stripped(d)
          /\ \A x \in DOMAIN pass.seen \ {d} : pass'.seen[x] = pass.seen[x]
      BY <3>1 DEF With
    <3>3. PassTypes'
      BY <3>1, <3>2, StrippedIsEntry DEF DirsInv, PassTypes, Types
    <3>4. PassInv'
      BY <1>1, <3>1, <3>2 DEF DirsInv, PassInv, Owner, Named, Running, Candidate
    <3>5. EvictInv'
      BY <3>1 DEF EvictInv
    <3> QED BY <3>3, <3>4, <3>5
  <2> QED BY <2>1, <2>2 DEF Walk
<1> QED BY <1>3, <1>4 DEF DirsInv

LEMMA SizesAreNumbers ==
  ASSUME PassTypes, NEW ds \in SUBSET DOMAIN pass.seen
  PROVE  /\ IsFiniteSet(ds) /\ Cardinality(ds) \in Nat
         /\ IsFiniteSet({d \in ds : pass.seen[d].payload})
         /\ Cardinality({d \in ds : pass.seen[d].payload}) \in Nat
         /\ SizeOf(ds) \in Nat
<1>1. ds \in SUBSET Names /\ {d \in ds : pass.seen[d].payload} \in SUBSET Names
  BY DEF PassTypes
<1> QED BY <1>1, SomeAreFinite DEF SizeOf

(* One directory less: its own size less.                                  *)
LEMMA OneLess ==
  ASSUME PassTypes, NEW ds \in SUBSET DOMAIN pass.seen, NEW d \in ds
  PROVE  SizeOf(ds \ {d}) = SizeOf(ds) - Size(pass.seen[d])
<1> DEFINE full == {e \in ds : pass.seen[e].payload}
<1>1. /\ IsFiniteSet(ds) /\ Cardinality(ds) \in Nat /\ IsFiniteSet(full)
      /\ Cardinality(full) \in Nat
  BY SizesAreNumbers
<1>2. {e \in ds \ {d} : pass.seen[e].payload} = full \ {d}
  OBVIOUS
<1>3. Cardinality(ds \ {d}) = Cardinality(ds) - 1
  BY <1>1, FS_RemoveElement
<1>4. Cardinality(full \ {d}) = IF d \in full THEN Cardinality(full) - 1 ELSE Cardinality(full)
  BY <1>1, FS_RemoveElement
<1>5. d \in full <=> pass.seen[d].payload
  OBVIOUS
<1>6. SizeOf(ds) = Cardinality(ds) + Cardinality(full)
  BY DEF SizeOf
<1>7. SizeOf(ds \ {d}) = Cardinality(ds \ {d}) + Cardinality(full \ {d})
  BY <1>2 DEF SizeOf
<1> HIDE DEF full
<1>8. CASE pass.seen[d].payload
  <2>1. Size(pass.seen[d]) = 2
    BY <1>8 DEF Size
  <2> QED BY <1>1, <1>3, <1>4, <1>5, <1>6, <1>7, <1>8, <2>1
<1>9. CASE ~ pass.seen[d].payload
  <2>1. Size(pass.seen[d]) = 1
    BY <1>9 DEF Size
  <2> QED BY <1>1, <1>3, <1>4, <1>5, <1>6, <1>7, <1>9, <2>1
<1> QED BY <1>8, <1>9

LEMMA WalkEndsKeepsDirs ==
  ASSUME DirsInv, WalkEnds
  PROVE  DirsInv'
<1>1. UNCHANGED <<now, disk, active, taken, req, restarts, faults>> /\ pass.at = "walking"
  BY DEF WalkEnds
<1>2. Types' /\ NamesInv' /\ DirsAreOwn'
  BY <1>1, CleaningKeepsNames DEF DirsInv, Types
<1>3. CASE pass' = Idle
  BY <1>1, <1>2, <1>3, IdleIsClean DEF DirsInv
<1>4. CASE pass' = [pass EXCEPT !.at = "evicting", !.queue = DOMAIN pass.seen,
                                !.total = TotalSeen, !.spare = Spare]
  <2>1. PassTypes
    BY DEF DirsInv
  <2>2. /\ pass'.at = "evicting" /\ pass'.queue = DOMAIN pass.seen /\ pass'.total = TotalSeen
        /\ pass'.spare = Spare /\ DOMAIN pass' = DOMAIN pass
        /\ UNCHANGED <<pass.kept, pass.policy, pass.now, pass.seen, pass.gone>>
    BY <1>4, <2>1 DEF PassTypes
  <2>3. pass.gone = {}
    BY <1>1 DEF DirsInv, PassInv
  <2>4. ErrorsSeen \in SUBSET DOMAIN pass.seen
    BY DEF ErrorsSeen
  <2>5. /\ TotalSeen \in Int /\ Spare \in Int /\ Cardinality(ErrorsSeen) \in Nat
        /\ Cardinality(ErrorsSeen) = Spare + pass.policy.keep
    <3>1. Cardinality(ErrorsSeen) \in Nat /\ pass.policy.keep \in Nat
      BY <2>1, <2>4, SizesAreNumbers, Bounds DEF PassTypes
    <3>2. TotalSeen \in Int
      <4>1. SizeOf(DOMAIN pass.seen) \in Nat
        BY <2>1, SizesAreNumbers
      <4> QED BY <4>1 DEF TotalSeen
    <3> QED BY <3>1, <3>2 DEF Spare
  <2>6. PassTypes'
    BY <2>1, <2>2, <2>5 DEF PassTypes
  <2>7. PassInv'
    BY <1>1, <2>2 DEF DirsInv, PassInv, Owner, Named, Running
  <2>8. EvictInv'
    <3>1. Left' = DOMAIN pass.seen
      BY <2>2, <2>3 DEF Left
    <3>2. (SizeOf(Left))' = TotalSeen
      BY <2>2, <3>1 DEF SizeOf, TotalSeen
    <3>3. ErrorsSeen' = ErrorsSeen
      BY <2>2 DEF ErrorsSeen
    <3>4. ErrorsSeen \cap DOMAIN pass.seen = ErrorsSeen
      BY <2>4
    <3> QED BY <2>2, <2>3, <2>5, <3>1, <3>2, <3>3, <3>4 DEF EvictInv
  <2> QED BY <1>2, <2>6, <2>7, <2>8 DEF DirsInv
<1> QED BY <1>3, <1>4 DEF WalkEnds

(* What an eviction step takes from the list, and what becomes of it.      *)
LEMMA EvictTakesTheOldest ==
  ASSUME DirsInv, Evict
  PROVE  \E d \in pass.queue :
           /\ \A e \in pass.queue \ {d} : Older(d, e)
           /\ UNCHANGED <<now, active, taken, req, restarts>>
           /\ pass.at = "evicting" /\ pass.total > pass.policy.max
           /\ DOMAIN pass' = DOMAIN pass
           /\ UNCHANGED <<pass.at, pass.kept, pass.policy, pass.now, pass.listed, pass.seen>>
           /\ pass'.queue = pass.queue \ {d}
           /\ \/ /\ d \in ErrorsSeen /\ pass.spare <= 0
                 /\ UNCHANGED <<disk, faults, pass.spare, pass.gone, pass.total>>
              \/ /\ ~ (d \in ErrorsSeen /\ pass.spare <= 0)
                 /\ pass'.spare = IF d \in ErrorsSeen THEN pass.spare - 1 ELSE pass.spare
                 /\ \/ /\ disk' = Without(disk, d)
                       /\ pass'.gone = pass.gone \cup {d}
                       /\ pass'.total = pass.total - Size(pass.seen[d])
                       /\ faults' = faults
                    \/ /\ faults' = faults + 1
                       /\ UNCHANGED <<disk, pass.gone, pass.total>>
<1> DEFINE d == Oldest(pass.queue)
<1>1. d \in pass.queue /\ \A e \in pass.queue \ {d} : Older(d, e)
  BY OldestIsFirst DEF DirsInv, PassTypes, Evict
<1>2. PassTypes
  BY DEF DirsInv
<1> HIDE DEF d
<1>3. CASE d \in ErrorsSeen /\ pass.spare <= 0
  <2>1. pass' = [pass EXCEPT !.queue = pass.queue \ {d}] /\ UNCHANGED <<disk, faults>>
    BY <1>3 DEF Evict, d
  <2> QED BY <1>1, <1>2, <1>3, <2>1 DEF Evict, PassTypes
<1>4. CASE ~ (d \in ErrorsSeen /\ pass.spare <= 0)
  <2> DEFINE spare == IF d \in ErrorsSeen THEN pass.spare - 1 ELSE pass.spare
  <2>1. \/ /\ disk' = Without(disk, d)
           /\ pass' = [pass EXCEPT !.queue = pass.queue \ {d}, !.spare = spare,
                                   !.gone = @ \cup {d}, !.total = @ - Size(pass.seen[d])]
           /\ faults' = faults
        \/ /\ faults' = faults + 1
           /\ pass' = [pass EXCEPT !.queue = pass.queue \ {d}, !.spare = spare]
           /\ UNCHANGED disk
    BY <1>4 DEF Evict, d, Works, Fails
  <2> HIDE DEF spare
  <2>2. /\ DOMAIN pass' = DOMAIN pass
        /\ UNCHANGED <<pass.at, pass.kept, pass.policy, pass.now, pass.listed, pass.seen>>
        /\ pass'.queue = pass.queue \ {d} /\ pass'.spare = spare
    BY <1>2, <2>1 DEF PassTypes
  <2>3. \/ /\ disk' = Without(disk, d)
           /\ pass'.gone = pass.gone \cup {d}
           /\ pass'.total = pass.total - Size(pass.seen[d])
           /\ faults' = faults
        \/ /\ faults' = faults + 1
           /\ UNCHANGED <<disk, pass.gone, pass.total>>
    BY <1>2, <2>1 DEF PassTypes
  <2> QED BY <1>1, <1>4, <2>2, <2>3 DEF Evict, spare
<1> QED BY <1>3, <1>4

LEMMA EvictKeepsDirs ==
  ASSUME DirsInv, Evict
  PROVE  DirsInv'
<1>1. PICK d \in pass.queue :
        /\ UNCHANGED <<now, active, taken, req, restarts>>
        /\ pass.at = "evicting" /\ DOMAIN pass' = DOMAIN pass
        /\ UNCHANGED <<pass.at, pass.kept, pass.policy, pass.now, pass.listed, pass.seen>>
        /\ pass'.queue = pass.queue \ {d}
        /\ \/ /\ d \in ErrorsSeen /\ pass.spare <= 0
              /\ UNCHANGED <<disk, faults, pass.spare, pass.gone, pass.total>>
           \/ /\ ~ (d \in ErrorsSeen /\ pass.spare <= 0)
              /\ pass'.spare = IF d \in ErrorsSeen THEN pass.spare - 1 ELSE pass.spare
              /\ \/ /\ disk' = Without(disk, d)
                    /\ pass'.gone = pass.gone \cup {d}
                    /\ pass'.total = pass.total - Size(pass.seen[d])
                    /\ faults' = faults
                 \/ /\ faults' = faults + 1
                    /\ UNCHANGED <<disk, pass.gone, pass.total>>
  BY EvictTakesTheOldest
<1>2. PassTypes /\ EvictInv /\ faults \in Nat /\ pass.spare \in Int /\ pass.total \in Int
  BY DEF DirsInv, Types, PassTypes
<1>3. /\ DOMAIN disk' \subseteq DOMAIN disk
      /\ \A x \in DOMAIN disk' : disk'[x] \in Entry
      /\ faults' \in Nat /\ faults' >= faults
  BY <1>1, <1>2 DEF DirsInv, Types, Without, Restrict
<1>4. Types' /\ NamesInv' /\ DirsAreOwn'
  BY <1>1, <1>3, CleaningKeepsNames
<1>5. d \in DOMAIN pass.seen /\ d \notin pass.gone /\ d \in Left
  BY <1>1, <1>2 DEF PassTypes, EvictInv, Left
<1>6. Size(pass.seen[d]) \in Int
  BY DEF Size
<1>7. PassTypes'
  BY <1>1, <1>2, <1>5, <1>6 DEF PassTypes
<1>8. PassInv'
  BY <1>1 DEF DirsInv, PassInv, Owner, Named, Running
<1>9. EvictInv'
  <2>1. ErrorsSeen' = ErrorsSeen
    BY <1>1 DEF ErrorsSeen
  <2>2. pass'.queue \cap pass'.gone = {}
    BY <1>1, <1>2 DEF EvictInv
  <2>3. \A x \in Left' \ pass'.queue : x \in ErrorsSeen' \/ faults' > 0
    BY <1>1, <1>2, <1>3, <2>1 DEF EvictInv, Left
  <2>4. ASSUME pass'.spare > 0
        PROVE  Cardinality(ErrorsSeen' \cap pass'.queue) = pass'.spare + pass'.policy.keep
    <3> DEFINE errors == ErrorsSeen \cap pass.queue
    <3>1. IsFiniteSet(errors) /\ Cardinality(errors) \in Nat
      BY <1>2, SizesAreNumbers DEF ErrorsSeen
    <3>2. ErrorsSeen' \cap pass'.queue = errors \ {d}
      BY <1>1, <2>1
    <3>3. Cardinality(errors \ {d}) = IF d \in errors THEN Cardinality(errors) - 1
                                                      ELSE Cardinality(errors)
      BY <3>1, FS_RemoveElement
    <3>4. d \in errors <=> d \in ErrorsSeen
      BY <1>1
    <3>5. pass.spare > 0 /\ Cardinality(errors) = pass.spare + pass.policy.keep
      BY <1>1, <1>2, <2>4 DEF EvictInv
    <3>6. pass.policy.keep \in Nat /\ pass'.policy = pass.policy
      BY <1>1, <1>2, Bounds DEF PassTypes
    <3>7. pass'.spare = IF d \in ErrorsSeen THEN pass.spare - 1 ELSE pass.spare
      BY <1>1, <3>5, <1>2
    <3> HIDE DEF errors
    <3>8. Cardinality(errors \ {d}) = pass'.spare + pass.policy.keep
      BY <1>2, <3>1, <3>3, <3>4, <3>5, <3>6, <3>7
    <3> QED BY <3>2, <3>6, <3>8
  <2>5. pass'.total = (SizeOf(Left))'
    <3>1. \A ds : (SizeOf(ds))' = SizeOf(ds)
      BY <1>1 DEF SizeOf
    <3>2. pass.total = SizeOf(Left)
      BY <1>1, <1>2 DEF EvictInv
    <3>3. CASE pass'.gone = pass.gone /\ pass'.total = pass.total
      <4>1. Left' = Left
        BY <1>1, <3>3 DEF Left
      <4>2. (SizeOf(Left))' = SizeOf(Left)
        BY <1>1, <4>1 DEF SizeOf
      <4> QED BY <3>2, <3>3, <4>2
    <3>4. CASE pass'.gone = pass.gone \cup {d} /\ pass'.total = pass.total - Size(pass.seen[d])
      <4>1. Left' = Left \ {d}
        BY <1>1, <3>4 DEF Left
      <4>2. (SizeOf(Left))' = SizeOf(Left \ {d})
        BY <1>1, <4>1 DEF SizeOf
      <4>3. SizeOf(Left \ {d}) = SizeOf(Left) - Size(pass.seen[d])
        BY <1>2, <1>5, OneLess DEF Left
      <4> QED BY <3>2, <3>4, <4>2, <4>3
    <3> QED BY <1>1, <3>3, <3>4
  <2> QED BY <2>2, <2>3, <2>4, <2>5 DEF EvictInv
<1> QED BY <1>4, <1>7, <1>8, <1>9 DEF DirsInv

LEMMA TickKeepsDirs ==
  ASSUME DirsInv, Tick
  PROVE  DirsInv'
<1>1. /\ UNCHANGED <<disk, active, taken, req, pass, restarts, faults>>
      /\ now' = now + 1 /\ now < MaxTime /\ now \in Nat
      /\ \A r \in Requests : Named(r) => req[r].dir.at = now
  BY Bounds DEF Tick, Prompt, Named, DirsInv, Types
<1>2. Types'
  BY <1>1, Bounds DEF DirsInv, Types
<1>3. PassTypes' /\ EvictInv'
  <2>1. PassTypes /\ EvictInv /\ faults \in Nat
    BY DEF DirsInv, Types
  <2> QED BY <1>1, <2>1, RequestsLeaveThePass
<1>4. NamesInv' /\ DirsAreOwn'
  BY <1>1 DEF DirsInv, NamesInv, DirsAreOwn, Settled, Elsewhere, Owner, Named, Running
<1>5. PassInv'
  <2>1. pass.at # "idle" => pass.now \in Nat
    BY DEF DirsInv, PassTypes
  <2> QED BY <1>1, <2>1 DEF DirsInv, PassInv, Owner, Named, Running
<1> QED BY <1>2, <1>3, <1>4, <1>5 DEF DirsInv

LEMMA RestartKeepsDirs ==
  ASSUME DirsInv, Restart
  PROVE  DirsInv'
<1>1. /\ UNCHANGED <<now, disk, faults>> /\ restarts' = restarts + 1
      /\ active' = <<>> /\ taken' = {} /\ pass' = Idle
  BY DEF Restart
<1>2. \A r \in Requests :
        /\ req'[r].dir = req[r].dir
        /\ req[r].at \notin {"idle", "named"} => req'[r].at \notin {"idle", "named"}
        /\ ~ Owner(r)'
  BY DEF Restart, DirsInv, Types, Owner, Named, Running
<1>3. req' \in [Requests -> [at : {"idle", "named", "running", "done", "unlogged"},
                             dir : Names \cup {NoDir}]]
  BY DEF Restart, DirsInv, Types
<1>4. Types'
  BY <1>1, <1>3, NothingMapped DEF DirsInv, Types
<1>5. PassTypes' /\ EvictInv'
  BY <1>1, IdleTypes, NothingMapped DEF PassTypes, EvictInv
<1>6. NamesInv'
  BY <1>1, <1>2, NothingMapped DEF DirsInv, NamesInv, Settled, Owner
<1>7. DirsAreOwn' /\ PassInv'
  BY <1>1, <1>2, IdleTypes DEF DirsAreOwn, PassInv, Owner, Named, Running
<1> QED BY <1>4, <1>5, <1>6, <1>7 DEF DirsInv

LEMMA NextDirs == DirsInv /\ [Next]_vars => DirsInv'
<1> SUFFICES ASSUME DirsInv, [Next]_vars PROVE DirsInv'
  OBVIOUS
<1>1. ASSUME NEW r \in Requests, Reserve(r) PROVE DirsInv'
  BY <1>1, ReserveKeepsDirs
<1>2. ASSUME NEW r \in Requests, Collides(r) PROVE DirsInv'
  BY <1>2, CollisionKeepsDirs
<1>3. ASSUME NEW r \in Requests, Makes(r) \/ GoesUnlogged(r) \/ Writes(r) \/ Release(r)
      PROVE  DirsInv'
  BY <1>3, RequestsKeepDirs
<1>4. CASE PassBegins
  BY <1>4, PassBeginsKeepsDirs
<1>5. ASSUME NEW d \in DOMAIN disk, Walk(d) PROVE DirsInv'
  BY <1>5, WalkKeepsDirs
<1>6. CASE WalkEnds
  BY <1>6, WalkEndsKeepsDirs
<1>7. CASE Evict
  BY <1>7, EvictKeepsDirs
<1>8. CASE PassEnds
  <2>1. Types' /\ NamesInv' /\ DirsAreOwn'
    BY <1>8, CleaningKeepsNames DEF PassEnds, DirsInv, Types
  <2>2. PassTypes' /\ PassInv' /\ EvictInv'
    BY <1>8, IdleIsClean DEF PassEnds, DirsInv
  <2> QED BY <2>1, <2>2 DEF DirsInv
<1>9. CASE Tick
  BY <1>9, TickKeepsDirs
<1>10. CASE Restart
  BY <1>10, RestartKeepsDirs
<1>11. CASE UNCHANGED vars
  BY <1>11 DEF vars, DirsInv, Types, PassTypes, NamesInv, DirsAreOwn, PassInv, EvictInv, Settled,
     Elsewhere, Owner, Named, Running, Left, ErrorsSeen, SizeOf
<1> QED BY <1>1, <1>2, <1>3, <1>4, <1>5, <1>6, <1>7, <1>8, <1>9, <1>10, <1>11 DEF Next, Cleaning

-----------------------------------------------------------------------------
THEOREM DirsInvariant == Spec => []DirsInv
BY InitDirs, NextDirs, PTL DEF Spec

(* The variables have their types: every name is one that a request or an  *)
(* earlier process could have given.                                       *)
THEOREM DirsTypeCorrect == Spec => []TypeOK
<1>1. DirsInv => TypeOK
  BY DEF DirsInv, TypeOK
<1> QED BY <1>1, DirsInvariant, PTL

(* From its reservation to its release a directory is its request's alone, *)
(* and `mkdir` made it for that request.                                   *)
THEOREM DirsHold == Spec => DirsAreExclusive
<1>1. DirsInv => DirsAreOwn
  BY DEF DirsInv
<1>2. ASSUME DirsInv, [Next]_vars, NEW r \in Requests, ~ Running(r), req'[r].at = "running"
      PROVE  req[r].dir \notin DOMAIN disk /\ disk'[req[r].dir] = Fresh
  <2>1. ASSUME NEW s \in Requests, Makes(s)
        PROVE  req[r].dir \notin DOMAIN disk /\ disk'[req[r].dir] = Fresh
    <3>1. s = r
      BY <1>2, <2>1 DEF Makes, Running, DirsInv, Types
    <3> QED BY <2>1, <3>1 DEF Makes, With
  <2>2. ASSUME NEW s \in Requests,
               Reserve(s) \/ Collides(s) \/ GoesUnlogged(s) \/ Writes(s) \/ Release(s)
        PROVE  FALSE
    BY <1>2, <2>2 DEF Reserve, Collides, GoesUnlogged, Writes, Release, Running, DirsInv, Types
  <2>3. ~ (\E d \in DOMAIN disk : Walk(d))
    BY <1>2 DEF Walk, Running
  <2>4. ~ (PassBegins \/ WalkEnds \/ Evict \/ PassEnds \/ Tick \/ UNCHANGED vars)
    BY <1>2 DEF PassBegins, WalkEnds, Evict, PassEnds, Tick, vars, Running
  <2>5. ~ Restart
    BY <1>2 DEF Restart, Running, DirsInv, Types
  <2> QED BY <1>2, <2>1, <2>2, <2>3, <2>4, <2>5 DEF Next, Cleaning
<1>3. DirsInv /\ [Next]_vars =>
        [\A r \in Requests : ~Running(r) /\ req'[r].at = "running" =>
           req[r].dir \notin DOMAIN disk /\ disk'[req[r].dir] = Fresh]_vars
  BY <1>2
<1> QED BY <1>1, <1>3, DirsInvariant, PTL DEF Spec, DirsAreExclusive, NoneAdopted

(* Only the cleaner takes a directory or its payload away.                 *)
LEMMA OnlyCleaningTakes ==
  ASSUME DirsInv, [Next]_vars, NEW d, Touched(d)
  PROVE  Evict \/ \E e \in DOMAIN disk : Walk(e)
<1>1. ASSUME NEW r \in Requests, Reserve(r) \/ Collides(r) \/ Release(r) PROVE FALSE
  BY <1>1 DEF Reserve, Collides, Release, Touched, Gone
<1>2. ASSUME NEW r \in Requests, Makes(r) \/ GoesUnlogged(r) PROVE FALSE
  BY <1>2 DEF Makes, GoesUnlogged, Touched, Gone, With
<1>3. ASSUME NEW r \in Requests, Writes(r) PROVE FALSE
  BY <1>3 DEF Writes, Touched, Gone
<1>4. ~ (PassBegins \/ WalkEnds \/ PassEnds \/ Tick \/ Restart \/ UNCHANGED vars)
  BY DEF PassBegins, WalkEnds, PassEnds, Tick, Restart, vars, Touched, Gone
<1> QED BY <1>1, <1>2, <1>3, <1>4 DEF Next, Cleaning

(* A walk takes nothing from a request that is still writing.              *)
LEMMA WalkSparesTheRunning ==
  ASSUME DirsInv, NEW e \in DOMAIN disk, Walk(e), NEW r \in Requests, Running(r)
  PROVE  ~ Touched(req[r].dir)
<1> DEFINE d == req[r].dir
<1>1. /\ pass.at = "walking" /\ e \notin pass.kept
      /\ \/ AgedOut(e, pass.policy) /\ disk' = Without(disk, e)
         \/ disk' = [disk EXCEPT ![e] = Stripped(e)]
  BY DEF Walk, Candidate
<1>2. CASE d = e
  <2>1. d.at >= pass.now - 1 /\ pass.now \in Nat /\ d.at \in Nat
    BY <1>1, <1>2, OwnersAreActive, Bounds DEF DirsInv, PassInv, PassTypes, Owner, Names
  <2>2. ~ AgedOut(e, pass.policy) /\ ~ PayloadAged(e, pass.policy)
    BY <1>2, <2>1, Bounds DEF AgedOut, PayloadAged, DirsInv, PassTypes
  <2> QED BY <1>1, <1>2, <2>2 DEF Stripped, Touched, Gone
<1>3. CASE d # e
  BY <1>1, <1>3 DEF Touched, Gone, Without, Restrict
<1> QED BY <1>2, <1>3

(* A directory that a request is still writing is neither stripped nor     *)
(* removed, but for one that a pass did not know of when it began and that *)
(* the cap takes after everything older.                                   *)
THEOREM RunningHold == Spec => RunningIsKept
<1>1. ASSUME DirsInv, [Next]_vars, NEW r \in Requests, Running(r), Touched(req[r].dir)
      PROVE  /\ Gone(req[r].dir) /\ pass.at = "evicting" /\ req[r].dir \notin pass.kept
             /\ \A e \in Left : Older(e, req[r].dir) => e \in ErrorsSeen \/ faults > 0
  <2>1. Evict
    BY <1>1, OnlyCleaningTakes, WalkSparesTheRunning
  <2>2. PICK d \in pass.queue :
          /\ \A e \in pass.queue \ {d} : Older(d, e)
          /\ pass.at = "evicting"
          /\ disk' = disk \/ disk' = Without(disk, d)
    BY <1>1, <2>1, EvictTakesTheOldest
  <2>3. req[r].dir = d /\ Gone(d)
    BY <1>1, <2>2 DEF Touched, Gone, Without, Restrict
  <2>4. d \in DOMAIN pass.seen /\ d \notin pass.kept /\ DOMAIN pass.seen \subseteq Names
    BY <1>1, <2>2 DEF DirsInv, PassInv, PassTypes
  <2>5. ASSUME NEW e \in Left, Older(e, d)
        PROVE  e \notin pass.queue
    <3>1. e \in Names /\ d \in Names
      BY <2>4, <2>5 DEF Left
    <3>2. e.at \in Nat /\ e.n \in Nat /\ d.at \in Nat /\ d.n \in Nat
      BY <3>1, Bounds DEF Names
    <3>3. e # d /\ ~ Older(d, e)
      BY <2>5, <3>2 DEF Older
    <3> QED BY <2>2, <3>3
  <2> QED BY <1>1, <2>2, <2>3, <2>4, <2>5 DEF DirsInv, EvictInv
<1>2. DirsInv /\ [Next]_vars =>
        [\A r \in Requests : Running(r) /\ Touched(req[r].dir) =>
           LET d == req[r].dir
           IN  /\ Gone(d) /\ pass.at = "evicting" /\ d \notin pass.kept
               /\ \A e \in Left : Older(e, d) =>
                    e \in ErrorsSeen \/ faults > 0]_vars
  BY <1>1
<1> QED BY <1>2, DirsInvariant, PTL DEF Spec, RunningIsKept

(* A failure scene that goes is followed by as many newer ones as are to   *)
(* be kept.                                                                *)
LEMMA NewerErrorsRemain ==
  ASSUME DirsInv, [Next]_vars, pass.at = "evicting", NEW x \in DOMAIN disk, Gone(x),
         x \in ErrorsSeen
  PROVE  Cardinality({e \in ErrorsSeen : Older(x, e)}) >= pass.policy.keep
<1>1. Evict
  BY OnlyCleaningTakes DEF Touched, Walk
<1>2. PICK d \in pass.queue :
        /\ \A e \in pass.queue \ {d} : Older(d, e)
        /\ \/ disk' = disk
           \/ disk' = Without(disk, d) /\ ~ (d \in ErrorsSeen /\ pass.spare <= 0)
  BY <1>1, EvictTakesTheOldest
<1>3. x = d /\ pass.spare > 0
  BY <1>2 DEF Gone, DirsInv, PassTypes, Without, Restrict
<1> DEFINE errors == ErrorsSeen \cap pass.queue
           newer == {e \in ErrorsSeen : Older(x, e)}
<1>4. Cardinality(errors) = pass.spare + pass.policy.keep
  BY <1>3 DEF DirsInv, EvictInv
<1>5. ErrorsSeen \in SUBSET DOMAIN pass.seen /\ PassTypes
  BY DEF ErrorsSeen, DirsInv
<1>6. IsFiniteSet(errors) /\ Cardinality(errors) \in Nat /\ IsFiniteSet(newer)
      /\ Cardinality(newer) \in Nat
  BY <1>5, SizesAreNumbers
<1>7. errors \ {x} \subseteq newer
  BY <1>2, <1>3
<1>8. Cardinality(errors \ {x}) = Cardinality(errors) - 1
  BY <1>2, <1>3, <1>6, FS_RemoveElement
<1>9. Cardinality(errors \ {x}) <= Cardinality(newer)
  BY <1>6, <1>7, FS_Subset
<1>10. pass.policy.keep \in Nat /\ pass.spare \in Int
  BY <1>5, Bounds DEF PassTypes
<1> HIDE DEF errors, newer
<1> QED BY <1>3, <1>4, <1>6, <1>8, <1>9, <1>10 DEF newer

(* The cap is met when an eviction ends, and not gone below on the way.    *)
LEMMA TheCapIsMet ==
  ASSUME DirsInv, [Next]_vars, pass.at = "evicting", restarts' = restarts
  PROVE  /\ pass'.at = "idle" /\ faults = 0 =>
              SizeOf(Left) <= pass.policy.max \/ Left \subseteq ErrorsSeen
         /\ (\E d \in Left : Gone(d)) => SizeOf(Left) > pass.policy.max
<1>1. pass.total = SizeOf(Left)
  BY DEF DirsInv, EvictInv
<1>2. ASSUME pass'.at = "idle", faults = 0
      PROVE  SizeOf(Left) <= pass.policy.max \/ Left \subseteq ErrorsSeen
  <2>1. PassEnds
    <3>1. restarts \in Nat
      BY DEF DirsInv, Types
    <3>2. ~ Restart
      BY <3>1 DEF Restart
    <3>3. ~ Evict
      BY <1>2, EvictTakesTheOldest
    <3>4. ~ (\E r \in Requests : \/ Reserve(r) \/ Makes(r) \/ Collides(r) \/ GoesUnlogged(r)
                                 \/ Writes(r) \/ Release(r))
      BY <1>2 DEF Reserve, Makes, Collides, GoesUnlogged, Writes, Release
    <3>5. ~ (PassBegins \/ (\E d \in DOMAIN disk : Walk(d)) \/ WalkEnds \/ Tick \/ UNCHANGED vars)
      BY <1>2 DEF PassBegins, Walk, WalkEnds, Tick, vars
    <3> QED BY <3>2, <3>3, <3>4, <3>5 DEF Next, Cleaning
  <2>2. CASE pass.total <= pass.policy.max
    BY <1>1, <2>2
  <2>3. CASE pass.queue = {}
    BY <1>2, <2>3 DEF DirsInv, EvictInv
  <2> QED BY <2>1, <2>2, <2>3 DEF PassEnds
<1>3. ASSUME NEW d \in Left, Gone(d)
      PROVE  SizeOf(Left) > pass.policy.max
  <2>1. Evict
    BY <1>3, OnlyCleaningTakes DEF Touched, Walk
  <2> QED BY <1>1, <2>1 DEF Evict
<1> QED BY <1>2, <1>3

(* Eviction takes what the cap demands, no more, and spares the newest     *)
(* failure scenes.                                                         *)
THEOREM EvictionHold == Spec => EvictionIsFair
<1>1. DirsInv /\ [Next]_vars =>
        [\A d \in DOMAIN disk : pass.at = "evicting" /\ Gone(d) /\ d \in ErrorsSeen =>
           Cardinality({e \in ErrorsSeen : Older(d, e)}) >= pass.policy.keep]_vars
  BY NewerErrorsRemain
<1>2. DirsInv /\ [Next]_vars =>
        [pass.at = "evicting" /\ restarts' = restarts =>
           /\ pass'.at = "idle" /\ faults = 0 =>
                SizeOf(Left) <= pass.policy.max \/ Left \subseteq ErrorsSeen
           /\ (\E d \in Left : Gone(d)) => SizeOf(Left) > pass.policy.max]_vars
  BY TheCapIsMet
<1> QED BY <1>1, <1>2, DirsInvariant, PTL DEF Spec, EvictionIsFair, NewestErrorsKept, EvictsToTheCap

-----------------------------------------------------------------------------
(* The index *)

TailInv ==
  /\ file \in Seq(Lines) /\ buffer \in Seq(Lines) /\ indexFaults \in Nat
  /\ Unlocked \/ tail \in Seq(Lines)
  /\ todo \subseteq LiveRequests
  /\ open => bytes \in Nat /\ bytes <= Len(file)
  /\ indexFaults = 0 => buffer = <<>>
  /\ CapHolds
  /\ Unlocked \/ (~open /\ tail # <<>> /\ Last(tail) = newest)
  /\ TailSurvives

LEMMA LastOfLines ==
  ASSUME NEW S, NEW s \in Seq(S), NEW n \in Nat, n <= Len(s)
  PROVE  /\ LastOf(s, n) \in Seq(S) /\ Len(LastOf(s, n)) = n
         /\ n > 0 => LastOf(s, n) # <<>> /\ Last(LastOf(s, n)) = Last(s)
<1> DEFINE t == SubSeq(s, Len(s) - n + 1, Len(s))
<1>1. Len(s) \in Nat /\ Len(s) - n + 1 \in 1 .. Len(s) + 1
  OBVIOUS
<1>2. t \in Seq(S) /\ Len(t) = n
  BY <1>1
<1>3. ASSUME n > 0 PROVE t # <<>> /\ t[Len(t)] = s[Len(s)]
  <2>1. t[n] = s[Len(s)]
    BY <1>1, <1>2, <1>3
  <2> HIDE DEF t
  <2> QED BY <1>2, <1>3, <2>1
<1> HIDE DEF t
<1> QED BY <1>2, <1>3 DEF LastOf, Last, t

LEMMA AppendLast ==
  ASSUME NEW S, NEW s \in Seq(S), NEW t \in Seq(S), NEW e \in S
  PROVE  LET all == s \o Append(t, e)
         IN  /\ all \in Seq(S) /\ Len(all) = Len(s) + Len(t) + 1
             /\ all # <<>> /\ Last(all) = e
BY DEF Last

LEMMA TailInit == IndexInit => TailInv
<1> SUFFICES ASSUME IndexInit PROVE TailInv
  OBVIOUS
<1>1. OldLines \in Seq(Lines) /\ Len(OldLines) \in Nat
  <2>1. OldLines \in Seq(Range(OldLines)) /\ Range(OldLines) \subseteq Lines
    BY LineAssumption DEF Lines
  <2> QED BY <2>1
<1>2. PICK n \in 0 .. Len(OldLines) : file = LastOf(OldLines, n)
  BY DEF IndexInit
<1>3. file \in Seq(Lines)
  BY <1>1, <1>2, LastOfLines
<1> QED BY <1>3 DEF IndexInit, TailInv, CapHolds, TailSurvives, Unlocked

(* A file past the cap has the lines that a rewrite keeps.                 *)
LEMMA KeptLinesFit ==
  ASSUME TailInv, NEW r \in LiveRequests, ~Fits(BytesAtOpen + 1),
         NEW k \in {Cap \div 2 - 1, Cap \div 2}
  PROVE  k \in Nat /\ k > 0 /\ k <= Len(file \o Append(buffer, r))
<1>0. r \in Lines
  BY DEF Lines
<1>1. Len(file \o Append(buffer, r)) = Len(file) + Len(buffer) + 1
  BY <1>0, AppendLast DEF TailInv
<1>2. /\ Len(file) \in Nat /\ Len(buffer) \in Nat
      /\ BytesAtOpen \in Nat /\ BytesAtOpen <= Len(file)
  BY DEF TailInv, BytesAtOpen
<1> QED BY <1>1, <1>2, CapAssumption DEF Fits

LEMMA TailFlushed ==
  ASSUME TailInv, Unlocked, NEW r \in LiveRequests, Flushed(r), todo' \subseteq LiveRequests,
         UNCHANGED cut
  PROVE  TailInv'
<1> DEFINE all == file \o Append(buffer, r)
           n == BytesAtOpen + 1
<1>1. r \in Lines
  BY DEF Lines
<1>2. /\ all \in Seq(Lines) /\ Len(all) = Len(file) + Len(buffer) + 1
      /\ all # <<>> /\ Last(all) = r
  BY <1>1, AppendLast DEF TailInv
<1>3. /\ Len(file) \in Nat /\ Len(buffer) \in Nat
      /\ BytesAtOpen \in Nat /\ BytesAtOpen <= Len(file)
  BY DEF TailInv, BytesAtOpen
<1>4. indexFaults = 0 => Len(all) = n
  BY <1>2, <1>3 DEF TailInv, CapHolds, BytesAtOpen
<1>5. n \in Nat
  BY <1>3
<1>6. /\ file' = all /\ buffer' = <<>> /\ newest' = r /\ indexFaults' = indexFaults
      /\ \/ n <= Cap /\ open' = TRUE /\ bytes' = n /\ tail' = tail
         \/ ~Fits(n) /\ open' = FALSE /\ tail' \in KeptLines(all)
  BY DEF Flushed, IndexWorks, Fits
<1>8. CASE ~Fits(n) /\ open' = FALSE /\ tail' \in KeptLines(all)
  <2>1. PICK k \in {Cap \div 2 - 1, Cap \div 2} : tail' = LastOf(all, k)
    BY <1>8 DEF KeptLines
  <2>2. k \in Nat /\ k > 0 /\ k <= Len(all)
    BY <1>8, KeptLinesFit
  <2>3. tail' \in Seq(Lines) /\ tail' # <<>> /\ Last(tail') = r
    BY <2>1, <2>2, <1>2, LastOfLines
  <2> HIDE DEF all, n
  <2> QED BY <2>3, <1>2, <1>6, <1>8 DEF TailInv, CapHolds, TailSurvives, Unlocked
<1>7. CASE n <= Cap /\ open' = TRUE /\ bytes' = n /\ tail' = tail
  <2>1. n <= Len(all)
    BY <1>2, <1>3
  <2>2. file' \in Seq(Lines) /\ file' # <<>> /\ Last(file') = newest'
    BY <1>2, <1>6
  <2>3. bytes' \in Nat /\ bytes' <= Len(file')
    BY <2>1, <1>5, <1>6, <1>7
  <2>4. indexFaults' = 0 => bytes' = Len(file') /\ bytes' <= Cap
    BY <1>4, <1>6, <1>7
  <2>5. buffer' = <<>> /\ buffer' \in Seq(Lines) /\ indexFaults' \in Nat /\ Unlocked'
    BY <1>6, <1>7 DEF TailInv, Unlocked
  <2> HIDE DEF all, n
  <2> QED BY <2>2, <2>3, <2>4, <2>5 DEF TailInv, CapHolds, TailSurvives, Unlocked
<1> QED BY <1>6, <1>7, <1>8

LEMMA TailNext == TailInv /\ [IndexNext]_indexVars => TailInv'
<1> SUFFICES ASSUME TailInv, [IndexNext]_indexVars PROVE TailInv'
  OBVIOUS
<1> USE DEF TailInv, CapHolds, TailSurvives, Unlocked
<1>1. ASSUME NEW r \in LiveRequests, AppendIndex(r) PROVE TailInv'
  <2>0. /\ Unlocked /\ todo' \subseteq LiveRequests /\ UNCHANGED cut
    BY <1>1 DEF AppendIndex
  <2>1. CASE CannotOpen
    BY <1>1, <2>0, <2>1 DEF CannotOpen, IndexFails
  <2>2. CASE CannotFlush(r)
    <3>1. r \in Lines
      BY DEF Lines
    <3>2. Append(buffer, r) \in Seq(Lines) /\ BytesAtOpen \in Nat /\ BytesAtOpen <= Len(file)
      BY <3>1 DEF BytesAtOpen
    <3>3. indexFaults' \in Nat /\ indexFaults' # 0
      BY <2>2 DEF CannotFlush, IndexFails
    <3> QED BY <2>0, <2>2, <3>2, <3>3 DEF CannotFlush
  <2>3. CASE Flushed(r)
    BY <2>0, <2>3, TailFlushed
  <2> QED BY <1>1, <2>1, <2>2, <2>3 DEF AppendIndex
<1>2. CASE RewriteEmpties
  BY <1>2 DEF RewriteEmpties, appendVars
<1>3. CASE RewriteFails
  BY <1>3 DEF RewriteFails, IndexFails, appendVars
<1>4. CASE RewriteFills
  <2>1. ~Unlocked /\ file = <<>> /\ tail' = NoTail /\ UNCHANGED <<todo, open, buffer, newest>>
    BY <1>4 DEF RewriteFills
  <2>2. Unlocked' /\ ~open' /\ tail \in Seq(Lines)
    BY <2>1
  <2>3. CASE file' = tail /\ indexFaults' = indexFaults
    BY <2>1, <2>2, <2>3
  <2>4. CASE cut' = TRUE /\ file' = file /\ indexFaults' = indexFaults + 1
    BY <2>1, <2>2, <2>4
  <2> QED BY <1>4, <2>3, <2>4 DEF RewriteFills, IndexWorks, IndexFails
<1>5. CASE ReplayReads \/ ReplayReadsAgain
  BY <1>5 DEF ReplayReads, ReplayReadsAgain, IndexWorks, IndexFails, appendVars
<1>6. CASE ReplayCounts
  BY <1>6 DEF ReplayCounts, appendVars
<1>7. CASE IndexRestart
  <2>1. /\ UNCHANGED <<file, todo, newest>> /\ open' = FALSE /\ buffer' = <<>>
        /\ tail' = NoTail /\ indexFaults' = 0
        /\ cut' = (cut \/ (~Unlocked /\ file = <<>>))
    BY <1>7 DEF IndexRestart
  <2>2. Unlocked' /\ TailSurvives'
    BY <2>1
  <2> QED BY <2>1, <2>2
<1>8. CASE UNCHANGED indexVars
  BY <1>8 DEF indexVars, appendVars
<1> QED BY <1>1, <1>2, <1>3, <1>4, <1>5, <1>6, <1>7, <1>8 DEF IndexNext, Rewriting, Replaying

(* `append_index` and `truncate_to_tail` (debuglog.rs:930-1010,            *)
(* reader.rs:540-575) keep the newest line at the end of the index, except *)
(* when a rewrite is cut short, and the writer's count is the file's.      *)
THEOREM TailIsKept == IndexSpec => []IndexKeepsTail
<1>1. TailInv => IndexKeepsTail
  BY DEF TailInv, IndexKeepsTail
<1> QED BY <1>1, TailInit, TailNext, PTL DEF IndexSpec

-----------------------------------------------------------------------------
(* The counts *)

(* The lines of the index that a replay is sure to see, those about to be  *)
(* written back included.                                                  *)
InIndex == Covered(file) \cup IF Unlocked THEN {} ELSE Range(tail)

(* A line is in one place: written, buffered or of a request that has not  *)
(* completed. A rewrite finds nothing in the buffer.                       *)
LinesApart ==
  /\ IsInjective(file) /\ IsInjective(buffer)
  /\ Range(file) \cap Range(buffer) = {}
  /\ todo \cap (Range(file) \cup Range(buffer)) = {}
  /\ ~Unlocked => IsInjective(tail) /\ Range(tail) \cap todo = {} /\ buffer = <<>>

(* Nothing is counted before the snapshot; what is in it is not counted    *)
(* live; and the two together count all there is.                          *)
CountsApart ==
  /\ replay = [at |-> replay.at, lines |-> replay.lines]
  /\ replay.at \in {"first", "second", "read", "done"}
  /\ snapshotted <=> replay.at \in {"read", "done"}
  /\ usage \in [Lines -> {0, 1}]
  /\ ~snapshotted => \A l \in Lines : usage[l] = 0
  /\ \A l \in todo : usage[l] = 0
  /\ replay.at = "read" =>
       /\ replay.lines \in Seq(Lines) /\ IsInjective(replay.lines)
       /\ todo \cap Range(replay.lines) = {}
       /\ \A l \in Range(replay.lines) : usage[l] = 0
  /\ indexFaults = 0 =>
       /\ replay.at = "done" => \A l \in InIndex : usage[l] = 1
       /\ replay.at = "read" => \A l \in InIndex \ Range(replay.lines) : usage[l] = 1

CountInv == TailInv /\ LinesApart /\ CountsApart

LEMMA Occurrences ==
  ASSUME NEW s, IsInjective(s), NEW l
  PROVE  Cardinality({i \in DOMAIN s : s[i] = l}) = IF l \in Range(s) THEN 1 ELSE 0
<1>1. CASE l \in Range(s)
  <2>1. PICK j \in DOMAIN s : s[j] = l
    BY <1>1 DEF Range
  <2>2. {i \in DOMAIN s : s[i] = l} = {j}
    BY <2>1 DEF IsInjective
  <2> QED BY <1>1, <2>2, FS_Singleton
<1>2. CASE l \notin Range(s)
  <2>1. {i \in DOMAIN s : s[i] = l} = {}
    BY <1>2 DEF Range
  <2> QED BY <1>2, <2>1, FS_EmptySet
<1> QED BY <1>1, <1>2

(* Counting lines that have not been counted.                              *)
LEMMA Counted ==
  ASSUME usage \in [Lines -> {0, 1}], NEW s \in Seq(Lines), IsInjective(s),
         \A l \in Range(s) : usage[l] = 0
  PROVE  /\ CountAll(s) \in [Lines -> {0, 1}]
         /\ \A l \in Lines : CountAll(s)[l] = IF l \in Range(s) THEN 1 ELSE usage[l]
<1>1. \A l \in Lines : CountAll(s)[l] = IF l \in Range(s) THEN 1 ELSE usage[l]
  <2> SUFFICES ASSUME NEW l \in Lines
               PROVE  CountAll(s)[l] = IF l \in Range(s) THEN 1 ELSE usage[l]
    OBVIOUS
  <2>1. CountAll(s)[l] = usage[l] + Cardinality({i \in DOMAIN s : s[i] = l})
    BY DEF CountAll
  <2>2. usage[l] \in {0, 1}
    OBVIOUS
  <2> QED BY <2>1, <2>2, Occurrences
<1>2. \A l \in Lines : CountAll(s)[l] \in {0, 1}
  BY <1>1
<1> QED BY <1>1, <1>2 DEF CountAll

LEMMA LastOfItems ==
  ASSUME NEW S, NEW s \in Seq(S), NEW n \in Nat, n <= Len(s)
  PROVE  /\ DOMAIN LastOf(s, n) = 1 .. n
         /\ \A i \in 1 .. n : LastOf(s, n)[i] = s[Len(s) - n + i]
BY DEF LastOf

LEMMA LastOfInjective ==
  ASSUME NEW S, NEW s \in Seq(S), NEW n \in Nat, n <= Len(s), IsInjective(s)
  PROVE  IsInjective(LastOf(s, n)) /\ Range(LastOf(s, n)) \subseteq Range(s)
<1>1. /\ Len(s) \in Nat /\ DOMAIN s = 1 .. Len(s)
      /\ DOMAIN LastOf(s, n) = 1 .. n
      /\ \A i \in 1 .. n : LastOf(s, n)[i] = s[Len(s) - n + i]
  BY LastOfItems
<1>2. \A i \in 1 .. n : Len(s) - n + i \in DOMAIN s
  BY <1>1
<1>3. IsInjective(LastOf(s, n))
  <2> SUFFICES ASSUME NEW i \in 1 .. n, NEW j \in 1 .. n,
                      s[Len(s) - n + i] = s[Len(s) - n + j]
               PROVE  i = j
    BY <1>1 DEF IsInjective
  <2>1. Len(s) - n + i = Len(s) - n + j
    BY <1>2 DEF IsInjective
  <2> QED BY <2>1, <1>1
<1>4. Range(LastOf(s, n)) \subseteq Range(s)
  BY <1>1, <1>2 DEF Range
<1> QED BY <1>3, <1>4

(* A shorter tail has no line that a longer one lacks.                     *)
LEMMA ShorterTail ==
  ASSUME NEW S, NEW s \in Seq(S), NEW m \in Nat, NEW n \in Nat, m <= n, n <= Len(s)
  PROVE  Range(LastOf(s, m)) \subseteq Range(LastOf(s, n))
<1>1. /\ Len(s) \in Nat
      /\ DOMAIN LastOf(s, m) = 1 .. m /\ DOMAIN LastOf(s, n) = 1 .. n
      /\ \A i \in 1 .. m : LastOf(s, m)[i] = s[Len(s) - m + i]
      /\ \A i \in 1 .. n : LastOf(s, n)[i] = s[Len(s) - n + i]
  <2>1. m <= Len(s)
    OBVIOUS
  <2> QED BY <2>1, LastOfItems
<1>2. ASSUME NEW i \in DOMAIN LastOf(s, m)
      PROVE  \E j \in DOMAIN LastOf(s, n) : LastOf(s, n)[j] = LastOf(s, m)[i]
  <2> DEFINE j == n - m + i
  <2>1. j \in 1 .. n /\ Len(s) - n + j = Len(s) - m + i
    BY <1>1
  <2> HIDE DEF j
  <2>2. LastOf(s, n)[j] = LastOf(s, m)[i]
    BY <1>1, <2>1
  <2> QED BY <1>1, <2>1, <2>2
<1> QED BY <1>2 DEF Range

LEMMA CoveredLines ==
  ASSUME NEW S, NEW s \in Seq(S)
  PROVE  /\ Covered(s) \subseteq Range(s)
         /\ \A k \in Nat : k <= Len(s) /\ k <= Cap - 1 => Range(LastOf(s, k)) \subseteq Covered(s)
<1>1. Len(s) \in Nat /\ Cap \in Nat /\ Cap >= 4 /\ Cap - 1 \in Nat
  BY CapAssumption
<1>2. \A k \in Nat : k <= Len(s) => Range(LastOf(s, k)) \subseteq Range(s)
  BY <1>1, SMT DEF LastOf, Range
<1>3. CASE Len(s) <= Cap
  BY <1>2, <1>3 DEF Covered
<1>4. CASE Len(s) > Cap
  <2>1. Cap - 1 <= Len(s)
    BY <1>1, <1>4
  <2>2. Covered(s) = Range(LastOf(s, Cap - 1))
    BY <1>1, <1>4 DEF Covered
  <2> QED BY <1>1, <1>2, <2>1, <2>2, ShorterTail
<1> QED BY <1>1, <1>3, <1>4

(* What the replay reads is made of lines of the file, each once, and has  *)
(* all it is sure to see.                                                  *)
LEMMA TailReadLines ==
  ASSUME NEW S, NEW s \in Seq(S), IsInjective(s), NEW t \in TailRead(s)
  PROVE  /\ t \in Seq(S) /\ IsInjective(t)
         /\ Range(t) \subseteq Range(s) /\ Covered(s) \subseteq Range(t)
<1>1. Len(s) \in Nat /\ Cap \in Nat /\ Cap >= 4 /\ Cap - 1 \in Nat
  BY CapAssumption
<1>2. CASE Len(s) <= Cap
  BY <1>2 DEF TailRead, Covered
<1>3. CASE Len(s) > Cap
  <2>1. PICK n \in {Cap - 1, Cap} : t = LastOf(s, n)
    BY <1>1, <1>3 DEF TailRead
  <2>2. n \in Nat /\ n <= Len(s) /\ Cap - 1 <= n
    BY <1>1, <1>3, <2>1
  <2>3. t \in Seq(S) /\ IsInjective(t) /\ Range(t) \subseteq Range(s)
    BY <2>1, <2>2, LastOfLines, LastOfInjective
  <2>4. Covered(s) = Range(LastOf(s, Cap - 1))
    BY <1>1, <1>3 DEF Covered
  <2> QED BY <1>1, <2>1, <2>2, <2>3, <2>4, ShorterTail
<1> QED BY <1>1, <1>2, <1>3

(* A new line may push old ones out of the window, and brings only itself. *)
LEMMA CoveredAppend ==
  ASSUME NEW S, NEW s \in Seq(S), NEW e \in S
  PROVE  Covered(s \o Append(<<>>, e)) \subseteq Covered(s) \cup {e}
<1> DEFINE w == s \o Append(<<>>, e)
<1>1. /\ Len(s) \in Nat /\ Cap \in Nat /\ Cap >= 4
      /\ w \in Seq(S) /\ Len(w) = Len(s) + 1
      /\ \A i \in 1 .. Len(s) : w[i] = s[i]
      /\ w[Len(s) + 1] = e
  BY CapAssumption
<1> HIDE DEF w
<1>2. CASE Len(w) <= Cap
  <2>1. Covered(w) = Range(w) /\ Covered(s) = Range(s)
    BY <1>1, <1>2 DEF Covered
  <2>2. \A i \in DOMAIN w : i \in DOMAIN s \/ i = Len(s) + 1
    BY <1>1
  <2> QED BY <1>1, <2>1, <2>2 DEF Range, w
<1>3. CASE Len(w) > Cap
  <2> DEFINE k == Cap - 2
             a == LastOf(w, k + 1)
             b == LastOf(s, k)
  <2>1. k \in Nat /\ k <= Len(s) /\ k <= Cap - 1 /\ k + 1 = Cap - 1 /\ k + 1 <= Len(w)
    BY <1>1, <1>3
  <2>2. Covered(w) = Range(a) /\ Range(b) \subseteq Covered(s)
    BY <1>1, <1>3, <2>1, CoveredLines DEF Covered
  <2>3. /\ DOMAIN a = 1 .. k + 1 /\ DOMAIN b = 1 .. k
        /\ \A i \in 1 .. k + 1 : a[i] = w[Len(s) - k + i]
        /\ \A i \in 1 .. k : b[i] = s[Len(s) - k + i]
    <3>1. /\ DOMAIN b = 1 .. k
          /\ \A i \in 1 .. k : b[i] = s[Len(s) - k + i]
      BY <2>1, LastOfItems
    <3>2. /\ DOMAIN a = 1 .. k + 1
          /\ \A i \in 1 .. k + 1 : a[i] = w[Len(w) - (k + 1) + i]
      <4>1. w \in Seq(S) /\ k + 1 \in Nat /\ k + 1 <= Len(w)
        BY <1>1, <2>1
      <4> HIDE DEF k
      <4> QED BY <4>1, LastOfItems
    <3>3. Len(w) - (k + 1) = Len(s) - k
      BY <1>1, <2>1
    <3> QED BY <3>1, <3>2, <3>3
  <2> HIDE DEF a, b, k
  <2>4. ASSUME NEW i \in 1 .. k PROVE a[i] = b[i]
    <3>1. i \in 1 .. k + 1 /\ Len(s) - k + i \in 1 .. Len(s)
      BY <1>1, <2>1
    <3> QED BY <1>1, <2>3, <3>1
  <2>5. a[k + 1] = e
    <3>1. k + 1 \in 1 .. k + 1 /\ Len(s) - k + (k + 1) = Len(s) + 1
      BY <1>1, <2>1
    <3> QED BY <1>1, <2>3, <3>1
  <2>6. \A i \in DOMAIN a : i \in DOMAIN b \/ i = k + 1
    BY <2>1, <2>3
  <2>7. Range(a) \subseteq Range(b) \cup {e}
    BY <2>1, <2>3, <2>4, <2>5, <2>6 DEF Range
  <2> QED BY <2>2, <2>7 DEF w
<1> QED BY <1>1, <1>2, <1>3

LEMMA JoinInjective ==
  ASSUME NEW S, NEW s \in Seq(S), NEW t \in Seq(S), NEW e \in S,
         IsInjective(s), IsInjective(t), Range(s) \cap Range(t) = {},
         e \notin Range(s) \cup Range(t)
  PROVE  /\ IsInjective(s \o Append(t, e))
         /\ Range(s \o Append(t, e)) = Range(s) \cup Range(t) \cup {e}
         /\ IsInjective(Append(t, e)) /\ Range(Append(t, e)) = Range(t) \cup {e}
<1> DEFINE u == Append(t, e)
           w == s \o u
<1>1. /\ Len(s) \in Nat /\ DOMAIN s = 1 .. Len(s)
      /\ Len(t) \in Nat /\ DOMAIN t = 1 .. Len(t)
      /\ u \in Seq(S) /\ Len(u) = Len(t) + 1 /\ DOMAIN u = 1 .. Len(t) + 1
      /\ \A i \in 1 .. Len(t) : u[i] = t[i]
      /\ u[Len(t) + 1] = e
  OBVIOUS
<1>2. IsInjective(u) /\ Range(u) = Range(t) \cup {e}
  <2>1. Range(u) = Range(t) \cup {e}
    BY <1>1 DEF Range
  <2>2. IsInjective(u)
    BY <1>1 DEF IsInjective, Range
  <2> QED BY <2>1, <2>2
<1>3. /\ DOMAIN w = 1 .. Len(s) + Len(t) + 1
      /\ \A i \in DOMAIN s : w[i] = s[i] /\ i \in DOMAIN w
      /\ \A i \in DOMAIN u : w[Len(s) + i] = u[i] /\ Len(s) + i \in DOMAIN w
      /\ \A i \in DOMAIN w : i \in DOMAIN s \/ (\E j \in DOMAIN u : i = Len(s) + j)
  <2>1. DOMAIN w = 1 .. Len(s) + Len(t) + 1
    BY <1>1
  <2>2. \A i \in DOMAIN s : w[i] = s[i] /\ i \in DOMAIN w
    BY <1>1, <2>1
  <2>3. \A i \in DOMAIN u : w[Len(s) + i] = u[i] /\ Len(s) + i \in DOMAIN w
    BY <1>1, <2>1
  <2>4. ASSUME NEW i \in DOMAIN w, i \notin DOMAIN s
        PROVE  \E j \in DOMAIN u : i = Len(s) + j
    <3>1. i - Len(s) \in DOMAIN u /\ i = Len(s) + (i - Len(s))
      BY <1>1, <2>1, <2>4
    <3> QED BY <3>1
  <2> QED BY <2>1, <2>2, <2>3, <2>4
<1>4. Range(s) \cap Range(u) = {}
  BY <1>2
<1> HIDE DEF w, u
<1>5. Range(w) = Range(s) \cup Range(u)
  BY <1>3 DEF Range
<1>6. IsInjective(w)
  <2> SUFFICES ASSUME NEW i \in DOMAIN w, NEW j \in DOMAIN w, w[i] = w[j]
               PROVE  i = j
    BY DEF IsInjective
  <2>1. CASE i \in DOMAIN s /\ j \in DOMAIN s
    BY <2>1, <1>3 DEF IsInjective
  <2>2. CASE i \in DOMAIN s /\ j \notin DOMAIN s
    BY <2>2, <1>3, <1>4, SMTT(30) DEF Range
  <2>3. CASE i \notin DOMAIN s /\ j \in DOMAIN s
    BY <2>3, <1>3, <1>4 DEF Range
  <2>4. CASE i \notin DOMAIN s /\ j \notin DOMAIN s
    BY <2>4, <1>2, <1>3 DEF IsInjective
  <2> QED BY <2>1, <2>2, <2>3, <2>4
<1> QED BY <1>2, <1>5, <1>6 DEF w, u

LEMMA CountInit == IndexInit => CountInv
<1> SUFFICES ASSUME IndexInit PROVE CountInv
  OBVIOUS
<1>1. OldLines \in Seq(Range(OldLines)) /\ IsInjective(OldLines)
      /\ Len(OldLines) \in Nat /\ LiveRequests \cap Range(OldLines) = {}
  BY LineAssumption
<1>2. PICK n \in 0 .. Len(OldLines) : file = LastOf(OldLines, n)
  BY DEF IndexInit
<1>3. IsInjective(file) /\ Range(file) \subseteq Range(OldLines)
  BY <1>1, <1>2, LastOfInjective
<1>4. LinesApart
  <2>1. buffer = <<>> /\ todo = LiveRequests /\ Unlocked
    BY DEF IndexInit, Unlocked
  <2>2. IsInjective(buffer) /\ Range(buffer) = {}
    BY <2>1 DEF IsInjective, Range
  <2> QED BY <1>1, <1>3, <2>1, <2>2 DEF LinesApart
<1>5. CountsApart
  <2>1. LiveRequests \subseteq Lines
    BY DEF Lines
  <2> QED BY <2>1 DEF IndexInit, CountsApart, Startup
<1> QED BY <1>4, <1>5, TailInit DEF CountInv

(* A step that leaves the counts, the replay and the requests alone and    *)
(* brings no line into the index.                                          *)
LEMMA CountsKept ==
  ASSUME CountsApart, UNCHANGED countVars, todo' \subseteq todo, InIndex' \subseteq InIndex,
         indexFaults' = 0 => indexFaults = 0
  PROVE  CountsApart'
BY DEF CountsApart, countVars

LEMMA CountFlushed ==
  ASSUME CountInv, Unlocked, NEW r \in todo, Flushed(r), todo' = todo \ {r},
         UNCHANGED <<snapshotted, replay>>
  PROVE  LinesApart' /\ CountsApart'
<1> DEFINE all == file \o Append(buffer, r)
<1>1. /\ file \in Seq(Lines) /\ buffer \in Seq(Lines) /\ r \in Lines /\ r \in LiveRequests
      /\ r \notin Range(file) \cup Range(buffer)
  BY DEF CountInv, TailInv, LinesApart, Lines
<1>2. /\ all \in Seq(Lines) /\ IsInjective(all)
      /\ Range(all) = Range(file) \cup Range(buffer) \cup {r}
  BY <1>1, JoinInjective DEF CountInv, LinesApart
<1>3. /\ file' = all /\ buffer' = <<>> /\ indexFaults' = indexFaults
      /\ usage' = IF snapshotted THEN CountAll(<<r>>) ELSE usage
      /\ tail' = tail \/ (~Fits(BytesAtOpen + 1) /\ tail' \in KeptLines(all))
  BY DEF Flushed, IndexWorks, CountLive
<1>4. IsInjective(buffer') /\ Range(buffer') = {}
  BY <1>3 DEF IsInjective, Range
<1>5. ~Unlocked' => IsInjective(tail') /\ Range(tail') \subseteq Range(all)
  <2> SUFFICES ASSUME ~Unlocked' PROVE IsInjective(tail') /\ Range(tail') \subseteq Range(all)
    OBVIOUS
  <2>1. PICK k \in {Cap \div 2 - 1, Cap \div 2} :
          ~Fits(BytesAtOpen + 1) /\ tail' = LastOf(all, k)
    BY <1>3 DEF KeptLines, Unlocked
  <2>2. k \in Nat /\ k <= Len(all)
    BY <1>1, <2>1, KeptLinesFit DEF CountInv
  <2> QED BY <2>1, <2>2, <1>2, LastOfInjective
<1> HIDE DEF all
<1>6. LinesApart'
  BY <1>2, <1>3, <1>4, <1>5 DEF CountInv, LinesApart
<1>7. /\ Covered(all) \subseteq Range(all) /\ Covered(file) \subseteq Range(file)
      /\ ~Unlocked' => Range(tail') \subseteq Covered(all)
  <2>1. Covered(all) \subseteq Range(all) /\ Covered(file) \subseteq Range(file)
    BY <1>1, <1>2, CoveredLines
  <2>2. ASSUME ~Unlocked' PROVE Range(tail') \subseteq Covered(all)
    <3>1. PICK k \in {Cap \div 2 - 1, Cap \div 2} :
            ~Fits(BytesAtOpen + 1) /\ tail' = LastOf(all, k)
      BY <1>3, <2>2 DEF KeptLines, Unlocked
    <3>2. k \in Nat /\ k <= Len(all) /\ k <= Cap - 1
      BY <1>1, <3>1, KeptLinesFit, CapAssumption DEF CountInv, all
    <3> QED BY <1>2, <3>1, <3>2, CoveredLines
  <2> QED BY <2>1, <2>2
<1>8. indexFaults = 0 => \A l \in InIndex' : l \in InIndex \cup {r}
  <2> SUFFICES ASSUME indexFaults = 0 PROVE \A l \in InIndex' : l \in InIndex \cup {r}
    OBVIOUS
  <2>1. all = file \o Append(<<>>, r)
    BY DEF CountInv, TailInv, all
  <2>2. Covered(all) \subseteq Covered(file) \cup {r}
    BY <1>1, <2>1, CoveredAppend
  <2> QED BY <1>3, <1>7, <2>2 DEF InIndex
<1>9. ASSUME ~snapshotted PROVE CountsApart'
  BY <1>3, <1>9 DEF CountInv, CountsApart
<1>10. ASSUME snapshotted PROVE CountsApart'
  <2>1. <<r>> \in Seq(Lines) /\ IsInjective(<<r>>) /\ Range(<<r>>) = {r}
    BY <1>1 DEF IsInjective, Range
  <2>2. /\ usage \in [Lines -> {0, 1}] /\ usage[r] = 0
        /\ replay.at = "read" => r \notin Range(replay.lines)
        /\ replay.at \in {"read", "done"}
    BY <1>10 DEF CountInv, CountsApart
  <2>3. /\ usage' \in [Lines -> {0, 1}]
        /\ \A l \in Lines : usage'[l] = IF l = r THEN 1 ELSE usage[l]
    BY <1>3, <1>10, <2>1, <2>2, Counted
  <2>4. InIndex \subseteq Lines
    BY <1>1, <1>7 DEF InIndex, Range
  <2>5. replay.at = "read" => Range(replay.lines) \subseteq Lines
    BY DEF CountInv, CountsApart, Range
  <2>6. todo \subseteq Lines
    BY DEF CountInv, TailInv, Lines
  <2>7. indexFaults' = 0 =>
          /\ replay'.at = "done" => \A l \in InIndex' : usage'[l] = 1
          /\ replay'.at = "read" => \A l \in InIndex' \ Range(replay'.lines) : usage'[l] = 1
    BY <1>3, <1>8, <2>3, <2>4, <1>1 DEF CountInv, CountsApart
  <2> QED BY <2>2, <2>3, <2>5, <2>6, <2>7, <1>3, <1>10 DEF CountInv, CountsApart
<1>11. CountsApart'
  BY <1>9, <1>10
<1> QED BY <1>6, <1>11

LEMMA CountNext == CountInv /\ [IndexNext]_indexVars => CountInv'
<1> SUFFICES ASSUME CountInv, [IndexNext]_indexVars PROVE LinesApart' /\ CountsApart'
  BY TailNext DEF CountInv
<1>0. LinesApart /\ CountsApart /\ TailInv /\ TailInv'
  BY TailNext DEF CountInv
<1>1. ASSUME NEW r \in LiveRequests, AppendIndex(r) PROVE LinesApart' /\ CountsApart'
  <2>0. /\ Unlocked /\ r \in todo /\ todo' = todo \ {r} /\ UNCHANGED <<snapshotted, replay>>
    BY <1>1 DEF AppendIndex
  <2>1. CASE CannotOpen
    <3>1. UNCHANGED <<file, buffer, tail, usage>> /\ indexFaults' # 0
      BY <1>0, <2>1 DEF CannotOpen, IndexFails, TailInv
    <3>2. InIndex' = InIndex /\ UNCHANGED countVars
      BY <2>0, <3>1 DEF InIndex, Unlocked, countVars
    <3> QED BY <1>0, <2>0, <3>1, <3>2, CountsKept DEF LinesApart, Unlocked
  <2>2. CASE CannotFlush(r)
    <3>1. UNCHANGED <<file, tail, usage>> /\ indexFaults' # 0 /\ buffer' = Append(buffer, r)
      BY <1>0, <2>2 DEF CannotFlush, IndexFails, TailInv
    <3>2. InIndex' = InIndex /\ UNCHANGED countVars
      BY <2>0, <3>1 DEF InIndex, Unlocked, countVars
    <3>3. r \in Lines /\ r \notin Range(file) \cup Range(buffer)
      BY <1>0, <2>0 DEF Lines, LinesApart
    <3>4. IsInjective(buffer') /\ Range(buffer') = Range(buffer) \cup {r}
      BY <1>0, <3>1, <3>3, JoinInjective DEF LinesApart, TailInv
    <3>5. LinesApart'
      BY <1>0, <2>0, <3>1, <3>3, <3>4 DEF LinesApart, Unlocked
    <3> QED BY <1>0, <2>0, <3>1, <3>2, <3>5, CountsKept
  <2>3. CASE Flushed(r)
    BY <2>0, <2>3, CountFlushed
  <2> QED BY <1>1, <2>1, <2>2, <2>3 DEF AppendIndex
<1>2. ASSUME Rewriting PROVE LinesApart' /\ CountsApart'
  <2>1. UNCHANGED <<todo, buffer, snapshotted, replay, usage>> /\ ~Unlocked
        /\ (indexFaults' = 0 => indexFaults = 0)
    BY <1>0, <1>2 DEF Rewriting, RewriteEmpties, RewriteFails, RewriteFills, IndexWorks, IndexFails,
                      appendVars, countVars, TailInv
  <2>2. \/ file' = <<>> /\ tail' = tail
        \/ file' = file /\ tail' = NoTail
        \/ file' = tail /\ tail' = NoTail
    BY <1>2 DEF Rewriting, RewriteEmpties, RewriteFails, RewriteFills
  <2>3. IsInjective(<<>>) /\ Range(<<>>) = {}
    BY DEF IsInjective, Range
  <2>4. LinesApart'
    BY <1>0, <2>1, <2>2, <2>3 DEF LinesApart, Unlocked
  <2>5. Covered(<<>>) = {} /\ Covered(tail) \subseteq Range(tail)
    BY <1>0, <2>1, <2>3, CoveredLines, CapAssumption DEF TailInv, Covered
  <2>6. InIndex' \subseteq InIndex
    BY <2>1, <2>2, <2>5 DEF InIndex, Unlocked
  <2> QED BY <1>0, <2>1, <2>4, <2>6, CountsKept DEF countVars
<1>3. ASSUME ReplayReads \/ ReplayReadsAgain PROVE LinesApart' /\ CountsApart'
  <2>1. UNCHANGED <<file, todo, buffer, tail, usage>> /\ Unlocked
        /\ replay.at \in {"first", "second"}
    BY <1>3 DEF ReplayReads, ReplayReadsAgain, appendVars
  <2>2. LinesApart' /\ InIndex' = InIndex /\ InIndex = Covered(file)
    BY <1>0, <2>1 DEF LinesApart, InIndex, Unlocked
  <2>3. \/ snapshotted' = TRUE /\ Snapshot
        \/ /\ snapshotted' = TRUE /\ replay' = [at |-> "read", lines |-> <<>>] /\ indexFaults' # 0
        \/ /\ snapshotted' = snapshotted /\ replay' = [at |-> "second", lines |-> replay.lines]
    BY <1>0, <1>3 DEF ReplayReads, ReplayReadsAgain, OpenGate, IndexFails, IndexWorks, CountsApart, TailInv
  <2>4. ~snapshotted /\ (\A l \in Lines : usage[l] = 0) /\ usage \in [Lines -> {0, 1}]
        /\ (\A l \in todo : usage[l] = 0)
    BY <1>0, <2>1 DEF CountsApart
  <2>5. file \in Seq(Lines) /\ Range(file) \subseteq Lines /\ IsInjective(file)
        /\ todo \cap Range(file) = {}
    BY <1>0 DEF TailInv, LinesApart, Range
  <2>6. <<>> \in Seq(Lines) /\ IsInjective(<<>>) /\ Range(<<>>) = {}
    BY DEF IsInjective, Range
  <2>7. CASE snapshotted' = TRUE /\ Snapshot
    <3>1. PICK read \in TailRead(file) : replay' = [at |-> "read", lines |-> read]
      BY <2>7 DEF Snapshot
    <3>2. /\ read \in Seq(Lines) /\ IsInjective(read)
          /\ Range(read) \subseteq Range(file) /\ Covered(file) \subseteq Range(read)
      BY <2>5, <3>1, TailReadLines
    <3>3. CountsApart'
      BY <2>1, <2>2, <2>4, <2>5, <2>7, <3>1, <3>2 DEF CountsApart
    <3> QED BY <2>2, <3>3
  <2>8. CASE snapshotted' = TRUE /\ replay' = [at |-> "read", lines |-> <<>>] /\ indexFaults' # 0
    <3>1. CountsApart'
      BY <2>1, <2>2, <2>4, <2>6, <2>8 DEF CountsApart
    <3> QED BY <2>2, <3>1
  <2>9. CASE snapshotted' = snapshotted /\ replay' = [at |-> "second", lines |-> replay.lines]
    <3>1. CountsApart'
      BY <2>1, <2>2, <2>4, <2>9 DEF CountsApart
    <3> QED BY <2>2, <3>1
  <2> QED BY <2>3, <2>7, <2>8, <2>9
<1>4. ASSUME ReplayCounts PROVE LinesApart' /\ CountsApart'
  <2>1. /\ UNCHANGED <<file, todo, buffer, tail, snapshotted, indexFaults>>
        /\ replay.at = "read" /\ replay' = [at |-> "done", lines |-> <<>>]
        /\ usage' = CountAll(replay.lines)
    BY <1>4 DEF ReplayCounts, appendVars
  <2>2. LinesApart' /\ InIndex' = InIndex
    BY <1>0, <2>1 DEF LinesApart, InIndex, Unlocked
  <2>3. /\ replay.lines \in Seq(Lines) /\ IsInjective(replay.lines)
        /\ \A l \in Range(replay.lines) : usage[l] = 0
        /\ usage \in [Lines -> {0, 1}] /\ todo \cap Range(replay.lines) = {} /\ snapshotted
    BY <1>0, <2>1 DEF CountsApart
  <2>4. /\ usage' \in [Lines -> {0, 1}]
        /\ \A l \in Lines : usage'[l] = IF l \in Range(replay.lines) THEN 1 ELSE usage[l]
    BY <2>1, <2>3, Counted
  <2>5. InIndex \subseteq Lines /\ todo \subseteq Lines
    BY <1>0, CoveredLines DEF TailInv, InIndex, Range, Lines
  <2>6. CountsApart'
    BY <1>0, <2>1, <2>2, <2>3, <2>4, <2>5 DEF CountsApart
  <2> QED BY <2>2, <2>6
<1>5. ASSUME IndexRestart PROVE LinesApart' /\ CountsApart'
  <2>1. /\ UNCHANGED <<file, todo>> /\ buffer' = <<>> /\ Unlocked'
        /\ snapshotted' = FALSE /\ replay' = [at |-> "first", lines |-> <<>>]
        /\ usage' = [l \in Lines |-> 0]
    BY <1>5 DEF IndexRestart, Startup, Unlocked
  <2>2. IsInjective(<<>>) /\ Range(<<>>) = {}
    BY DEF IsInjective, Range
  <2>3. todo \subseteq Lines
    BY <1>0 DEF TailInv, Lines
  <2>4. LinesApart'
    BY <1>0, <2>1, <2>2 DEF LinesApart
  <2>5. CountsApart'
    BY <2>1, <2>3 DEF CountsApart
  <2> QED BY <2>4, <2>5
<1>6. ASSUME UNCHANGED indexVars PROVE LinesApart' /\ CountsApart'
  BY <1>0, <1>6 DEF indexVars, appendVars, countVars, LinesApart, CountsApart, InIndex, Unlocked
<1> QED BY <1>1, <1>2, <1>3, <1>4, <1>5, <1>6 DEF IndexNext, Replaying

(* No completed request is counted twice, and those whose lines lie within *)
(* the replay's window are counted (debuglog.rs:1080-1140): by the replay  *)
(* or by the live path, whichever side of the snapshot the line is on,     *)
(* through failed reads and writes, rewrites and restarts.                 *)
THEOREM LinesAreCountedOnce == IndexSpec => []CountedOnce
<1>1. CountInv => CountedOnce
  <2> SUFFICES ASSUME CountInv PROVE CountedOnce
    OBVIOUS
  <2>1. Covered(file) \subseteq InIndex /\ InIndex \subseteq Lines
    BY CoveredLines DEF InIndex, CountInv, TailInv, Range
  <2> QED BY <2>1 DEF CountInv, CountsApart, CountedOnce
<1> QED BY <1>1, CountInit, CountNext, PTL DEF IndexSpec
=============================================================================
