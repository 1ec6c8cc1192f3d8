---------------------------- MODULE ReconcileClaims ----------------------------
(***************************************************************************)
(* The lease table control.reconcile_claims and the lease guard that runs   *)
(* around every reconcile pass and every access-lapse step.                 *)
(*                                                                          *)
(* A claim is keyed by <<resource, placement>>.  A worker (one process; a    *)
(* restarted process draws a fresh worker id) holds it for Lease ticks,      *)
(* renews it from a timer every Renewal ticks and deletes it when its pass   *)
(* ends.  Time is a countdown per row, so that no clock has to be bounded:   *)
(* ttl[k] = 0 stands for lease_expires_at <= clock_timestamp().              *)
(***************************************************************************)
EXTENDS Integers, FiniteSets

CONSTANTS
    Workers,            \* worker ids that ever claim (one per process start)
    Keys,               \* claim keys <<resource, placement>>
    Volumes,            \* the resources of type volume
    Servers,            \* servers, as placements and as capacity groups
    NoServer,           \* NO_PLACEMENT_SERVER_ID, and a null server_id
    Destroy,            \* VOLUME_DESTROY_PLACEMENT_ID
    NoWorker,           \* "there is no row" in owner
    MaxActiveClaims,    \* MAX_ACTIVE_CLAIMS_PER_SERVER
    Lease,              \* the 60 seconds of a lease, in ticks
    Renewal,            \* RECONCILE_RENEWAL_MS, in ticks
    Skew                \* largest distance of Date.now() from the database clock

ASSUME ClaimConstants ==
    /\ NoServer \notin Servers
    /\ Destroy \notin Servers \cup {NoServer}
    /\ NoWorker \notin Workers
    /\ MaxActiveClaims \in Nat \ {0}
    /\ Lease \in Nat \ {0}
    /\ Renewal \in Nat /\ Skew \in Nat

ASSUME KeyShape ==
    /\ IsFiniteSet(Keys)
    /\ \A k \in Keys :
          /\ k[2] \in Servers \cup {NoServer, Destroy}
          /\ k[2] = Destroy => k[1] \in Volumes

VARIABLES
    owner,      \* worker_id of the row of a key, NoWorker when there is no row
    server,     \* server_id of the row
    ttl,        \* ticks until lease_expires_at, 0 when expired
    guard,      \* lease guard of a worker's pass: idle, held, or lost
    age,        \* ticks since the guard's last successful renewal
    dead        \* workers whose process has ended

vars == <<owner, server, ttl, guard, age, dead>>

GuardStates == {"idle", "held", "lost"}

TypeOK ==
    /\ owner \in [Keys -> Workers \cup {NoWorker}]
    /\ server \in [Keys -> Servers \cup {NoServer}]
    /\ ttl \in [Keys -> 0..Lease]
    /\ guard \in [Workers \X Keys -> GuardStates]
    /\ age \in [Workers \X Keys -> 0..Lease]
    /\ dead \in SUBSET Workers

Init ==
    /\ owner = [k \in Keys |-> NoWorker]
    /\ server = [k \in Keys |-> NoServer]
    /\ ttl = [k \in Keys |-> 0]
    /\ guard = [g \in Workers \X Keys |-> "idle"]
    /\ age = [g \in Workers \X Keys |-> 0]
    /\ dead = {}

--------------------------------------------------------------------------------
\* A row whose lease_expires_at lies after the database clock.
Active(k) == owner[k] # NoWorker /\ ttl[k] > 0

ActiveOn(s) == {k \in Keys : Active(k) /\ server[k] = s}

\* Mutant: the limit is tested one claim too late.
ServerHasRoomMutant(s) == s = NoServer \/ Cardinality(ActiveOn(s)) <= MaxActiveClaims

\* serverAtCapacity, negated: a claim without a server is never limited.
ServerHasRoom(s) == s = NoServer \/ Cardinality(ActiveOn(s)) < MaxActiveClaims

\* The destroy placement of a volume excludes every other placement of it.
Excludes(k1, k2) ==
    /\ k1[1] = k2[1] /\ k1[1] \in Volumes
    /\ (k1[2] = Destroy) # (k2[2] = Destroy)

\* Mutant: only the destroy looks for other claims, not the other way round.
PlacementFreeMutant(k) ==
    k[2] = Destroy => \A other \in Keys : Excludes(k, other) => ~Active(other)

\* The two reads of claimInTransaction that precede the claim of a volume.
PlacementFree(k) == \A other \in Keys : Excludes(k, other) => ~Active(other)

\* The server a claim of key k is counted against: its placement, except that
\* a volume.destroy intent may carry any server or none.
ServerChoices(k) == IF k[2] = Destroy THEN Servers \cup {NoServer} ELSE {k[2]}

\* ResourceChains runs one intent of a resource at a time in one process.
ChainIdle(w, r) == \A k \in Keys : k[1] = r => guard[<<w, k>>] = "idle"

\* The row is active by the application's clock, which may be skewed.
SeenActive(k, d) == owner[k] # NoWorker /\ ttl[k] + d > 0

CanClaim(w, k) == w \notin dead /\ ChainIdle(w, k[1]) /\ PlacementFree(k)

StartGuard(w, k) ==
    /\ guard' = [guard EXCEPT ![<<w, k>>] = "held"]
    /\ age' = [age EXCEPT ![<<w, k>>] = 0]

WriteRow(w, k, s) ==
    /\ owner' = [owner EXCEPT ![k] = w]
    /\ server' = [server EXCEPT ![k] = s]
    /\ ttl' = [ttl EXCEPT ![k] = Lease]

\* claim(): no row yet.
ClaimInsert(w, k, s) ==
    /\ CanClaim(w, k)
    /\ owner[k] = NoWorker
    /\ ServerHasRoom(s)
    /\ WriteRow(w, k, s)
    /\ StartGuard(w, k)
    /\ UNCHANGED dead

\* The WHERE lease_expires_at <= clock_timestamp() of the recycling update.
Expired(k) == ttl[k] = 0

\* claim(): the row looks expired; the update re-checks on the database clock.
ClaimRecycle(w, k, s) ==
    /\ CanClaim(w, k)
    /\ owner[k] # NoWorker
    /\ \E d \in (-Skew)..Skew : ~SeenActive(k, d)
    /\ ServerHasRoom(s)
    /\ Expired(k)
    /\ WriteRow(w, k, s)
    /\ StartGuard(w, k)
    /\ UNCHANGED dead

\* claim(): the row looks active and is this worker's own (left by a release
\* that failed); only its lease is renewed, its server stays.
ClaimOwn(w, k) ==
    /\ CanClaim(w, k)
    /\ \E d \in (-Skew)..Skew : SeenActive(k, d)
    /\ owner[k] = w
    /\ ttl[k] > 0
    /\ ttl' = [ttl EXCEPT ![k] = Lease]
    /\ StartGuard(w, k)
    /\ UNCHANGED <<owner, server, dead>>

\* The guard's timer: renew() where the row is ours and not expired, else lost.
Renew(w, k) ==
    /\ guard[<<w, k>>] = "held"
    /\ age[<<w, k>>] >= Renewal
    /\ IF owner[k] = w /\ ttl[k] > 0
       THEN /\ ttl' = [ttl EXCEPT ![k] = Lease]
            /\ age' = [age EXCEPT ![<<w, k>>] = 0]
            /\ UNCHANGED guard
       ELSE /\ guard' = [guard EXCEPT ![<<w, k>>] = "lost"]
            /\ UNCHANGED <<ttl, age>>
    /\ UNCHANGED <<owner, server, dead>>

\* The renewal throws: the guard is lost whether or not the update committed.
RenewError(w, k) ==
    /\ guard[<<w, k>>] = "held"
    /\ age[<<w, k>>] >= Renewal
    /\ guard' = [guard EXCEPT ![<<w, k>>] = "lost"]
    /\ \/ UNCHANGED ttl
       \/ /\ owner[k] = w /\ ttl[k] > 0
          /\ ttl' = [ttl EXCEPT ![k] = Lease]
    /\ UNCHANGED <<owner, server, age, dead>>

\* The guard stops, whatever its state.
StopGuard(w, k) ==
    /\ guard[<<w, k>>] # "idle"
    /\ guard' = [guard EXCEPT ![<<w, k>>] = "idle"]
    /\ age' = [age EXCEPT ![<<w, k>>] = 0]

\* Mutant: the delete names the placement only.
DeletesRowMutant(w, k) == TRUE

\* The WHERE worker_id = ... of release().
DeletesRow(w, k) == owner[k] = w

\* The end of withLease: the row is deleted where it is still this worker's,
\* expired or not.
Release(w, k) ==
    /\ StopGuard(w, k)
    /\ IF DeletesRow(w, k)
       THEN /\ owner' = [owner EXCEPT ![k] = NoWorker]
            /\ server' = [server EXCEPT ![k] = NoServer]
            /\ ttl' = [ttl EXCEPT ![k] = 0]
       ELSE UNCHANGED <<owner, server, ttl>>
    /\ UNCHANGED dead

\* The release itself fails: the row stays until it expires or is claimed again.
ReleaseError(w, k) ==
    /\ StopGuard(w, k)
    /\ UNCHANGED <<owner, server, ttl, dead>>

\* reapExpired(), the first thing a queue pass does.
Reap ==
    LET expired == {k \in Keys : owner[k] # NoWorker /\ Expired(k)} IN
    /\ expired # {}
    /\ owner' = [k \in Keys |-> IF k \in expired THEN NoWorker ELSE owner[k]]
    /\ server' = [k \in Keys |-> IF k \in expired THEN NoServer ELSE server[k]]
    /\ UNCHANGED <<ttl, guard, age, dead>>

\* The process ends; its rows stay, its guards do not.
Crash(w) ==
    /\ w \notin dead
    /\ dead' = dead \cup {w}
    /\ guard' = [g \in Workers \X Keys |-> IF g[1] = w THEN "idle" ELSE guard[g]]
    /\ age' = [g \in Workers \X Keys |-> IF g[1] = w THEN 0 ELSE age[g]]
    /\ UNCHANGED <<owner, server, ttl>>

\* Mutants: a lease that never quite ends, and one that ends below zero.
CountdownMutant(n) == IF n > 1 THEN n - 1 ELSE n
Countdown(n) == IF n > 0 THEN n - 1 ELSE 0

\* One tick of the clock.  A held guard grows older; its timer may be late.
Tick ==
    /\ ttl' = [k \in Keys |-> Countdown(ttl[k])]
    /\ age' = [g \in Workers \X Keys |->
                 IF guard[g] = "held" /\ age[g] < Lease THEN age[g] + 1 ELSE age[g]]
    /\ UNCHANGED <<owner, server, guard, dead>>

Step ==
    \/ \E w \in Workers, k \in Keys :
          \/ \E s \in ServerChoices(k) : ClaimInsert(w, k, s) \/ ClaimRecycle(w, k, s)
          \/ ClaimOwn(w, k)
          \/ Renew(w, k) \/ RenewError(w, k)
          \/ Release(w, k) \/ ReleaseError(w, k)
    \/ Reap
    \/ \E w \in Workers : Crash(w)

Next == Step \/ Tick

Spec == Init /\ [][Next]_vars

\* The database clock moves and queue passes keep reaping.
FairSpec == Spec /\ WF_vars(Tick) /\ WF_vars(Reap)

--------------------------------------------------------------------------------
(***************************************************************************)
(* Properties                                                               *)
(***************************************************************************)

\* While a volume's destroy placement is claimed, no other placement of that
\* volume is: a destroy never runs beside an attach, resize or ensure of it.
DestroyExclusive ==
    \A k1, k2 \in Keys : Excludes(k1, k2) => ~(Active(k1) /\ Active(k2))

\* At most MaxActiveClaims unexpired claims are counted against one server,
\* through recycled rows, renewals and rows left behind by dead processes.
ServerCapacity == \A s \in Servers : Cardinality(ActiveOn(s)) <= MaxActiveClaims

\* A pass that assertOwned() lets through and that renewed less than a lease ago.
Holds(w, k) == guard[<<w, k>>] = "held" /\ age[<<w, k>>] < Lease

\* Unless it stalled for a whole lease, a pass whose assertOwned() succeeds owns
\* the unexpired row of its placement, whatever renewals failed, rows were
\* recycled and clocks were off.
HeldIsOwned ==
    \A w \in Workers, k \in Keys : Holds(w, k) => owner[k] = w /\ ttl[k] > 0

\* Unless one of them stalled for a whole lease, no two processes both pass
\* assertOwned() on placements that exclude each other: the same placement, or a
\* volume's destroy and any other placement of it.
HeldExclusive ==
    \A w1, w2 \in Workers : w1 # w2 =>
        \A k1, k2 \in Keys :
            Holds(w1, k1) /\ Holds(w2, k2) => k1 # k2 /\ ~Excludes(k1, k2)

\* The passes that assertOwned() lets through, as holders of a lock on placements.
Lock == INSTANCE PlacementLock
        WITH holds <- {g \in Workers \X Keys : Holds(g[1], g[2])},
             Conflicts <- {p \in Keys \X Keys : p[1] = p[2] \/ Excludes(p[1], p[2])}

\* Rows, leases, renewals and recycling implement a lock: unless a process
\* stalls for a whole lease, a worker's assertOwned() starts to succeed only
\* while no pass, of its own process or of another, works on a placement that
\* conflicts with its own.
ActsAsLock == Lock!Spec

\* A claim passes to another worker only once its lease is over, and an
\* unexpired claim disappears only when the pass of its own worker ends: a
\* late release or a reap never drops a claim another worker lives on.
ClaimChangesHands ==
    [][\A k \in Keys :
         Active(k) /\ owner'[k] # owner[k] =>
            /\ owner'[k] = NoWorker
            /\ guard[<<owner[k], k>>] # "idle"
            /\ guard'[<<owner[k], k>>] = "idle"]_vars

\* The claim of a process that ended does not block its placement for good.
DeadClaimsLapse ==
    \A w \in Workers, k \in Keys : (w \in dead /\ owner[k] = w) ~> (owner[k] # w)

================================================================================
