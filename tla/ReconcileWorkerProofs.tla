------------------------- MODULE ReconcileWorkerProofs -------------------------
(***************************************************************************)
(* Proofs about the two halves of the reconcile worker.  ReconcileClaims, the *)
(* leases it works under, for every set of workers, keys and servers, every   *)
(* limit and every lease length.  ReconcileQueue, the loop that fills its      *)
(* chains, for any number of intents, resources, servers, pages and failures:  *)
(* the chains stay within their limits and hold an intent once.                *)
(***************************************************************************)
EXTENDS ReconcileClaims, ReconcileQueue, FiniteSetTheorems, SequenceTheorems, TLAPS

--------------------------------------------------------------------------------
(***************************************************************************)
(* Type correctness                                                         *)
(***************************************************************************)

\* No step of a process, of the clock or of a crash leaves the types.
LEMMA TypeStep == ASSUME TypeOK, [Next]_vars PROVE TypeOK'
<1> USE ClaimConstants
<1>1. ASSUME NEW w \in Workers, NEW k \in Keys, NEW s \in ServerChoices(k),
             ClaimInsert(w, k, s) \/ ClaimRecycle(w, k, s)
      PROVE  TypeOK'
  <2>1. s \in Servers \cup {NoServer}
    BY <1>1, KeyShape DEF ServerChoices
  <2>2. WriteRow(w, k, s) /\ StartGuard(w, k) /\ UNCHANGED dead
    BY <1>1 DEF ClaimInsert, ClaimRecycle
  <2>. QED BY <2>1, <2>2 DEF WriteRow, StartGuard, TypeOK, GuardStates
<1>2. ASSUME NEW w \in Workers, NEW k \in Keys, ClaimOwn(w, k) PROVE TypeOK'
  BY <1>2 DEF ClaimOwn, StartGuard, TypeOK, GuardStates
<1>3. ASSUME NEW w \in Workers, NEW k \in Keys, Renew(w, k) \/ RenewError(w, k)
      PROVE  TypeOK'
  <2>1. ttl' \in [Keys -> 0..Lease]
    BY <1>3 DEF Renew, RenewError, TypeOK
  <2>2. age' \in [Workers \X Keys -> 0..Lease]
    BY <1>3 DEF Renew, RenewError, TypeOK
  <2>3. guard' \in [Workers \X Keys -> GuardStates]
    BY <1>3 DEF Renew, RenewError, TypeOK, GuardStates
  <2>4. UNCHANGED <<owner, server, dead>>
    BY <1>3 DEF Renew, RenewError
  <2>. QED BY <2>1, <2>2, <2>3, <2>4 DEF TypeOK
<1>4. ASSUME NEW w \in Workers, NEW k \in Keys, Release(w, k) \/ ReleaseError(w, k)
      PROVE  TypeOK'
  <2>1. StopGuard(w, k) /\ UNCHANGED dead
    BY <1>4 DEF Release, ReleaseError
  <2>2. guard' \in [Workers \X Keys -> GuardStates]
        /\ age' \in [Workers \X Keys -> 0..Lease]
    BY <2>1 DEF StopGuard, TypeOK, GuardStates
  <2>3. /\ owner' \in [Keys -> Workers \cup {NoWorker}]
        /\ server' \in [Keys -> Servers \cup {NoServer}]
        /\ ttl' \in [Keys -> 0..Lease]
    BY <1>4 DEF Release, ReleaseError, TypeOK
  <2>. QED BY <2>1, <2>2, <2>3 DEF TypeOK
<1>5. CASE Reap
  BY <1>5 DEF Reap, TypeOK
<1>6. ASSUME NEW w \in Workers, Crash(w) PROVE TypeOK'
  BY <1>6 DEF Crash, TypeOK, GuardStates
<1>7. CASE Tick
  BY <1>7 DEF Tick, Countdown, TypeOK
<1>8. CASE UNCHANGED vars
  BY <1>8 DEF vars, TypeOK
<1>. QED BY <1>1, <1>2, <1>3, <1>4, <1>5, <1>6, <1>7, <1>8 DEF Next, Step

\* Every reachable claim table, lease guard and countdown is well formed, for
\* any number of processes, placements and ticks (reconcile_claims, LeaseGuard).
THEOREM TypeCorrect == Spec => []TypeOK
<1>1. Init => TypeOK
  BY ClaimConstants DEF Init, TypeOK, GuardStates
<1>. QED BY <1>1, TypeStep, PTL DEF Spec

--------------------------------------------------------------------------------
(***************************************************************************)
(* What a step can make active: only the key of a claim, and only after its   *)
(* checks.  Both table invariants follow from this one lemma.                 *)
(***************************************************************************)

\* The key k becomes active, counted against server s, by a claim.
Claimed(k, s) == PlacementFree(k) /\ ServerHasRoom(s)

\* A row becomes active, or changes the server it is counted on, only by a claim
\* that claimInTransaction admitted.
LEMMA ActiveStep ==
    ASSUME TypeOK, [Next]_vars
    PROVE  \/ \A k \in Keys : Active(k)' => Active(k) /\ server'[k] = server[k]
           \/ \E c \in Keys :
                 /\ Claimed(c, server'[c])
                 /\ \A k \in Keys : k # c /\ Active(k)' => Active(k) /\ server'[k] = server[k]
<1> USE ClaimConstants
<1>1. ASSUME NEW w \in Workers, NEW k \in Keys, NEW s \in ServerChoices(k),
             ClaimInsert(w, k, s) \/ ClaimRecycle(w, k, s)
      PROVE  /\ Claimed(k, server'[k])
             /\ \A j \in Keys : j # k /\ Active(j)' => Active(j) /\ server'[j] = server[j]
  <2>1. WriteRow(w, k, s) /\ PlacementFree(k) /\ ServerHasRoom(s)
    BY <1>1 DEF ClaimInsert, ClaimRecycle, CanClaim
  <2>2. server'[k] = s
    BY <2>1 DEF WriteRow, TypeOK
  <2>3. \A j \in Keys : j # k => owner'[j] = owner[j] /\ ttl'[j] = ttl[j] /\ server'[j] = server[j]
    BY <2>1 DEF WriteRow, TypeOK
  <2>. QED BY <2>1, <2>2, <2>3 DEF Claimed, Active
<1>2. ASSUME NEW w \in Workers, NEW k \in Keys,
             ClaimOwn(w, k) \/ Renew(w, k) \/ RenewError(w, k)
      PROVE  \A j \in Keys : Active(j)' => Active(j) /\ server'[j] = server[j]
  <2>1. UNCHANGED <<owner, server>>
    BY <1>2 DEF ClaimOwn, Renew, RenewError
  <2>2. \/ UNCHANGED ttl
        \/ owner[k] = w /\ ttl[k] > 0 /\ ttl' = [ttl EXCEPT ![k] = Lease]
    BY <1>2 DEF ClaimOwn, Renew, RenewError
  <2>. QED BY <2>1, <2>2 DEF Active, TypeOK
<1>3. ASSUME NEW w \in Workers, NEW k \in Keys, Release(w, k) \/ ReleaseError(w, k)
      PROVE  \A j \in Keys : Active(j)' => Active(j) /\ server'[j] = server[j]
  BY <1>3 DEF Release, ReleaseError, Active, TypeOK
<1>4. ASSUME Reap PROVE \A j \in Keys : Active(j)' => Active(j) /\ server'[j] = server[j]
  BY <1>4 DEF Reap, Active, TypeOK
<1>5. ASSUME NEW w \in Workers, Crash(w)
      PROVE  \A j \in Keys : Active(j)' => Active(j) /\ server'[j] = server[j]
  BY <1>5 DEF Crash, Active
<1>6. ASSUME Tick PROVE \A j \in Keys : Active(j)' => Active(j) /\ server'[j] = server[j]
  BY <1>6 DEF Tick, Countdown, Active, TypeOK
<1>7. ASSUME UNCHANGED vars
      PROVE  \A j \in Keys : Active(j)' => Active(j) /\ server'[j] = server[j]
  BY <1>7 DEF vars, Active
<1>. QED BY <1>1, <1>2, <1>3, <1>4, <1>5, <1>6, <1>7 DEF Next, Step

--------------------------------------------------------------------------------
(***************************************************************************)
(* The two invariants of the claim table                                    *)
(***************************************************************************)

\* A volume's destroy placement and any other placement of the volume are never
\* claimed at the same time: the reads claimInTransaction makes under the
\* volume-lifecycle lock are enough, whatever else happens to the table.
THEOREM DestroyIsExclusive == Spec => []DestroyExclusive
<1>1. Init => DestroyExclusive
  BY DEF Init, DestroyExclusive, Active
<1>2. ASSUME TypeOK, DestroyExclusive, [Next]_vars PROVE DestroyExclusive'
  <2>1. CASE \A k \in Keys : Active(k)' => Active(k) /\ server'[k] = server[k]
    BY <1>2, <2>1 DEF DestroyExclusive
  <2>2. ASSUME NEW c \in Keys, PlacementFree(c),
               \A k \in Keys : k # c /\ Active(k)' => Active(k) /\ server'[k] = server[k]
        PROVE  DestroyExclusive'
    <3>. SUFFICES ASSUME NEW k1 \in Keys, NEW k2 \in Keys, Excludes(k1, k2),
                         Active(k1)', Active(k2)'
                  PROVE  FALSE
      BY DEF DestroyExclusive, Excludes
    <3>1. Excludes(k2, k1) /\ k1 # k2
      BY DEF Excludes
    <3>. QED BY <1>2, <2>2, <3>1 DEF DestroyExclusive, PlacementFree
  <2>. QED BY <1>2, <2>1, <2>2, ActiveStep DEF Claimed
<1>. QED BY <1>1, <1>2, TypeCorrect, PTL DEF Spec

\* The claims counted on a server are finitely many.
LEMMA ActiveOnFinite == \A s : IsFiniteSet(ActiveOn(s)) /\ IsFiniteSet(ActiveOn(s))'
<1>1. IsFiniteSet(Keys)
  BY KeyShape
<1>. QED BY <1>1, FS_Subset DEF ActiveOn

\* No server ever carries more than MAX_ACTIVE_CLAIMS_PER_SERVER unexpired
\* claims, through recycling, renewal and rows of dead processes.
THEOREM CapacityHolds == Spec => []ServerCapacity
<1>1. Init => ServerCapacity
  <2>. SUFFICES ASSUME Init, NEW s \in Servers PROVE Cardinality(ActiveOn(s)) <= MaxActiveClaims
    BY DEF ServerCapacity
  <2>1. ActiveOn(s) = {}
    BY DEF Init, ActiveOn, Active
  <2>. QED BY <2>1, FS_EmptySet, ClaimConstants
<1>2. ASSUME TypeOK, ServerCapacity, [Next]_vars PROVE ServerCapacity'
  <2>. SUFFICES ASSUME NEW s \in Servers PROVE Cardinality(ActiveOn(s)') <= MaxActiveClaims
    BY DEF ServerCapacity, ActiveOn
  <2>1. IsFiniteSet(ActiveOn(s)) /\ IsFiniteSet(ActiveOn(s)')
    BY ActiveOnFinite
  <2>2. Cardinality(ActiveOn(s)) \in Nat /\ Cardinality(ActiveOn(s)) <= MaxActiveClaims
    BY <1>2, <2>1, FS_CardinalityType DEF ServerCapacity
  <2>3. CASE \A k \in Keys : Active(k)' => Active(k) /\ server'[k] = server[k]
    <3>1. ActiveOn(s)' \subseteq ActiveOn(s)
      BY <2>3 DEF ActiveOn
    <3>2. Cardinality(ActiveOn(s)') <= Cardinality(ActiveOn(s))
      BY <2>1, <3>1, FS_Subset
    <3>3. Cardinality(ActiveOn(s)') \in Nat
      BY <2>1, FS_CardinalityType
    <3>. QED BY <2>2, <3>2, <3>3, ClaimConstants
  <2>4. ASSUME NEW c \in Keys, ServerHasRoom(server'[c]),
               \A k \in Keys : k # c /\ Active(k)' => Active(k) /\ server'[k] = server[k]
        PROVE  Cardinality(ActiveOn(s)') <= MaxActiveClaims
    <3>0. Cardinality(ActiveOn(s)') \in Nat
      BY <2>1, FS_CardinalityType
    <3>1. CASE server'[c] = s
      <4>1. ActiveOn(s)' \subseteq ActiveOn(s) \cup {c}
        BY <2>4 DEF ActiveOn
      <4>. DEFINE A == ActiveOn(s)
      <4>2. IsFiniteSet(A \cup {c}) /\ Cardinality(A \cup {c}) <= Cardinality(A) + 1
        <5>1. /\ IsFiniteSet(A \cup {c})
              /\ \/ Cardinality(A \cup {c}) = Cardinality(A)
                 \/ Cardinality(A \cup {c}) = Cardinality(A) + 1
          BY <2>1, FS_AddElement
        <5>. QED BY <5>1, <2>2
      <4>2a. Cardinality(A \cup {c}) \in Nat
        BY <4>2, FS_CardinalityType
      <4>3. Cardinality(ActiveOn(s)') <= Cardinality(ActiveOn(s) \cup {c})
        BY <4>1, <4>2, FS_Subset
      <4>4. Cardinality(ActiveOn(s)) < MaxActiveClaims
        BY <2>4, <3>1, ClaimConstants DEF ServerHasRoom
      <4>. QED BY <2>2, <3>0, <4>2, <4>3, <4>4, <4>2a, ClaimConstants
    <3>2. CASE server'[c] # s
      <4>1. ActiveOn(s)' \subseteq ActiveOn(s)
        BY <2>4, <3>2 DEF ActiveOn
      <4>2. Cardinality(ActiveOn(s)') <= Cardinality(ActiveOn(s))
        BY <2>1, <4>1, FS_Subset
      <4>. QED BY <2>2, <3>0, <4>2, ClaimConstants
    <3>. QED BY <3>1, <3>2
  <2>. QED BY <1>2, <2>3, <2>4, ActiveStep DEF Claimed
<1>. QED BY <1>1, <1>2, TypeCorrect, PTL DEF Spec

--------------------------------------------------------------------------------
(***************************************************************************)
(* Exclusion between processes                                              *)
(***************************************************************************)

\* The strengthening that makes HeldIsOwned inductive: the row's remaining lease
\* and the guard's age add up to at least a lease.
HeldIsFresh ==
    \A w \in Workers, k \in Keys :
        Holds(w, k) => owner[k] = w /\ ttl[k] + age[<<w, k>>] >= Lease

\* A guard that renewed less than a lease ago owns its unexpired row.
LEMMA FreshIsOwned == ASSUME TypeOK, HeldIsFresh PROVE HeldIsOwned
<1>. SUFFICES ASSUME NEW w \in Workers, NEW k \in Keys, Holds(w, k)
              PROVE  owner[k] = w /\ ttl[k] > 0
  BY DEF HeldIsOwned
<1>1. ttl[k] \in 0..Lease /\ age[<<w, k>>] \in 0..Lease
  BY DEF TypeOK
<1>. QED BY <1>1, ClaimConstants DEF HeldIsFresh, Holds

\* Every step keeps the guards fresh: what a guard has in age its row lacks in
\* ttl, and nobody takes or reaps a row that is not expired.
LEMMA FreshStep == ASSUME TypeOK, HeldIsFresh, [Next]_vars PROVE HeldIsFresh'
<1>. USE ClaimConstants
<1>. SUFFICES ASSUME NEW w \in Workers, NEW k \in Keys, Holds(w, k)'
              PROVE  owner'[k] = w /\ ttl'[k] + age'[<<w, k>>] >= Lease
  BY DEF HeldIsFresh
<1>. DEFINE g == <<w, k>>
<1>p. guard'[g] = "held" /\ age'[g] < Lease
  BY DEF Holds
<1>0. /\ g \in Workers \X Keys
      /\ ttl[k] \in 0..Lease /\ age[g] \in 0..Lease /\ owner[k] \in Workers \cup {NoWorker}
  BY DEF TypeOK
<1>h. guard[g] = "held" /\ age[g] < Lease =>
        owner[k] = w /\ ttl[k] + age[g] >= Lease /\ ttl[k] > 0
  BY <1>0, FreshIsOwned DEF HeldIsFresh, HeldIsOwned, Holds
<1>1. ASSUME NEW v \in Workers, NEW j \in Keys, NEW s \in ServerChoices(j),
             ClaimInsert(v, j, s) \/ ClaimRecycle(v, j, s)
      PROVE  owner'[k] = w /\ ttl'[k] + age'[g] >= Lease
  <2>1. /\ WriteRow(v, j, s) /\ StartGuard(v, j)
        /\ owner[j] = NoWorker \/ ttl[j] = 0
    BY <1>1 DEF ClaimInsert, ClaimRecycle, Expired
  <2>2. CASE j = k
    <3>1. ~(guard[g] = "held" /\ age[g] < Lease)
      BY <1>h, <2>1, <2>2
    <3>2. v = w
      <4>. SUFFICES ASSUME v # w PROVE FALSE
        OBVIOUS
      <4>1. guard'[g] = guard[g] /\ age'[g] = age[g]
        BY <1>0, <2>1, <2>2 DEF StartGuard, TypeOK
      <4>. QED BY <1>p, <3>1, <4>1
    <3>. QED BY <1>0, <2>1, <2>2, <3>2 DEF WriteRow, StartGuard, TypeOK
  <2>3. CASE j # k
    <3>1. guard'[g] = guard[g] /\ age'[g] = age[g] /\ owner'[k] = owner[k] /\ ttl'[k] = ttl[k]
      BY <1>0, <2>1, <2>3 DEF WriteRow, StartGuard, TypeOK
    <3>. QED BY <1>h, <1>p, <3>1
  <2>. QED BY <2>2, <2>3
<1>2. ASSUME NEW v \in Workers, NEW j \in Keys, ClaimOwn(v, j)
      PROVE  owner'[k] = w /\ ttl'[k] + age'[g] >= Lease
  <2>1. /\ owner[j] = v /\ UNCHANGED owner /\ StartGuard(v, j)
        /\ ttl' = [ttl EXCEPT ![j] = Lease]
    BY <1>2 DEF ClaimOwn
  <2>2. CASE g = <<v, j>>
    BY <1>0, <2>1, <2>2 DEF StartGuard, TypeOK
  <2>3. CASE g # <<v, j>>
    <3>1. guard'[g] = guard[g] /\ age'[g] = age[g]
      BY <1>0, <2>1, <2>3 DEF StartGuard, TypeOK
    <3>2. ttl'[k] >= ttl[k] /\ ttl'[k] \in 0..Lease
      BY <1>0, <2>1 DEF TypeOK
    <3>. QED BY <1>0, <1>h, <1>p, <2>1, <3>1, <3>2
  <2>. QED BY <2>2, <2>3
<1>3. ASSUME NEW v \in Workers, NEW j \in Keys, Renew(v, j) \/ RenewError(v, j)
      PROVE  owner'[k] = w /\ ttl'[k] + age'[g] >= Lease
  <2>1. UNCHANGED owner
    BY <1>3 DEF Renew, RenewError
  <2>2. guard[g] = "held"
    BY <1>0, <1>3, <1>p DEF Renew, RenewError, TypeOK
  <2>3. ttl' = ttl \/ ttl' = [ttl EXCEPT ![j] = Lease]
    BY <1>3 DEF Renew, RenewError
  <2>4. ttl'[k] \in 0..Lease /\ ttl'[k] >= ttl[k]
    BY <1>0, <2>3 DEF TypeOK
  <2>5. \/ age'[g] = age[g]
        \/ age'[g] = 0 /\ ttl'[k] = Lease /\ owner[k] = w
    BY <1>0, <1>3 DEF Renew, RenewError, TypeOK
  <2>. QED BY <1>0, <1>h, <1>p, <2>1, <2>2, <2>4, <2>5
<1>4. ASSUME NEW v \in Workers, NEW j \in Keys, Release(v, j) \/ ReleaseError(v, j)
      PROVE  owner'[k] = w /\ ttl'[k] + age'[g] >= Lease
  <2>1. StopGuard(v, j)
    BY <1>4 DEF Release, ReleaseError
  <2>2. g # <<v, j>> /\ guard[g] = "held" /\ age'[g] = age[g]
    BY <1>0, <1>p, <2>1 DEF StopGuard, TypeOK
  <2>3. owner[k] = w
    BY <1>h, <1>p, <2>2
  <2>4. owner'[k] = owner[k] /\ ttl'[k] = ttl[k]
    BY <1>0, <1>4, <2>2, <2>3 DEF Release, ReleaseError, DeletesRow, TypeOK
  <2>. QED BY <1>h, <1>p, <2>2, <2>4
<1>5. ASSUME Reap
      PROVE  owner'[k] = w /\ ttl'[k] + age'[g] >= Lease
  <2>1. guard[g] = "held" /\ age'[g] = age[g] /\ ttl'[k] = ttl[k]
    BY <1>5, <1>p DEF Reap
  <2>2. owner'[k] = owner[k]
    BY <1>0, <1>h, <1>p, <1>5, <2>1 DEF Reap, Expired
  <2>. QED BY <1>h, <1>p, <2>1, <2>2
<1>6. ASSUME NEW v \in Workers, Crash(v)
      PROVE  owner'[k] = w /\ ttl'[k] + age'[g] >= Lease
  <2>1. guard[g] = "held" /\ age'[g] = age[g] /\ owner'[k] = owner[k] /\ ttl'[k] = ttl[k]
    BY <1>0, <1>6, <1>p DEF Crash
  <2>. QED BY <1>h, <1>p, <2>1
<1>7. ASSUME Tick
      PROVE  owner'[k] = w /\ ttl'[k] + age'[g] >= Lease
  <2>1. guard[g] = "held" /\ owner'[k] = owner[k] /\ age[g] < Lease
    BY <1>0, <1>7, <1>p DEF Tick
  <2>2. ttl'[k] = ttl[k] - 1
    BY <1>0, <1>7, <1>h, <2>1 DEF Tick, Countdown
  <2>3. age'[g] = age[g] + 1
    BY <1>0, <1>7, <2>1 DEF Tick
  <2>. QED BY <1>0, <1>h, <2>1, <2>2, <2>3
<1>8. ASSUME UNCHANGED vars
      PROVE  owner'[k] = w /\ ttl'[k] + age'[g] >= Lease
  BY <1>h, <1>p, <1>8 DEF vars
<1>. QED BY <1>1, <1>2, <1>3, <1>4, <1>5, <1>6, <1>7, <1>8 DEF Next, Step

\* A pass that assertOwned() lets through owns its unexpired row: losing it and
\* not knowing takes a process that stalls for a whole lease.
THEOREM HeldPassOwnsItsClaim == Spec => []HeldIsOwned
<1>1. Init => HeldIsFresh
  BY DEF Init, HeldIsFresh, Holds
<1>2. TypeOK /\ HeldIsFresh => HeldIsOwned
  BY FreshIsOwned
<1>. QED BY <1>1, <1>2, FreshStep, TypeCorrect, PTL DEF Spec

\* No two processes pass assertOwned() on the same placement, nor one on a
\* volume's destroy and the other on the volume, unless one stalled for a lease.
THEOREM HeldPassesExclude == Spec => []HeldExclusive
<1>1. ASSUME HeldIsOwned, DestroyExclusive PROVE HeldExclusive
  <2>. SUFFICES ASSUME NEW w1 \in Workers, NEW w2 \in Workers, w1 # w2,
                       NEW k1 \in Keys, NEW k2 \in Keys, Holds(w1, k1), Holds(w2, k2)
                PROVE  k1 # k2 /\ ~Excludes(k1, k2)
    BY DEF HeldExclusive
  <2>1. owner[k1] = w1 /\ owner[k2] = w2 /\ Active(k1) /\ Active(k2)
    BY <1>1, ClaimConstants DEF HeldIsOwned, Active
  <2>. QED BY <1>1, <2>1 DEF DestroyExclusive
<1>. QED BY <1>1, HeldPassOwnsItsClaim, DestroyIsExclusive, PTL

--------------------------------------------------------------------------------
(***************************************************************************)
(* The claims implement the lock                                            *)
(***************************************************************************)

\* A step lets at most one more pass through assertOwned(), and when it does it
\* leaves every other guard alone.
LEMMA HoldsStep ==
    ASSUME TypeOK, [Next]_vars
    PROVE  \/ \A g \in Workers \X Keys : Holds(g[1], g[2])' => Holds(g[1], g[2])
           \/ \E a \in Workers \X Keys : \A g \in Workers \X Keys :
                 g # a => (Holds(g[1], g[2])' <=> Holds(g[1], g[2]))
<1>0. \A g \in Workers \X Keys : g = <<g[1], g[2]>>
  OBVIOUS
<1>1. ASSUME NEW v \in Workers, NEW j \in Keys,
             StartGuard(v, j) \/ Renew(v, j)
      PROVE  \A g \in Workers \X Keys :
                 g # <<v, j>> => (Holds(g[1], g[2])' <=> Holds(g[1], g[2]))
  <2>1. \A g \in Workers \X Keys : g # <<v, j>> => guard'[g] = guard[g] /\ age'[g] = age[g]
    BY <1>1 DEF StartGuard, Renew, TypeOK
  <2>. QED BY <1>0, <2>1 DEF Holds
<1>2. ASSUME NEW w \in Workers, NEW k \in Keys, NEW s \in ServerChoices(k),
             ClaimInsert(w, k, s) \/ ClaimRecycle(w, k, s)
      PROVE  StartGuard(w, k)
  BY <1>2 DEF ClaimInsert, ClaimRecycle
<1>3. ASSUME NEW w \in Workers, NEW k \in Keys, ClaimOwn(w, k) PROVE StartGuard(w, k)
  BY <1>3 DEF ClaimOwn
<1>4. ASSUME NEW v \in Workers, NEW j \in Keys,
             RenewError(v, j) \/ Release(v, j) \/ ReleaseError(v, j)
      PROVE  \A g \in Workers \X Keys : Holds(g[1], g[2])' => Holds(g[1], g[2])
  <2>1. \A g \in Workers \X Keys : guard'[g] = "held" => guard[g] = "held" /\ age'[g] = age[g]
    BY <1>4 DEF RenewError, Release, ReleaseError, StopGuard, TypeOK
  <2>. QED BY <1>0, <2>1 DEF Holds
<1>5. ASSUME Reap \/ UNCHANGED vars
      PROVE  \A g \in Workers \X Keys : Holds(g[1], g[2])' => Holds(g[1], g[2])
  BY <1>5 DEF Reap, vars, Holds
<1>6. ASSUME NEW v \in Workers, Crash(v)
      PROVE  \A g \in Workers \X Keys : Holds(g[1], g[2])' => Holds(g[1], g[2])
  <2>1. \A g \in Workers \X Keys : guard'[g] = "held" => guard[g] = "held" /\ age'[g] = age[g]
    BY <1>6 DEF Crash, TypeOK
  <2>. QED BY <1>0, <2>1 DEF Holds
<1>7. ASSUME Tick
      PROVE  \A g \in Workers \X Keys : Holds(g[1], g[2])' => Holds(g[1], g[2])
  <2>1. \A g \in Workers \X Keys :
           guard'[g] = guard[g] /\ (age'[g] < Lease => age[g] < Lease)
    BY <1>7, ClaimConstants DEF Tick, TypeOK
  <2>. QED BY <1>0, <2>1 DEF Holds
<1>. QED
  <2>1. CASE \E w \in Workers, k \in Keys : StartGuard(w, k) \/ Renew(w, k)
    BY <1>1, <2>1
  <2>. QED BY <1>2, <1>3, <1>4, <1>5, <1>6, <1>7, <2>1 DEF Next, Step

\* The holders of the abstract lock, and its conflicts.
Holders == {g \in Workers \X Keys : Holds(g[1], g[2])}
Conflicting == {p \in Keys \X Keys : p[1] = p[2] \/ Excludes(p[1], p[2])}

\* No two holders work on conflicting placements.
HoldersExclude == \A a, b \in Holders : a # b => <<a[2], b[2]>> \notin Conflicting

\* Two different holders never hold conflicting placements: each owns the
\* unexpired row of its own.
LEMMA OwnersExclude == ASSUME HeldIsOwned, DestroyExclusive PROVE HoldersExclude
<1>. SUFFICES ASSUME NEW a \in Holders, NEW b \in Holders, a # b
              PROVE  <<a[2], b[2]>> \notin Conflicting
  BY DEF HoldersExclude
<1>1. /\ a \in Workers \X Keys /\ b \in Workers \X Keys
      /\ Holds(a[1], a[2]) /\ Holds(b[1], b[2])
  BY DEF Holders
<1>2. owner[a[2]] = a[1] /\ Active(a[2]) /\ owner[b[2]] = b[1] /\ Active(b[2])
  BY <1>1, ClaimConstants DEF HeldIsOwned, Active
<1>3. a[2] # b[2]
  BY <1>1, <1>2
<1>4. ~Excludes(a[2], b[2])
  BY <1>1, <1>2 DEF DestroyExclusive
<1>. QED BY <1>3, <1>4 DEF Conflicting

\* The lease table with its guards implements a lock on placements
\* (claimInTransaction, startLeaseGuard, withLease, reapExpired): every step is
\* an acquisition without a conflicting holder, a loss, or invisible.
THEOREM ClaimsImplementLock == Spec => ActsAsLock
<1>1. Init => Lock!Init
  BY DEF Init, Lock!Init, Holds
<1>2. ASSUME TypeOK, HoldersExclude', [Next]_vars
      PROVE  [Lock!Next]_Holders
  <2>1. CASE \A g \in Workers \X Keys : Holds(g[1], g[2])' => Holds(g[1], g[2])
    <3>1. Holders' \in SUBSET Holders
      BY <2>1 DEF Holders
    <3>. QED BY <3>1 DEF Lock!Next, Lock!Lose, Holders
  <2>2. ASSUME NEW a \in Workers \X Keys,
               \A g \in Workers \X Keys : g # a => (Holds(g[1], g[2])' <=> Holds(g[1], g[2]))
        PROVE  [Lock!Next]_Holders
    <3>1. CASE a \notin Holders' \/ a \in Holders
      <4>1. Holders' \in SUBSET Holders
        BY <2>2, <3>1 DEF Holders
      <4>. QED BY <4>1 DEF Lock!Next, Lock!Lose, Holders
    <3>2. CASE a \in Holders' /\ a \notin Holders
      <4>1. Holders' = Holders \cup {a}
        BY <2>2, <3>2 DEF Holders
      <4>2. \A g \in Holders : <<a[2], g[2]>> \notin Conflicting
        BY <1>2, <3>2, <4>1 DEF HoldersExclude, Conflicting
      <4>3. a = <<a[1], a[2]>> /\ a[1] \in Workers /\ a[2] \in Keys
        OBVIOUS
      <4>4. Lock!Acquire(a[1], a[2])
        BY <4>1, <4>2, <4>3 DEF Lock!Acquire, Holders, Conflicting
      <4>. QED BY <4>3, <4>4 DEF Lock!Next
    <3>. QED BY <3>1, <3>2
  <2>. QED BY <1>2, <2>1, <2>2, HoldsStep
<1>3. HeldIsOwned /\ DestroyExclusive => HoldersExclude
  BY OwnersExclude
<1>. QED BY <1>1, <1>2, <1>3, TypeCorrect, HeldPassOwnsItsClaim, DestroyIsExclusive, PTL
         DEF Spec, ActsAsLock, Lock!Spec, Holders

--------------------------------------------------------------------------------
(***************************************************************************)
(* How a claim ends                                                         *)
(***************************************************************************)

\* Inserts, recycling updates, late releases, reaps and crashes leave an unexpired
\* row to its worker: only release() at the end of that worker's own pass removes it.
THEOREM ClaimsEndWithTheirPass == Spec => ClaimChangesHands
<1>1. ASSUME TypeOK, [Next]_vars, NEW k \in Keys, Active(k), owner'[k] # owner[k]
      PROVE  /\ owner'[k] = NoWorker
             /\ guard[<<owner[k], k>>] # "idle"
             /\ guard'[<<owner[k], k>>] = "idle"
  <2>0. owner[k] # NoWorker /\ ttl[k] > 0
    BY <1>1 DEF Active
  <2>1. ASSUME NEW w \in Workers, NEW c \in Keys, NEW s \in ServerChoices(c),
               ClaimInsert(w, c, s) \/ ClaimRecycle(w, c, s)
        PROVE  FALSE
    <3>1. c # k
      BY <2>0, <2>1 DEF ClaimInsert, ClaimRecycle, Expired
    <3>2. owner' = [owner EXCEPT ![c] = w]
      BY <2>1 DEF ClaimInsert, ClaimRecycle, WriteRow
    <3>. QED BY <1>1, <3>1, <3>2 DEF TypeOK
  <2>2. ASSUME NEW w \in Workers, NEW c \in Keys,
               ClaimOwn(w, c) \/ Renew(w, c) \/ RenewError(w, c) \/ ReleaseError(w, c)
        PROVE  FALSE
    BY <1>1, <2>2 DEF ClaimOwn, Renew, RenewError, ReleaseError
  <2>3. ASSUME NEW w \in Workers, NEW c \in Keys, Release(w, c)
        PROVE  /\ owner'[k] = NoWorker
               /\ guard[<<owner[k], k>>] # "idle"
               /\ guard'[<<owner[k], k>>] = "idle"
    <3>1. DeletesRow(w, c) /\ owner' = [owner EXCEPT ![c] = NoWorker]
      BY <1>1, <2>3 DEF Release
    <3>2. c = k /\ owner[k] = w /\ owner'[k] = NoWorker
      BY <1>1, <3>1 DEF DeletesRow, TypeOK
    <3>3. StopGuard(w, k)
      BY <2>3, <3>2 DEF Release
    <3>4. <<w, k>> \in Workers \X Keys /\ guard \in [Workers \X Keys -> GuardStates]
      BY <1>1 DEF TypeOK
    <3>. QED BY <3>2, <3>3, <3>4 DEF StopGuard
  <2>4. CASE Reap
    BY <1>1, <2>0, <2>4 DEF Reap, Expired
  <2>5. CASE Tick \/ UNCHANGED vars \/ \E w \in Workers : Crash(w)
    BY <1>1, <2>5 DEF Tick, vars, Crash
  <2>. QED BY <1>1, <2>1, <2>2, <2>3, <2>4, <2>5 DEF Next, Step
<1>2. TypeOK /\ [Next]_vars =>
        [\A k \in Keys :
           Active(k) /\ owner'[k] # owner[k] =>
              /\ owner'[k] = NoWorker
              /\ guard[<<owner[k], k>>] # "idle"
              /\ guard'[<<owner[k], k>>] = "idle"]_vars
  BY <1>1
<1>. QED BY <1>2, TypeCorrect, PTL DEF Spec, ClaimChangesHands

--------------------------------------------------------------------------------
(***************************************************************************)
(* The queue: the inductive invariant                                       *)
(***************************************************************************)

Listing(q, i) == \E n \in 1..Len(q) : q[n] = i
NoRepeats(q) == \A m, n \in 1..Len(q) : q[m] = q[n] => m = n

\* No chain and no page holds an intent twice.
ChainsDistinct == \A r \in Resources : NoRepeats(chain[r])

\* What is left of the page is in no chain: a page is listed without the queued
\* ids, and an intent leaves the page as it enters its chain.
PageIsUnqueued ==
    /\ NoRepeats(items)
    /\ \A r \in Resources : \A i \in Intents : Listing(items, i) => ~Listing(chain[r], i)

\* A page is only asked for while the budget of the drain has one left.
BudgetLeft == at = "list" => pages < MaxPages

QInv == QueueTypeOK /\ LimitsHold /\ ChainsDistinct /\ PageIsUnqueued /\ BudgetLeft

--------------------------------------------------------------------------------
(***************************************************************************)
(* Chains and pages as sequences                                            *)
(***************************************************************************)

\* A chain without its head holds the rest of it, once each, and not the head.
LEMMA TailForgetsHead ==
    ASSUME NEW S, NEW q \in Seq(S), q # <<>>, NoRepeats(q)
    PROVE  /\ Head(q) \in S /\ Tail(q) \in Seq(S)
           /\ NoRepeats(Tail(q))
           /\ Listing(q, Head(q)) /\ ~Listing(Tail(q), Head(q))
           /\ \A i : Listing(Tail(q), i) => Listing(q, i)
<1>1. /\ Head(q) \in S /\ Tail(q) \in Seq(S) /\ Len(Tail(q)) = Len(q) - 1
      /\ \A n \in 1..Len(Tail(q)) : Tail(q)[n] = q[n + 1]
    BY HeadTailProperties
<1>2. Len(q) \in Nat \ {0} /\ Head(q) = q[1]
    BY EmptySeq, LenProperties
<1>3. \A n \in 1..Len(Tail(q)) : n + 1 \in 1..Len(q) /\ n + 1 # 1
    BY <1>1, <1>2
<1>4. NoRepeats(Tail(q))
    <2> SUFFICES ASSUME NEW m \in 1..Len(Tail(q)), NEW n \in 1..Len(Tail(q)),
                        Tail(q)[m] = Tail(q)[n]
                 PROVE  m = n
        BY DEF NoRepeats
    <2>1. m + 1 = n + 1
        BY <1>1, <1>3 DEF NoRepeats
    <2> QED
        BY <2>1
<1>5. Listing(q, Head(q))
    BY <1>2 DEF Listing
<1>6. ~Listing(Tail(q), Head(q))
    <2> SUFFICES ASSUME NEW n \in 1..Len(Tail(q)), Tail(q)[n] = Head(q)
                 PROVE  FALSE
        BY DEF Listing
    <2>1. 1 \in 1..Len(q)
        BY <1>2
    <2> QED
        BY <1>1, <1>2, <1>3, <2>1 DEF NoRepeats
<1>7. ASSUME NEW i, Listing(Tail(q), i)
      PROVE  Listing(q, i)
    BY <1>1, <1>3, <1>7 DEF Listing
<1> QED
    BY <1>1, <1>4, <1>5, <1>6, <1>7

\* A new intent at the end of a chain leaves it without repeats.
LEMMA AppendAddsOne ==
    ASSUME NEW S, NEW q \in Seq(S), NEW x \in S, NoRepeats(q), ~Listing(q, x)
    PROVE  /\ Append(q, x) \in Seq(S) /\ Append(q, x) # <<>>
           /\ NoRepeats(Append(q, x))
           /\ \A i : Listing(Append(q, x), i) => Listing(q, i) \/ i = x
<1> DEFINE a == Append(q, x)
<1>1. Len(q) \in Nat
    BY LenProperties
<1>2. /\ a \in Seq(S) /\ Len(a) = Len(q) + 1 /\ a[Len(q) + 1] = x
      /\ \A n \in 1..Len(q) : a[n] = q[n]
    BY <1>1
<1>3. a # <<>>
    BY <1>1, <1>2, EmptySeq
<1>4. \A n \in 1..Len(a) : n \in 1..Len(q) \/ n = Len(q) + 1
    BY <1>1, <1>2
<1>5. NoRepeats(a)
    BY <1>2, <1>4 DEF NoRepeats, Listing
<1>6. \A i : Listing(a, i) => Listing(q, i) \/ i = x
    BY <1>2, <1>4 DEF Listing
<1> QED
    BY <1>2, <1>3, <1>5, <1>6

\* A sequence without repeats has as many elements as entries.
LEMMA OnceEach ==
    ASSUME NEW S, NEW q \in Seq(S)
    PROVE  NoRepeats(q) <=> Cardinality({q[n] : n \in DOMAIN q}) = Len(q)
<1> DEFINE T == {q[n] : n \in DOMAIN q}
<1>1. Len(q) \in Nat /\ DOMAIN q = 1..Len(q) /\ q \in [1..Len(q) -> S]
    BY LenProperties
<1>2. q \in Surjection(1..Len(q), T)
    BY <1>1 DEF Surjection
<1>3. IsFiniteSet(1..Len(q)) /\ Cardinality(1..Len(q)) = Len(q)
    BY <1>1, FS_Interval
<1>4. Cardinality(T) = Cardinality(1..Len(q)) <=> q \in Injection(1..Len(q), T)
    BY <1>2, <1>3, FS_Surjection
<1>5. q \in Injection(1..Len(q), T) <=> NoRepeats(q)
    BY <1>1, <1>2 DEF Injection, IsInjective, Surjection, NoRepeats
<1> QED
    BY <1>3, <1>4, <1>5

\* A page listed while the chains are queued holds ready intents, once each, and
\* none that a chain holds.
LEMMA PageIsNew ==
    ASSUME QueueTypeOK, NEW page \in Page
    PROVE  /\ page \in Seq(Intents)
           /\ NoRepeats(page)
           /\ \A r \in Resources : \A i \in Intents : Listing(page, i) => ~Listing(chain[r], i)
<1> DEFINE size == IF Cardinality(Listed) < PageSize THEN Cardinality(Listed) ELSE PageSize
<1>1. Listed \subseteq Intents
    BY DEF Listed
<1>2. Cardinality(Listed) \in Nat
    BY <1>1, QueueConstants, FS_Subset, FS_CardinalityType
<1>3. size \in Nat
    BY <1>2, QueueConstants
<1>4. page \in [1..size -> Listed] /\ Cardinality({page[n] : n \in 1..size}) = size
    BY DEF Page
<1> HIDE DEF size
<1>5. page \in Seq(Intents) /\ Len(page) = size /\ DOMAIN page = 1..size
    BY <1>1, <1>3, <1>4
<1>6. NoRepeats(page)
    BY <1>4, <1>5, OnceEach
<1>7. ASSUME NEW r \in Resources, NEW i \in Intents, Listing(page, i), Listing(chain[r], i)
      PROVE  FALSE
    <2>1. chain[r] \in Seq(Intents)
        BY DEF QueueTypeOK
    <2>2. DOMAIN chain[r] = 1..Len(chain[r])
        BY <2>1, LenProperties
    <2>3. i \in Queued
        BY <1>7, <2>2 DEF Queued, Listing
    <2>4. i \in Listed
        BY <1>4, <1>5, <1>7 DEF Listing
    <2> QED
        BY <2>3, <2>4 DEF Listed
<1> QED
    BY <1>5, <1>6, <1>7

--------------------------------------------------------------------------------
(***************************************************************************)
(* The limits                                                               *)
(***************************************************************************)

BusyOn(s) == {r \in Busy : ServerOf[r] = s}

\* The busy resources, of all servers and of one, can be counted.
LEMMA BusyIsFinite ==
    /\ IsFiniteSet(Busy) /\ Cardinality(Busy) \in Nat
    /\ \A s : IsFiniteSet(BusyOn(s)) /\ Cardinality(BusyOn(s)) \in Nat
<1>1. Busy \subseteq Resources /\ \A s : BusyOn(s) \subseteq Resources
    BY DEF Busy, BusyOn
<1> QED
    BY <1>1, QueueConstants, FS_Subset, FS_CardinalityType

\* Where no resource turns busy, the limits hold on.
LEMMA NoneTurnsBusy ==
    ASSUME LimitsHold, Busy' \subseteq Busy
    PROVE  LimitsHold'
<1>1. Cardinality(Busy') <= Cardinality(Busy) /\ Cardinality(Busy') \in Nat
    BY BusyIsFinite, FS_Subset, FS_CardinalityType
<1>2. Cardinality(Busy') <= MaxChains
    BY <1>1, BusyIsFinite, QueueConstants DEF LimitsHold
<1>3. ASSUME NEW s \in Hosts
      PROVE  ServerLoad(s)' <= MaxPerServer
    <2> DEFINE T == {r \in Busy' : ServerOf[r] = s}
    <2>1. T \subseteq BusyOn(s)
        BY DEF BusyOn
    <2>2. Cardinality(T) <= Cardinality(BusyOn(s)) /\ Cardinality(T) \in Nat
        BY <2>1, BusyIsFinite, FS_Subset, FS_CardinalityType
    <2>3. Cardinality(BusyOn(s)) <= MaxPerServer
        BY DEF LimitsHold, ServerLoad, BusyOn
    <2>4. ServerLoad(s)' = Cardinality(T)
        BY DEF ServerLoad
    <2> QED
        BY <2>2, <2>3, <2>4, BusyIsFinite, QueueConstants
<1> QED
    BY <1>2, <1>3 DEF LimitsHold

\* An intent that is admitted turns its resource busy within the limits.
LEMMA AdmittedWithinLimits ==
    ASSUME LimitsHold, NEW i \in Intents, Admits(i), Busy' = Busy \cup {ResourceOf[i]}
    PROVE  LimitsHold'
<1> DEFINE r == ResourceOf[i]
<1>0. r \in Resources /\ ServerOf[r] \in Hosts
    BY QueueConstants
<1>1. CASE r \in Busy
    BY <1>1, NoneTurnsBusy
<1>2. CASE r \notin Busy
    <2>1. Cardinality(Busy) < MaxChains /\ ServerLoad(ServerOf[r]) < MaxPerServer
        BY <1>2 DEF Admits
    <2>2. Cardinality(Busy') = Cardinality(Busy) + 1
        BY <1>2, BusyIsFinite, FS_AddElement
    <2>3. Cardinality(Busy') <= MaxChains
        BY <2>1, <2>2, BusyIsFinite, QueueConstants
    <2>4. ASSUME NEW s \in Hosts
          PROVE  ServerLoad(s)' <= MaxPerServer
        <3> DEFINE T == {x \in Busy' : ServerOf[x] = s}
        <3>1. ServerLoad(s)' = Cardinality(T) /\ ServerLoad(s) = Cardinality(BusyOn(s))
            BY DEF ServerLoad, BusyOn
        <3>2. CASE s = ServerOf[r]
            <4>1. T = BusyOn(s) \cup {r}
                BY <3>2 DEF BusyOn
            <4>2. Cardinality(T) = Cardinality(BusyOn(s)) + 1
                <5>1. r \notin BusyOn(s)
                    BY <1>2 DEF BusyOn
                <5> QED
                    BY <4>1, <5>1, BusyIsFinite, FS_AddElement
            <4> QED
                BY <2>1, <3>1, <3>2, <4>2, BusyIsFinite, QueueConstants
        <3>3. CASE s # ServerOf[r]
            <4>1. T = BusyOn(s)
                BY <3>3 DEF BusyOn
            <4> QED
                BY <3>1, <4>1 DEF LimitsHold
        <3> QED
            BY <3>2, <3>3
    <2> QED
        BY <2>3, <2>4 DEF LimitsHold
<1> QED
    BY <1>1, <1>2

--------------------------------------------------------------------------------
(***************************************************************************)
(* The steps                                                                *)
(***************************************************************************)

\* A step that leaves the chains alone and the page as it is or empty.
LEMMA QuietStep ==
    ASSUME QInv, UNCHANGED chain, items' = items \/ items' = <<>>, QueueTypeOK', BudgetLeft'
    PROVE  QInv'
<1>1. LimitsHold'
    <2>1. Busy' \subseteq Busy
        BY DEF Busy
    <2> QED
        BY <2>1, NoneTurnsBusy DEF QInv
<1>2. ChainsDistinct'
    BY DEF QInv, ChainsDistinct
<1>3. PageIsUnqueued'
    <2>1. CASE items' = items
        BY <2>1 DEF QInv, PageIsUnqueued
    <2>2. CASE items' = <<>>
        <3>1. Len(items') = 0
            BY <2>2, EmptySeq
        <3>2. \A n : n \notin 1..Len(items')
            BY <3>1
        <3> QED
            BY <3>2 DEF PageIsUnqueued, NoRepeats, Listing
    <2> QED
        BY <2>1, <2>2
<1> QED
    BY <1>1, <1>2, <1>3 DEF QInv

\* A chain ends its first intent, one way or another, and goes on with the next.
LEMMA ChainStepKeeps ==
    ASSUME QInv, NEW r \in Resources, NEW outcome \in {"done", "later", "ready"},
           ChainStep(r, outcome)
    PROVE  QInv'
<1> DEFINE h == Head(chain[r])
<1>0. QueueTypeOK /\ LimitsHold /\ ChainsDistinct /\ PageIsUnqueued /\ BudgetLeft
    BY DEF QInv
<1>1. chain[r] \in Seq(Intents) /\ chain[r] # <<>> /\ NoRepeats(chain[r])
    BY <1>0 DEF QueueTypeOK, ChainStep, Busy, ChainsDistinct
<1>2. /\ h \in Intents /\ Tail(chain[r]) \in Seq(Intents) /\ NoRepeats(Tail(chain[r]))
      /\ \A i : Listing(Tail(chain[r]), i) => Listing(chain[r], i)
    BY <1>1, TailForgetsHead
<1> HIDE DEF h
<1>3. /\ chain' = [chain EXCEPT ![r] = Tail(chain[r])]
      /\ intent' = [intent EXCEPT ![h] = outcome]
    BY DEF ChainStep, h
<1>4. /\ chain' \in [Resources -> Seq(Intents)]
      /\ \A x \in Resources : chain'[x] = IF x = r THEN Tail(chain[r]) ELSE chain[x]
    BY <1>0, <1>2, <1>3 DEF QueueTypeOK
<1>5. /\ at' \in {at, "drain", "check"}
      /\ rerun' \in BOOLEAN
      /\ UNCHANGED <<again, attempted, seen, items, fullPage, pages, timers,
                     scan, rescan, stopping, failures>>
    BY <1>0 DEF ChainStep, Signal, QueueTypeOK
<1>6. QueueTypeOK'
    <2>1. intent' \in [Intents -> {"absent", "ready", "later", "done"}]
        BY <1>0, <1>2, <1>3 DEF QueueTypeOK
    <2> QED
        BY <1>0, <1>4, <1>5, <2>1 DEF QueueTypeOK, timers, Points
<1>7. LimitsHold'
    <2>1. Busy' \subseteq Busy
        BY <1>1, <1>4 DEF Busy
    <2> QED
        BY <1>0, <2>1, NoneTurnsBusy
<1>8. ChainsDistinct'
    BY <1>0, <1>2, <1>4 DEF ChainsDistinct
<1>9. PageIsUnqueued'
    BY <1>0, <1>2, <1>4, <1>5 DEF PageIsUnqueued
<1>10. BudgetLeft'
    BY <1>0, <1>5 DEF BudgetLeft
<1> QED
    BY <1>6, <1>7, <1>8, <1>9, <1>10 DEF QInv

\* A page lists intents that are neither attempted nor queued.
LEMMA ListKeeps ==
    ASSUME QInv, List
    PROVE  QInv'
<1>0. QueueTypeOK /\ LimitsHold /\ ChainsDistinct /\ PageIsUnqueued /\ BudgetLeft
    BY DEF QInv
<1>1. PICK page \in Page : items' = page /\ fullPage' = (Len(page) = PageSize)
    BY DEF List
<1>2. /\ page \in Seq(Intents) /\ NoRepeats(page)
      /\ \A r \in Resources : \A i \in Intents : Listing(page, i) => ~Listing(chain[r], i)
    BY <1>0, PageIsNew
<1>3. /\ at' = "drain" /\ pages' = pages + 1
      /\ UNCHANGED <<intent, chain, rerun, again, attempted, seen, timers,
                     scan, rescan, stopping, failures>>
    BY DEF List
<1>4. pages' \in 0..MaxPages
    <2>1. pages < MaxPages
        BY <1>0 DEF List, BudgetLeft
    <2> QED
        BY <1>0, <1>3, <2>1, QueueConstants DEF QueueTypeOK
<1>5. QueueTypeOK'
    BY <1>0, <1>1, <1>2, <1>3, <1>4 DEF QueueTypeOK, timers, Points
<1>6. LimitsHold'
    BY <1>0, <1>3, NoneTurnsBusy DEF Busy
<1>7. ChainsDistinct' /\ PageIsUnqueued' /\ BudgetLeft'
    BY <1>0, <1>1, <1>2, <1>3 DEF ChainsDistinct, PageIsUnqueued, BudgetLeft
<1> QED
    BY <1>5, <1>6, <1>7 DEF QInv

\* An intent of the page goes to its chain, or is left where no place is free.
LEMMA DrainKeeps ==
    ASSUME QInv, Drain
    PROVE  QInv'
<1> DEFINE i == Head(items)
           q == ResourceOf[i]
<1>0. QueueTypeOK /\ LimitsHold /\ ChainsDistinct /\ PageIsUnqueued /\ BudgetLeft
    BY DEF QInv
<1>1. items \in Seq(Intents) /\ items # <<>> /\ NoRepeats(items)
    BY <1>0 DEF QueueTypeOK, Drain, PageIsUnqueued
<1>2. /\ i \in Intents /\ Tail(items) \in Seq(Intents) /\ NoRepeats(Tail(items))
      /\ Listing(items, i) /\ ~Listing(Tail(items), i)
      /\ \A x : Listing(Tail(items), x) => Listing(items, x)
    BY <1>1, TailForgetsHead
<1>3. q \in Resources
    BY <1>2, QueueConstants
<1>4. /\ at = "drain" /\ seen' = seen \cup {i}
      /\ UNCHANGED <<intent, rerun, again, fullPage, pages, timers, scan, rescan, stopping, failures>>
    BY DEF Drain
<1>5. CASE Full /\ ~Admits(i)
    <2>1. at' = "full" /\ UNCHANGED <<items, attempted, chain>>
        BY <1>5 DEF Drain
    <2>2. QueueTypeOK' /\ BudgetLeft'
        BY <1>0, <1>2, <1>4, <2>1 DEF QueueTypeOK, timers, Points, BudgetLeft
    <2> QED
        BY <2>1, <2>2, QuietStep
<1>6. CASE ~(Full /\ ~Admits(i)) /\ ~Admits(i)
    <2>1. items' = Tail(items) /\ UNCHANGED <<at, attempted, chain>>
        BY <1>6 DEF Drain
    <2>2. QueueTypeOK' /\ BudgetLeft'
        BY <1>0, <1>2, <1>4, <2>1 DEF QueueTypeOK, timers, BudgetLeft
    <2>3. LimitsHold'
        BY <1>0, <2>1, NoneTurnsBusy DEF Busy
    <2>4. ChainsDistinct' /\ PageIsUnqueued'
        BY <1>0, <1>2, <2>1 DEF ChainsDistinct, PageIsUnqueued
    <2> QED
        BY <2>2, <2>3, <2>4 DEF QInv
<1>7. CASE Admits(i)
    <2>1. /\ items' = Tail(items) /\ UNCHANGED at
          /\ attempted' = attempted \cup {i}
          /\ chain' = [chain EXCEPT ![q] = Append(chain[q], i)]
        BY <1>7 DEF Drain
    <2>2. chain[q] \in Seq(Intents) /\ NoRepeats(chain[q]) /\ ~Listing(chain[q], i)
        BY <1>0, <1>2, <1>3 DEF QueueTypeOK, ChainsDistinct, PageIsUnqueued
    <2>3. /\ Append(chain[q], i) \in Seq(Intents) /\ Append(chain[q], i) # <<>>
          /\ NoRepeats(Append(chain[q], i))
          /\ \A x : Listing(Append(chain[q], i), x) => Listing(chain[q], x) \/ x = i
        BY <1>2, <2>2, AppendAddsOne
    <2> HIDE DEF i, q
    <2>4. /\ chain' \in [Resources -> Seq(Intents)]
          /\ \A r \in Resources : chain'[r] = IF r = q THEN Append(chain[q], i) ELSE chain[r]
        BY <1>0, <1>3, <2>1, <2>3 DEF QueueTypeOK
    <2>5. QueueTypeOK' /\ BudgetLeft'
        BY <1>0, <1>2, <1>4, <2>1, <2>4 DEF QueueTypeOK, timers, BudgetLeft
    <2>6. LimitsHold'
        <3>1. Busy' = Busy \cup {ResourceOf[i]}
            BY <1>3, <2>3, <2>4 DEF Busy, q
        <3> QED
            BY <1>0, <1>2, <1>7, <3>1, AdmittedWithinLimits
    <2>7. ChainsDistinct'
        BY <1>0, <2>3, <2>4 DEF ChainsDistinct
    <2>8. PageIsUnqueued'
        <3>1. ASSUME NEW r \in Resources, NEW x \in Intents, Listing(Tail(items), x)
              PROVE  ~Listing(chain'[r], x)
            <4>1. ~Listing(chain[r], x) /\ ~Listing(chain[q], x) /\ x # i
                BY <1>0, <1>2, <1>3, <3>1 DEF PageIsUnqueued
            <4> QED
                BY <2>3, <2>4, <4>1
        <3> QED
            BY <1>2, <2>1, <3>1 DEF PageIsUnqueued
    <2> QED
        BY <2>5, <2>6, <2>7, <2>8 DEF QInv
<1> QED
    BY <1>5, <1>6, <1>7

\* RunOnce only moves the loop to a point of it, and never to a page.
LEMMA RunOnceMoves ==
    ASSUME QueueTypeOK, RunOnce
    PROVE  /\ at' \in Points /\ (at' = "list" => at = "list")
           /\ rerun' \in BOOLEAN /\ again' \in BOOLEAN /\ attempted' \subseteq Intents
<1>1. CASE at = "none"
    BY <1>1 DEF RunOnce, QueueTypeOK, Points
<1>2. CASE at # "none"
    <2>1. at' = Signal(at) /\ rerun' = TRUE /\ again' = TRUE /\ attempted' = attempted
        BY <1>2 DEF RunOnce
    <2> QED
        BY <2>1 DEF QueueTypeOK, Points, Signal
<1> QED
    BY <1>1, <1>2

\* New and due intents, wakes, timers, scans and the signal to stop.
LEMMA TimersKeep ==
    ASSUME QInv,
           \/ \E i \in Intents : Create(i) \/ Due(i)
           \/ WakeFires \/ RetryFires \/ ScanTick \/ RequestScan \/ ScanBody \/ Stop
    PROVE  QInv'
<1>0. QueueTypeOK /\ BudgetLeft
    BY DEF QInv
<1>1. ASSUME NEW i \in Intents, Create(i) \/ Due(i)
      PROVE  QInv'
    <2>1. UNCHANGED chain /\ UNCHANGED items
        BY <1>1 DEF Create, Due, loop
    <2>2. QueueTypeOK' /\ BudgetLeft'
        <3>1. CASE Create(i)
            BY <1>0, <3>1 DEF Create, QueueTypeOK, loop, BudgetLeft
        <3>2. CASE Due(i)
            BY <1>0, <3>2 DEF Due, QueueTypeOK, loop, timers, BudgetLeft
        <3> QED
            BY <1>1, <3>1, <3>2
    <2> QED
        BY <2>1, <2>2, QuietStep
<1>2. ASSUME WakeFires
      PROVE  QInv'
    <2>1. UNCHANGED chain /\ UNCHANGED items
        BY <1>2 DEF WakeFires
    <2>2. QueueTypeOK' /\ BudgetLeft'
        BY <1>0, <1>2, RunOnceMoves DEF WakeFires, QueueTypeOK, BudgetLeft
    <2> QED
        BY <2>1, <2>2, QuietStep
<1>3. ASSUME RetryFires
      PROVE  QInv'
    <2>1. UNCHANGED chain /\ UNCHANGED items
        BY <1>3 DEF RetryFires
    <2>2. CASE stopping
        <3>1. QueueTypeOK' /\ BudgetLeft'
            BY <1>0, <1>3, <2>2 DEF RetryFires, QueueTypeOK, BudgetLeft
        <3> QED
            BY <2>1, <3>1, QuietStep
    <2>3. CASE ~stopping
        <3>1. RunOnce
            BY <1>3, <2>3 DEF RetryFires
        <3>2. QueueTypeOK' /\ BudgetLeft'
            BY <1>0, <1>3, <3>1, RunOnceMoves DEF RetryFires, QueueTypeOK, BudgetLeft
        <3> QED
            BY <2>1, <3>2, QuietStep
    <2> QED
        BY <2>2, <2>3
<1>4. ASSUME ScanTick
      PROVE  QInv'
    <2>1. UNCHANGED chain /\ UNCHANGED items
        BY <1>4 DEF ScanTick
    <2>2. QueueTypeOK' /\ BudgetLeft'
        BY <1>0, <1>4, RunOnceMoves DEF ScanTick, QueueTypeOK, BudgetLeft, ScanPoints, timers
    <2> QED
        BY <2>1, <2>2, QuietStep
<1>5. ASSUME RequestScan
      PROVE  QInv'
    <2>1. UNCHANGED chain /\ UNCHANGED items
        BY <1>5 DEF RequestScan, loop
    <2>2. QueueTypeOK' /\ BudgetLeft'
        BY <1>0, <1>5 DEF RequestScan, QueueTypeOK, BudgetLeft, loop, timers
    <2> QED
        BY <2>1, <2>2, QuietStep
<1>6. ASSUME ScanBody
      PROVE  QInv'
    <2>1. UNCHANGED chain /\ UNCHANGED items
        BY <1>6 DEF ScanBody
    <2>2. CASE stopping
        <3>1. QueueTypeOK' /\ BudgetLeft'
            BY <1>0, <1>6, <2>2 DEF ScanBody, QueueTypeOK, BudgetLeft, ScanPoints, timers
        <3> QED
            BY <2>1, <3>1, QuietStep
    <2>3. CASE ~stopping
        <3>1. RunOnce /\ scan' = "second"
            BY <1>6, <2>3 DEF ScanBody
        <3>2. QueueTypeOK' /\ BudgetLeft'
            BY <1>0, <1>6, <3>1, RunOnceMoves DEF ScanBody, QueueTypeOK, BudgetLeft, ScanPoints, timers
        <3> QED
            BY <2>1, <3>2, QuietStep
    <2> QED
        BY <2>2, <2>3
<1>7. ASSUME Stop
      PROVE  QInv'
    <2>1. UNCHANGED chain /\ UNCHANGED items
        BY <1>7 DEF Stop
    <2>2. QueueTypeOK' /\ BudgetLeft'
        BY <1>0, <1>7 DEF Stop, QueueTypeOK, BudgetLeft, Signal, Points
    <2> QED
        BY <2>1, <2>2, QuietStep
<1> QED
    BY <1>1, <1>2, <1>3, <1>4, <1>5, <1>6, <1>7

\* The rounds of executeRunOnce, which give every page its part of the budget.
LEMMA RoundKeeps ==
    ASSUME QInv, Top \/ PageDone \/ Arm \/ Check \/ PassFails \/ Finish
    PROVE  QInv'
<1>0. QueueTypeOK /\ BudgetLeft
    BY DEF QInv
<1>1. ASSUME Top
      PROVE  QInv'
    <2>1. UNCHANGED chain /\ items' = <<>>
        BY <1>1 DEF Top
    <2>2. QueueTypeOK' /\ BudgetLeft'
        <3>1. at' \in Points /\ rerun' = FALSE /\ again' = FALSE /\ attempted' \subseteq Intents
            BY <1>0, <1>1 DEF Top, QueueTypeOK, Points
        <3>2. items' \in Seq(Intents)
            BY <2>1, EmptySeq
        <3>3. pages' \in 0..MaxPages /\ pages' < MaxPages /\ seen' \subseteq Intents
            BY <1>1, QueueConstants DEF Top
        <3>4. UNCHANGED <<intent, chain, fullPage, timers, scan, rescan, stopping, failures>>
            BY <1>1 DEF Top
        <3> QED
            BY <1>0, <3>1, <3>2, <3>3, <3>4 DEF QueueTypeOK, BudgetLeft, timers
    <2> QED
        BY <2>1, <2>2, QuietStep
<1>2. ASSUME PageDone
      PROVE  QInv'
    <2>1. UNCHANGED chain /\ UNCHANGED items
        BY <1>2 DEF PageDone
    <2>2. QueueTypeOK' /\ BudgetLeft'
        BY <1>0, <1>2 DEF PageDone, MorePages, QueueTypeOK, BudgetLeft, Points, timers
    <2> QED
        BY <2>1, <2>2, QuietStep
<1>3. ASSUME Arm
      PROVE  QInv'
    <2>1. UNCHANGED chain /\ UNCHANGED items
        BY <1>3 DEF Arm
    <2>2. QueueTypeOK' /\ BudgetLeft'
        BY <1>0, <1>3 DEF Arm, QueueTypeOK, BudgetLeft, Points
    <2> QED
        BY <2>1, <2>2, QuietStep
<1>4. ASSUME Check
      PROVE  QInv'
    <2>1. UNCHANGED chain /\ UNCHANGED items
        BY <1>4 DEF Check
    <2>2. QueueTypeOK' /\ BudgetLeft'
        BY <1>0, <1>4 DEF Check, QueueTypeOK, BudgetLeft, Points, timers
    <2> QED
        BY <2>1, <2>2, QuietStep
<1>5. ASSUME PassFails
      PROVE  QInv'
    <2>1. UNCHANGED chain /\ UNCHANGED items
        BY <1>5 DEF PassFails
    <2>2. QueueTypeOK' /\ BudgetLeft'
        BY <1>0, <1>5, QueueConstants DEF PassFails, QueueTypeOK, BudgetLeft, Points, timers
    <2> QED
        BY <2>1, <2>2, QuietStep
<1>6. ASSUME Finish
      PROVE  QInv'
    <2>1. UNCHANGED chain /\ UNCHANGED items
        BY <1>6 DEF Finish
    <2>2. at' \in {"top", "none"} /\ rerun' \in BOOLEAN /\ rescan' \in BOOLEAN /\ attempted' = {}
        BY <1>0, <1>6 DEF Finish, ScanEnds, QueueTypeOK
    <2>3. scan' \in ScanPoints
        BY <1>0, <1>6 DEF Finish, ScanEnds, ScanPoints, QueueTypeOK
    <2>4. QueueTypeOK' /\ BudgetLeft'
        BY <1>0, <1>6, <2>2, <2>3 DEF Finish, QueueTypeOK, BudgetLeft, Points, timers
    <2> QED
        BY <2>1, <2>4, QuietStep
<1> QED
    BY <1>1, <1>2, <1>3, <1>4, <1>5, <1>6

--------------------------------------------------------------------------------
(***************************************************************************)
(* The theorems                                                             *)
(***************************************************************************)

\* Nothing is queued at first.
LEMMA QInvInitially ==
    QueueInit => QInv
<1> SUFFICES ASSUME QueueInit
             PROVE  QInv
    OBVIOUS
<1>1. /\ \A r \in Resources : chain[r] = <<>>
      /\ items = <<>> /\ Len(<<>>) = 0
    BY EmptySeq DEF QueueInit
<1>2. QueueTypeOK
    <2>1. /\ <<>> \in Seq(Intents)
          /\ chain \in [Resources -> Seq(Intents)]
        BY EmptySeq DEF QueueInit
    <2>2. 0 \in 0..MaxPages /\ 0 \in 0..MaxFailures
        BY QueueConstants
    <2>3. intent \in [Intents -> {"absent", "ready", "later", "done"}]
        BY DEF QueueInit
    <2> QED
        BY <2>1, <2>2, <2>3 DEF QueueInit, QueueTypeOK, Points, ScanPoints
<1>3. LimitsHold
    <2>1. Busy = {} /\ \A s : BusyOn(s) = {}
        BY <1>1 DEF Busy, BusyOn
    <2>2. Cardinality(Busy) = 0 /\ \A s : ServerLoad(s) = 0
        BY <2>1, FS_EmptySet DEF ServerLoad, BusyOn
    <2> QED
        BY <2>2, QueueConstants DEF LimitsHold
<1>4. ChainsDistinct /\ PageIsUnqueued /\ BudgetLeft
    <2>1. \A n : n \notin 1..0
        OBVIOUS
    <2> QED
        BY <1>1, <2>1 DEF ChainsDistinct, PageIsUnqueued, NoRepeats, Listing, BudgetLeft, QueueInit
<1> QED
    BY <1>2, <1>3, <1>4 DEF QInv

\* Every step keeps the invariant.
LEMMA QInvKept ==
    QInv /\ [QueueNext]_queueVars => QInv'
<1> SUFFICES ASSUME QInv, [QueueNext]_queueVars
             PROVE  QInv'
    OBVIOUS
<1>1. CASE LoopStep
    BY <1>1, ListKeeps, DrainKeeps, RoundKeeps, TimersKeep DEF LoopStep
<1>2. CASE PassFails
    BY <1>2, RoundKeeps
<1>3. CASE \E r \in Resources, outcome \in {"done", "later", "ready"} : ChainStep(r, outcome)
    BY <1>3, ChainStepKeeps
<1>4. CASE \E i \in Intents : Create(i) \/ Due(i)
    BY <1>4, TimersKeep
<1>5. CASE WakeFires \/ RetryFires \/ ScanTick \/ RequestScan \/ Stop
    BY <1>5, TimersKeep
<1>6. CASE UNCHANGED queueVars
    <2>1. UNCHANGED chain /\ UNCHANGED items
        BY <1>6 DEF queueVars, loop
    <2>2. QueueTypeOK' /\ BudgetLeft'
        BY <1>6 DEF queueVars, loop, timers, QueueTypeOK, BudgetLeft, QInv
    <2> QED
        BY <2>1, <2>2, QuietStep
<1> QED
    BY <1>1, <1>2, <1>3, <1>4, <1>5, <1>6 DEF QueueNext

\* The invariant of the queue loop (executeRunOnce and its chains) holds in every
\* reachable state: types, limits, no repeats, pages free of queued intents, and
\* a page budget that is never overdrawn.
THEOREM QueueInductive == QueueSpec => []QInv
    BY QInvInitially, QInvKept, PTL DEF QueueSpec

\* Whatever the number of intents, pages, wakes, retries and failed passes, the
\* process works on no more resources, overall or per server, than its limits
\* allow, and no chain ever holds an intent twice.
THEOREM LimitsAndChains == QueueSpec => []ChainsInOrder
<1>1. QInv => ChainsInOrder
    <2> SUFFICES ASSUME QInv
                 PROVE  QueuedOnce
        BY DEF QInv, ChainsInOrder
    <2>1. \A r \in Resources : chain[r] \in Seq(Intents) /\ NoRepeats(chain[r])
        BY DEF QInv, QueueTypeOK, ChainsDistinct
    <2> QED
        BY <2>1, OnceEach DEF QueuedOnce
<1> QED
    BY <1>1, QueueInductive, PTL

================================================================================
