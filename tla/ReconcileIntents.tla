---------------------------- MODULE ReconcileIntents ----------------------------
(***************************************************************************)
(* The intents of one resource (a container row, as the worker sees it), and  *)
(* the passes of the reconcile worker over them: list, parked check, claim,   *)
(* reconcile, mark the row, settle the intents, release.  Every one of these  *)
(* is a transaction of its own, so a change of the desired state, another      *)
(* process or a crash can fall between any two of them.                        *)
(*                                                                             *)
(* The desired configuration is named by the row's revision and the instance    *)
(* by the revision whose configuration it has; the claim is the one-owner       *)
(* lock ReconcileClaims implements, which a stalled process may lose unaware.   *)
(***************************************************************************)
EXTENDS Naturals, FiniteSets

CONSTANTS
    Workers,        \* backend processes
    Nobody,         \* no claim
    MaxIntents,     \* bound on the intents ever created
    MaxRevision,    \* bound on the desired-state changes
    BusyLimit,      \* BUSY_STRIKE_LIMIT
    MaxFaults,      \* bound on retry, busy, unreachable and failed results
    MaxCrashes,     \* bound on crashes and stalls, reached by a crash
    MaxStalls       \* bound on crashes and stalls, reached by a stall (a lease lost unknowingly)

ASSUME IntentConstants ==
    /\ Nobody \notin Workers
    /\ MaxIntents \in Nat \ {0} /\ MaxRevision \in Nat \ {0} /\ BusyLimit \in Nat \ {0}
    /\ MaxFaults \in Nat /\ MaxCrashes \in Nat /\ MaxStalls \in Nat

Ids == 1..MaxIntents
Revisions == 1..MaxRevision

VARIABLES
    row,        \* revision, observed_revision, needs_attention, failure_code
    instance,   \* revision the instance's configuration has, 0 when it drifted
    verified,   \* revisions some pass verified on the instance
    intent,     \* the intents table, by id in creation order
    claim,      \* worker that holds the claim of the resource
    lost,       \* lease guards that know their lease is lost
    pass,       \* the pass each process is in
    faults, crashes, stalls

vars == <<row, instance, verified, intent, claim, lost, pass, faults, crashes, stalls>>

Statuses == {"none", "pending", "succeeded", "failed", "pruned"}
Results == {"none", "stale", "success", "retry", "unreachable", "busy", "failed", "park"}
Steps == {"idle", "listed", "checked", "claimed", "loaded", "applied", "verified",
          "decided", "marked"}

NoIntent ==
    [status |-> "none", target |-> 1, despite |-> FALSE, scan |-> FALSE,
     waiting |-> FALSE, busy |-> 0]
Idle == [at |-> "idle", id |-> 1, revision |-> 1, result |-> "none"]

TypeOK ==
    /\ row \in [revision : Revisions, observed : 0..MaxRevision,
                attention : BOOLEAN, failure : BOOLEAN]
    /\ instance \in 0..MaxRevision
    /\ verified \subseteq Revisions
    /\ intent \in [Ids -> [status : Statuses, target : Revisions, despite : BOOLEAN,
                           scan : BOOLEAN, waiting : BOOLEAN, busy : 0..BusyLimit]]
    /\ claim \in Workers \cup {Nobody}
    /\ lost \in SUBSET Workers
    /\ pass \in [Workers -> [at : Steps, id : Ids, revision : Revisions, result : Results]]
    /\ faults \in 0..MaxFaults /\ crashes \in 0..MaxCrashes /\ stalls \in 0..MaxStalls

\* A container was just created: revision 1, nothing observed, its create
\* intent pending.
Init ==
    /\ row = [revision |-> 1, observed |-> 0, attention |-> FALSE, failure |-> FALSE]
    /\ instance = 0
    /\ verified = {}
    /\ intent = [i \in Ids |-> IF i = 1 THEN [NoIntent EXCEPT !.status = "pending"] ELSE NoIntent]
    /\ claim = Nobody
    /\ lost = {}
    /\ pass = [w \in Workers |-> Idle]
    /\ faults = 0 /\ crashes = 0 /\ stalls = 0

--------------------------------------------------------------------------------
(***************************************************************************)
(* The intents table                                                        *)
(***************************************************************************)

Pending(i) == intent[i].status = "pending"

\* The next free id; ids are in creation order.
IsFresh(i) == intent[i].status = "none" /\ \A j \in Ids : j < i => intent[j].status # "none"

\* createPending
Created(i, revision, despite, scan) ==
    [intent EXCEPT ![i] = [NoIntent EXCEPT !.status = "pending", !.target = revision,
                                           !.despite = despite, !.scan = scan]]

\* Mutants: the sweep ignores the revision an intent asks for, leaves out the
\* revision itself, or takes settled intents too.
SweptAllMutant(i, revision) == Pending(i)
SweptOlderMutant(i, revision) == Pending(i) /\ intent[i].target < revision
\* What settleForObservedRevision settles: pending intents up to the revision.
Swept(i, revision) == Pending(i) /\ intent[i].target <= revision

Settled(revision, status) ==
    [i \in Ids |-> IF Swept(i, revision)
                   THEN [intent[i] EXCEPT !.status = status, !.waiting = FALSE]
                   ELSE intent[i]]

\* updateDesired and its intent, in one transaction.  A change releases a parked
\* resource, except an enforcement re-drive, which keeps it parked and runs
\* anyway; a power action also clears the failure shown.
Change(i, despite, keep, clear) ==
    /\ IsFresh(i) /\ row.revision < MaxRevision
    /\ keep => despite
    /\ row' = [row EXCEPT !.revision = @ + 1,
                          !.attention = keep /\ @,
                          !.failure = ~clear /\ @]
    /\ intent' = Created(i, row.revision + 1, despite, FALSE)
    /\ UNCHANGED <<instance, verified, claim, lost, pass, faults, crashes, stalls>>

\* enqueueScanIntent: drift found by the full scan, unless the resource is
\* parked or a scan intent for this revision is pending.  (A failed one is
\* reused for a back-off; the scan after it may come at any time.)
Scan(i) ==
    /\ IsFresh(i)
    /\ ~row.attention
    /\ instance # row.revision
    /\ ~\E j \in Ids : Pending(j) /\ intent[j].scan /\ intent[j].target = row.revision
    /\ intent' = Created(i, row.revision, FALSE, TRUE)
    /\ UNCHANGED <<row, instance, verified, claim, lost, pass, faults, crashes, stalls>>

\* currentRevision ?? source.target_revision
RetryTarget(i) == row.revision

\* retry: a fresh copy of a failed intent, and the parked resource released.
Retry(i, source) ==
    /\ IsFresh(i)
    /\ intent[source].status = "failed"
    /\ row' = [row EXCEPT !.attention = FALSE, !.failure = FALSE]
    /\ intent' = Created(i, RetryTarget(source), TRUE, FALSE)
    /\ UNCHANGED <<instance, verified, claim, lost, pass, faults, crashes, stalls>>

\* Mutant: retention forgets to keep the newest intent of a resource.
PrunableMutant(i) == TRUE

\* The EXISTS newer of pruneSettled.
Prunable(i) == \E j \in Ids : j > i /\ intent[j].status \notin {"none", "pruned"}

\* pruneSettled
Prune(i) ==
    /\ intent[i].status \in {"succeeded", "failed"}
    /\ Prunable(i)
    /\ intent' = [intent EXCEPT ![i].status = "pruned"]
    /\ UNCHANGED <<row, instance, verified, claim, lost, pass, faults, crashes, stalls>>

\* next_attempt_at passes.
RetryDue(i) ==
    /\ intent[i].waiting
    /\ intent' = [intent EXCEPT ![i].waiting = FALSE]
    /\ UNCHANGED <<row, instance, verified, claim, lost, pass, faults, crashes, stalls>>

\* The instance is changed behind the backend's back.
Drift ==
    /\ instance # 0 /\ faults < MaxFaults
    /\ instance' = 0
    /\ faults' = faults + 1
    /\ UNCHANGED <<row, verified, intent, claim, lost, pass, crashes, stalls>>

--------------------------------------------------------------------------------
(***************************************************************************)
(* One pass: processIntent                                                  *)
(***************************************************************************)

Goto(w, step) == pass' = [pass EXCEPT ![w].at = step]
EndPass(w) ==
    /\ pass' = [pass EXCEPT ![w] = Idle]
    /\ claim' = IF claim = w THEN Nobody ELSE claim
    /\ lost' = lost \ {w}

\* The worker lists a ready intent and appends it to the resource's chain.
List(w, i) ==
    /\ pass[w].at = "idle"
    /\ Pending(i) /\ ~intent[i].waiting
    /\ pass' = [pass EXCEPT ![w] = [Idle EXCEPT !.at = "listed", !.id = i]]
    /\ UNCHANGED <<row, instance, verified, intent, claim, lost, faults, crashes, stalls>>

\* A parked resource is left alone unless the intent runs despite it.
CheckParked(w) ==
    /\ pass[w].at = "listed"
    /\ IF row.attention /\ ~intent[pass[w].id].despite
       THEN pass' = [pass EXCEPT ![w] = Idle]
       ELSE Goto(w, "checked")
    /\ UNCHANGED <<row, instance, verified, intent, claim, lost, faults, crashes, stalls>>

ClaimFree == claim = Nobody

\* claims.claim: null when another process holds it, and the intent stays pending.
Claim(w) ==
    /\ pass[w].at = "checked"
    /\ IF ClaimFree
       THEN claim' = w /\ Goto(w, "claimed")
       ELSE pass' = [pass EXCEPT ![w] = Idle] /\ UNCHANGED claim
    /\ UNCHANGED <<row, instance, verified, intent, lost, faults, crashes, stalls>>

\* load: an intent of an older revision than the row's is stale.
Superseded(i) == intent[i].target < row.revision

\* The reconciler loads the row; the revision it read stays with the pass.
Load(w) ==
    /\ pass[w].at = "claimed"
    /\ IF Superseded(pass[w].id)
       THEN pass' = [pass EXCEPT ![w].at = "decided", ![w].result = "stale"]
       ELSE pass' = [pass EXCEPT ![w].at = "loaded", ![w].revision = row.revision]
    /\ UNCHANGED <<row, instance, verified, intent, claim, lost, faults, crashes, stalls>>

\* The desired state it read is written to the instance.
Apply(w) ==
    /\ pass[w].at = "loaded"
    /\ instance' = pass[w].revision
    /\ Goto(w, "applied")
    /\ UNCHANGED <<row, verified, intent, claim, lost, faults, crashes, stalls>>

\* The instance verifiably has the desired state the pass loaded.
Verify(w) ==
    /\ pass[w].at = "applied"
    /\ instance = pass[w].revision
    /\ verified' = verified \cup {pass[w].revision}
    /\ Goto(w, "verified")
    /\ UNCHANGED <<row, instance, intent, claim, lost, faults, crashes, stalls>>

\* The reconciler returns something else, or throws, at any point of its work;
\* a thrown error does not ask whether the lease is still owned.
Fail(w, result) ==
    /\ pass[w].at \in {"loaded", "applied", "verified"}
    /\ faults < MaxFaults
    /\ faults' = faults + 1
    /\ pass' = [pass EXCEPT ![w].at = "decided", ![w].result = result]
    /\ UNCHANGED <<row, instance, verified, intent, claim, lost, crashes, stalls>>

\* What verification finds when the instance does not have the desired state.
VerifyFails(w) ==
    /\ pass[w].at = "applied"
    /\ instance # pass[w].revision
    /\ pass' = [pass EXCEPT ![w].at = "decided", ![w].result = "failed"]
    /\ UNCHANGED <<row, instance, verified, intent, claim, lost, faults, crashes, stalls>>

\* Mutant: the row is marked whatever revision it has by now.
MarksRowMutant(revision) == TRUE

\* The WHERE revision = ... of recordObservation and markSucceeded.
MarksRow(revision) == row.revision = revision

\* Mutant: the row's newest revision is recorded instead of the one reconciled.
MarkedRevisionMutant(w) == row.revision

\* The revision the pass loaded: row.revision, then outcome.observedRevision.
MarkedRevision(w) == pass[w].revision

\* recordObservation, and the outcome of verifyAndSettle: the revision is observed
\* even when a quota or the SSH daemon is still pending, which asks for a retry
\* or, after too many, fails.  assertOwned() turns the outcome of a lost lease
\* into a retry, after the row was written.
Observe(w, result) ==
    /\ pass[w].at = "verified"
    /\ IF result = "success" THEN UNCHANGED faults
       ELSE faults < MaxFaults /\ faults' = faults + 1
    /\ row' = IF MarksRow(MarkedRevision(w))
              THEN [row EXCEPT !.observed = MarkedRevision(w), !.failure = FALSE]
              ELSE row
    /\ pass' = [pass EXCEPT ![w].at = "decided",
                            ![w].result = IF w \in lost THEN "retry" ELSE result]
    /\ UNCHANGED <<instance, verified, intent, claim, lost, crashes, stalls>>

--------------------------------------------------------------------------------
(***************************************************************************)
(* applyOutcome and handleError                                             *)
(***************************************************************************)

\* outcome succeeded: the row is marked again, and no longer parked.
MarkSucceeded(w) ==
    /\ pass[w].at = "decided" /\ pass[w].result = "success"
    /\ row' = IF MarksRow(MarkedRevision(w))
              THEN [row EXCEPT !.observed = MarkedRevision(w), !.attention = FALSE, !.failure = FALSE]
              ELSE row
    /\ Goto(w, "marked")
    /\ UNCHANGED <<instance, verified, intent, claim, lost, faults, crashes, stalls>>

\* markFailure is not guarded by the revision; only busy strikes park.
MarkFailure(w) ==
    /\ pass[w].at = "decided" /\ pass[w].result \in {"failed", "park"}
    /\ row' = [row EXCEPT !.failure = TRUE, !.attention = @ \/ pass[w].result = "park"]
    /\ Goto(w, "marked")
    /\ UNCHANGED <<instance, verified, intent, claim, lost, faults, crashes, stalls>>

\* settlePhysical, then the release at the end of withLease.
Settle(w) ==
    LET p == pass[w] IN
    /\ \/ p.at = "marked"
       \/ p.at = "decided" /\ p.result = "stale"
    /\ intent' = CASE p.result = "success" -> Settled(p.revision, "succeeded")
                   [] p.result = "stale"   -> Settled(intent[p.id].target, "succeeded")
                   [] OTHER                -> Settled(intent[p.id].target, "failed")
    /\ EndPass(w)
    /\ UNCHANGED <<row, instance, verified, faults, crashes, stalls>>

\* recordBusyAttempt: the streak grows, or restarts at one when it is older
\* than the window; at the limit the resource is parked, else it is retried.
Busy(w, strikes) ==
    LET i == pass[w].id IN
    /\ pass[w].at = "decided" /\ pass[w].result = "busy"
    /\ strikes \in (IF Pending(i) THEN {1, intent[i].busy + 1} ELSE {0})
    /\ IF strikes >= BusyLimit
       THEN /\ intent' = [intent EXCEPT ![i].busy = BusyLimit]
            /\ pass' = [pass EXCEPT ![w].result = "park"]
            /\ UNCHANGED <<claim, lost>>
       ELSE /\ intent' = IF Pending(i)
                         THEN [intent EXCEPT ![i].busy = strikes, ![i].waiting = TRUE]
                         ELSE intent
            /\ EndPass(w)
    /\ UNCHANGED <<row, instance, verified, faults, crashes, stalls>>

\* scheduleRetry; any reason but an unreachable server ends a busy streak.
ScheduleRetry(w) ==
    LET i == pass[w].id IN
    /\ pass[w].at = "decided" /\ pass[w].result \in {"retry", "unreachable"}
    /\ intent' = [intent EXCEPT ![i].waiting = Pending(i),
                                ![i].busy = IF pass[w].result = "retry" THEN 0 ELSE @]
    /\ EndPass(w)
    /\ UNCHANGED <<row, instance, verified, faults, crashes, stalls>>

--------------------------------------------------------------------------------
(***************************************************************************)
(* Crashes and stalls                                                       *)
(***************************************************************************)

\* The process ends in mid-pass; its claim lapses (ReconcileClaims).
Crash(w) ==
    /\ pass[w].at # "idle" /\ crashes + stalls < MaxCrashes
    /\ crashes' = crashes + 1
    /\ EndPass(w)
    /\ UNCHANGED <<row, instance, verified, intent, faults, stalls>>

\* The process stalls for longer than its lease and does not know it.
Stall(w) ==
    /\ claim = w /\ crashes + stalls < MaxStalls
    /\ stalls' = stalls + 1
    /\ claim' = Nobody
    /\ UNCHANGED <<row, instance, verified, intent, lost, pass, faults, crashes>>

\* The renewal timer of the stalled process runs again.
NoticeLost(w) ==
    /\ pass[w].at \in {"claimed", "loaded", "applied", "verified", "decided", "marked"}
    /\ claim # w /\ w \notin lost
    /\ lost' = lost \cup {w}
    /\ UNCHANGED <<row, instance, verified, intent, claim, pass, faults, crashes, stalls>>

Requests ==
    \/ \E i \in Ids :
          \/ \E despite, keep, clear \in BOOLEAN : Change(i, despite, keep, clear)
          \/ Scan(i)
          \/ \E source \in Ids : Retry(i, source)
          \/ Prune(i)
    \/ Drift

PassStep(w) ==
    \/ CheckParked(w) \/ Claim(w) \/ Load(w) \/ Apply(w) \/ Verify(w) \/ VerifyFails(w)
    \/ Observe(w, "success") \/ MarkSucceeded(w) \/ MarkFailure(w) \/ Settle(w) \/ ScheduleRetry(w)
    \/ \E strikes \in 0..BusyLimit : Busy(w, strikes)

Next ==
    \/ Requests
    \/ \E i \in Ids : RetryDue(i)
    \/ \E w \in Workers :
          \/ \E i \in Ids : List(w, i)
          \/ PassStep(w)
          \/ \E result \in {"retry", "unreachable", "busy", "failed"} : Fail(w, result)
          \/ \E result \in {"retry", "failed"} : Observe(w, result)
          \/ Crash(w) \/ Stall(w) \/ NoticeLost(w)

Spec == Init /\ [][Next]_vars

\* Retries fall due, passes go on, and a ready intent is listed again and again
\* (every wake, every retry timer, at the latest the minute scan lists them all).
FairSpec ==
    /\ Spec
    /\ \A i \in Ids : WF_vars(RetryDue(i))
    /\ \A w \in Workers :
          /\ WF_vars(PassStep(w))
          /\ \A i \in Ids : SF_vars(List(w, i))

--------------------------------------------------------------------------------
(***************************************************************************)
(* Properties                                                               *)
(***************************************************************************)

\* A revision is recorded as observed only if a pass verified exactly that
\* revision on the instance.
ObservedIsVerified == row.observed # 0 => row.observed \in verified

\* An intent of the current revision is shown as succeeded only if that
\* revision is the observed one; an older one may be superseded instead.
SucceededIsObserved ==
    \A i \in Ids :
        intent[i].status = "succeeded" /\ intent[i].target = row.revision =>
            row.observed = row.revision

\* The current desired state is never forgotten: until it is observed, some
\* intent for it is pending, or failed and there to be retried, whatever was
\* swept, retried, pruned or lost in a crash.
DesireIsTracked ==
    row.observed # row.revision =>
        \E i \in Ids : intent[i].target = row.revision /\ intent[i].status \in {"pending", "failed"}

\* Nothing that was reported is taken back: a late pass of a process that lost
\* its lease never returns the row to an older revision, and a settled intent
\* stays settled the way it was, whatever passes, sweeps and retries of other
\* intents do.
NothingRegresses ==
    [][/\ row'.observed >= row.observed
       /\ \A i \in Ids :
            intent[i].status \in {"succeeded", "failed"} =>
               intent'[i].status \in {intent[i].status, "pruned"}]_vars

\* Until a process stalls past its lease, no pass leaves the instance at another
\* revision than the observed one: whatever differs from it drifted, or is a
\* newer change.
ObservedIsApplied ==
    stalls = 0 /\ row.observed = row.revision => instance \in {0, row.revision}

\* The observed revision tells the truth: it was verified, and the instance is
\* not at another one.
ObservedIsTrue == TypeOK /\ ObservedIsVerified /\ ObservedIsApplied

\* Every intent is settled in the end, unless its resource is parked.
IntentsSettle == \A i \in Ids : Pending(i) ~> (~Pending(i) \/ row.attention)

================================================================================
