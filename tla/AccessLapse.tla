------------------------------ MODULE AccessLapse ------------------------------
(***************************************************************************)
(* The grace ledger of a user who owns something on a server, storage pool or *)
(* shared backend without current coverage: AccessLapseProcessor's pass on      *)
(* every replica, AccessLapseRepository's transactions, and the enforcement     *)
(* they queue (stop, detach, purge) with its re-drive backoff.                  *)
(*                                                                            *)
(* A pair is a (user, resource) with one thing of the user's on it: a container *)
(* (kind "server") or a volume ("volume": a pool or a backend).  Passes start    *)
(* every minute and after IAM writes; a write notified during a pass is           *)
(* absorbed by it (process() returns the running pass), so any number of IAM       *)
(* writes may fall between two looks at a pair.  A pair's lease is held for the     *)
(* whole of handle() (ReconcileClaims shows what that takes), so assertOwned        *)
(* never throws here.                                                               *)
(***************************************************************************)
EXTENDS Naturals

CONSTANTS
    Processes,  \* backend replicas
    Pairs,      \* (user, resource) pairs
    Grace,      \* GRANT_EXPIRY_GRACE_DAYS, in ticks
    MaxChanges, \* bound: coverage changes of a pair
    MaxFaults,  \* bound: failed steps and crashes
    None        \* no process, no pair, no ledger row

ASSUME LapseConstants ==
    /\ Grace \in Nat \ {0}
    /\ MaxChanges \in Nat /\ MaxFaults \in Nat

ASSUME NoneIsNone ==
    /\ None \notin Processes \cup Pairs
    /\ None \notin [age : 0..Grace, stopped : BOOLEAN, purged : BOOLEAN]

VARIABLES
    kind,       \* what a pair is on: "server" or "volume"; never changes
    covered,    \* an active user holds a current grant
    owned,      \* "live", "deleting" or "gone"
    use,        \* "in": meant to run / attached; "ending": stop or detach queued
                \* but not observed; "out"
    drive,      \* the container's intents: "none" matter, "pending", "backoff", "due"
    row,        \* control.access_lapses: None or age, stopped_at, purged_at
    claim,      \* who leases the pair
    at,         \* where each process stands
    todo,       \* pairs its scan found work for
    on,         \* the pair it handles
    view,       \* the candidate it inspected
    changes,    \* coverage changes so far
    faults      \* steps failed and processes crashed, up to MaxFaults

world == <<kind, covered, changes, owned, use, drive>>
local == <<at, todo, on, view>>
vars == <<world, row, claim, local, faults>>

Rows == [age : 0..Grace, stopped : BOOLEAN, purged : BOOLEAN] \cup {None}
Points == {"idle", "scan", "pick", "inspect", "clear", "open", "enforce", "act", "mark",
           "purge", "unplug", "delete", "detach", "detaching", "release"}
Candidates == [covered : BOOLEAN, exposed : BOOLEAN, blocked : BOOLEAN, row : Rows]

TypeOK ==
    /\ kind \in [Pairs -> {"server", "volume"}]
    /\ covered \in [Pairs -> BOOLEAN]
    /\ owned \in [Pairs -> {"live", "deleting", "gone"}]
    /\ use \in [Pairs -> {"in", "ending", "out"}]
    /\ drive \in [Pairs -> {"none", "pending", "backoff", "due"}]
    /\ row \in [Pairs -> Rows]
    /\ claim \in [Pairs -> Processes \cup {None}]
    /\ at \in [Processes -> Points]
    /\ todo \in [Processes -> SUBSET Pairs]
    /\ on \in [Processes -> Pairs \cup {None}]
    /\ view \in [Processes -> Candidates \cup {None}]
    /\ changes \in [Pairs -> 0..MaxChanges]
    /\ faults \in 0..MaxFaults

Init ==
    /\ kind \in [Pairs -> {"server", "volume"}]
    /\ covered = [k \in Pairs |-> TRUE]
    /\ owned = [k \in Pairs |-> "live"]
    /\ use = [k \in Pairs |-> "in"]
    /\ drive = [k \in Pairs |-> "none"]
    /\ row = [k \in Pairs |-> None]
    /\ claim = [k \in Pairs |-> None]
    /\ at = [p \in Processes |-> "idle"]
    /\ todo = [p \in Processes |-> {}]
    /\ on = [p \in Processes |-> None]
    /\ view = [p \in Processes |-> None]
    /\ changes = [k \in Pairs |-> 0]
    /\ faults = 0

--------------------------------------------------------------------------------
(***************************************************************************)
(* The candidates of a scan and what they are due for                        *)
(***************************************************************************)

\* lapseStopRedriveDue / detachRedriveDue: the stop or detach did not take
\* effect, no intent is left to do it, and the backoff has passed.
RedriveDue(k) == use[k] = "ending" /\ drive[k] = "due"

Exposed(k) ==
    /\ kind[k] = "server" => owned[k] = "live"
    /\ use[k] = "in" \/ RedriveDue(k)

DestroyBlocked(k) == kind[k] = "volume" /\ owned[k] = "deleting" /\ Exposed(k)

Candidate(k) ==
    [covered |-> covered[k], exposed |-> Exposed(k), blocked |-> DestroyBlocked(k), row |-> row[k]]

\* Mutant: a covered pair without a ledger row has no work.
CoveredWorkMutant(c) == IF c.row # None THEN "clear" ELSE "none"

\* Coverage is back: the row goes; then only what a purge destroys is detached.
CoveredWork(c) ==
    CASE c.row # None -> "clear" [] c.row = None /\ c.blocked -> "detach" [] OTHER -> "none"

\* The grace is over.
DueWork(k, c) ==
    CASE ~c.row.purged -> "purge"
      [] c.row.purged /\ kind[k] # "server" /\ c.exposed -> "detach"
      [] OTHER -> "none"

\* Mutant: the stop is one-shot; a container started again in the grace stays.
GraceWorkMutant(c) == IF ~c.row.stopped THEN "stop" ELSE "none"

\* In the grace: enforced once, and again whenever it is exposed.
GraceWork(c) == IF ~c.row.stopped \/ c.exposed THEN "stop" ELSE "none"

\* lapseWork.
LapseWork(k, c) ==
    CASE c.covered -> CoveredWork(c)
      [] ~c.covered /\ c.row = None -> "lapse"
      [] ~c.covered /\ c.row # None /\ c.row.age >= Grace -> DueWork(k, c)
      [] OTHER -> GraceWork(c)

\* The step of handle() that does the work.
Entry(work) ==
    CASE work = "clear" -> "clear"
      [] work = "lapse" -> "open"
      [] work = "stop" -> "enforce"
      [] work = "purge" -> "purge"
      [] work = "detach" -> "detach"
      [] work = "none" -> "release"

--------------------------------------------------------------------------------
(***************************************************************************)
(* A pass                                                                    *)
(***************************************************************************)

Goto(p, point) == at' = [at EXCEPT ![p] = point]

\* deleteStale: the rows of pairs that own nothing any more, leased or not.
DeleteStale(p) ==
    /\ at[p] = "idle"
    /\ row' = [k \in Pairs |-> IF owned[k] = "gone" THEN None ELSE row[k]]
    /\ Goto(p, "scan")
    /\ UNCHANGED <<world, claim, todo, on, view, faults>>

\* The pairs with something to do, as of the scan.
Scan(p) ==
    /\ at[p] = "scan"
    /\ todo' = [todo EXCEPT ![p] =
          {k \in Pairs : owned[k] # "gone" /\ LapseWork(k, Candidate(k)) # "none"}]
    /\ Goto(p, "pick")
    /\ UNCHANGED <<world, row, claim, on, view, faults>>

\* claim(): the lease is free, expired or its own.
Leasable(p, k) == claim[k] \in {None, p}

\* The next pair: leased, or skipped when another replica has it.
Pick(p, k) ==
    /\ at[p] = "pick" /\ k \in todo[p]
    /\ todo' = [todo EXCEPT ![p] = @ \ {k}]
    /\ IF Leasable(p, k)
       THEN /\ claim' = [claim EXCEPT ![k] = p]
            /\ on' = [on EXCEPT ![p] = k]
            /\ Goto(p, "inspect")
       ELSE UNCHANGED <<claim, on, at>>
    /\ UNCHANGED <<world, row, view, faults>>

PassDone(p) ==
    /\ at[p] = "pick" /\ todo[p] = {}
    /\ Goto(p, "idle")
    /\ UNCHANGED <<world, row, claim, todo, on, view, faults>>

\* inspect(): the pair as it is now that it is leased.
Inspect(p) ==
    LET k == on[p] IN
    /\ at[p] = "inspect"
    /\ IF owned[k] = "gone"
       THEN Goto(p, "release") /\ UNCHANGED view
       ELSE /\ view' = [view EXCEPT ![p] = Candidate(k)]
            /\ Goto(p, Entry(LapseWork(k, Candidate(k))))
    /\ UNCHANGED <<world, row, claim, todo, on, faults>>

\* Mutant: the row goes without a second look at coverage.
ClearsMutant(k) == TRUE

\* clear() re-reads coverage under the IAM lock.
Clears(k) == covered[k]

Clear(p) ==
    LET k == on[p] IN
    /\ at[p] = "clear"
    /\ row' = IF Clears(k) THEN [row EXCEPT ![k] = None] ELSE row
    /\ Goto(p, "release")
    /\ UNCHANGED <<world, claim, todo, on, view, faults>>

\* openLapse: under the IAM lock, a new row or the one that is there; then what
\* the opened lapse is due for.
OpenLapse(p) ==
    LET k == on[p]
        opened == IF row[k] = None THEN [age |-> 0, stopped |-> FALSE, purged |-> FALSE] ELSE row[k]
        seen == [view[p] EXCEPT !.row = opened]
    IN
    /\ at[p] = "open"
    /\ IF covered[k]
       THEN Goto(p, "release") /\ UNCHANGED <<row, view>>
       ELSE /\ row' = [row EXCEPT ![k] = opened]
            /\ view' = [view EXCEPT ![p] = seen]
            /\ Goto(p, Entry(LapseWork(k, seen)))
    /\ UNCHANGED <<world, claim, todo, on, faults>>

\* enforce, purgeResources and detachAfterPurge look at coverage without the
\* lock before a reversible step.
LookAgain(p) ==
    LET k == on[p] IN
    /\ at[p] \in {"enforce", "purge", "detach"}
    /\ Goto(p, CASE at[p] = "enforce" -> IF covered[k] THEN "clear" ELSE "act"
                 [] at[p] = "purge" /\ kind[k] = "server" -> "delete"
                 [] at[p] = "purge" /\ kind[k] # "server" -> IF covered[k] THEN "clear" ELSE "unplug"
                 [] OTHER -> IF view[p].row # None /\ covered[k] THEN "clear" ELSE "detaching")
    /\ UNCHANGED <<world, row, claim, todo, on, view, faults>>

\* enforceStop / forceDetach: what is in use, or stuck and due, gets an intent.
Forces(k, deletingOnly) ==
    /\ kind[k] = "server" => owned[k] = "live"
    /\ deletingOnly => owned[k] = "deleting"
    /\ use[k] = "in" \/ RedriveDue(k)

\* Stop the container or detach the volume.
Enforce(p) ==
    LET k == on[p] IN
    /\ at[p] \in {"act", "unplug", "detaching"}
    /\ IF Forces(k, at[p] = "detaching" /\ view[p].row = None)
       THEN /\ use' = [use EXCEPT ![k] = "ending"]
            /\ drive' = [drive EXCEPT ![k] = "pending"]
       ELSE UNCHANGED <<use, drive>>
    /\ Goto(p, CASE at[p] = "act" -> "mark" [] at[p] = "unplug" -> "delete" [] OTHER -> "release")
    /\ UNCHANGED <<kind, covered, changes, owned, row, claim, todo, on, view, faults>>

\* Mutant: markStopped writes a row when there is none, without its lapsed_at.
StoppedMutant(r) == IF r = None THEN [stopped |-> TRUE, purged |-> FALSE] ELSE [r EXCEPT !.stopped = TRUE]

\* markIn: the first value is kept; a row that is gone stays gone.
Stopped(r) == IF r = None THEN None ELSE [r EXCEPT !.stopped = TRUE]

MarkStopped(p) ==
    LET k == on[p] IN
    /\ at[p] = "mark"
    /\ row' = [row EXCEPT ![k] = Stopped(@)]
    /\ Goto(p, "release")
    /\ UNCHANGED <<world, claim, todo, on, view, faults>>

\* Mutant: the transaction does not look at coverage again.
PurgesMutant(k) == row[k] # None /\ ~row[k].purged

\* purgeIfUncovered: coverage under the IAM lock, then purged_at set once.
Purges(k) == ~covered[k] /\ row[k] # None /\ ~row[k].purged

\* The purge transaction: purged_at and every delete together.  A volume that
\* nothing was ever placed for is dropped at once.
Purge(p) ==
    LET k == on[p] IN
    /\ at[p] = "delete"
    /\ IF Purges(k)
       THEN /\ row' = [row EXCEPT ![k].purged = TRUE]
            /\ \/ /\ owned' = [owned EXCEPT ![k] = IF @ = "live" THEN "deleting" ELSE @]
                  /\ use' = IF kind[k] = "server" THEN [use EXCEPT ![k] = "out"] ELSE use
               \/ /\ kind[k] = "volume" /\ use[k] = "out"
                  /\ owned' = [owned EXCEPT ![k] = "gone"]
                  /\ UNCHANGED use
       ELSE UNCHANGED <<row, owned, use>>
    /\ Goto(p, "release")
    /\ UNCHANGED <<kind, covered, changes, drive, claim, todo, on, view, faults>>

\* handle() ends; a failed release leaves the lease to run out.
Release(p) ==
    LET k == on[p] IN
    /\ at[p] = "release"
    /\ claim' \in {claim, [claim EXCEPT ![k] = IF @ = p THEN None ELSE @]}
    /\ on' = [on EXCEPT ![p] = None]
    /\ view' = [view EXCEPT ![p] = None]
    /\ Goto(p, "pick")
    /\ UNCHANGED <<world, row, todo, faults>>

\* A query of handle() fails before it has changed anything; the rest of the
\* pair's work is left to a later pass.
StepFails(p) ==
    /\ at[p] \notin {"idle", "scan", "pick", "release"} /\ faults < MaxFaults
    /\ faults' = faults + 1
    /\ Goto(p, "release")
    /\ UNCHANGED <<world, row, claim, todo, on, view>>

\* The process ends between two steps and a new one takes its place.
Crash(p) ==
    /\ at[p] # "idle" /\ faults < MaxFaults
    /\ faults' = faults + 1
    /\ on' = [on EXCEPT ![p] = None]
    /\ view' = [view EXCEPT ![p] = None]
    /\ todo' = [todo EXCEPT ![p] = {}]
    /\ Goto(p, "idle")
    /\ UNCHANGED <<world, row, claim>>

\* The lease of a process that no longer renews it runs out.
LeaseExpires(k) ==
    /\ claim[k] # None /\ on[claim[k]] # k
    /\ claim' = [claim EXCEPT ![k] = None]
    /\ UNCHANGED <<world, row, local, faults>>

--------------------------------------------------------------------------------
(***************************************************************************)
(* The rest of the system                                                     *)
(***************************************************************************)

\* A grant is given, revoked or expires; the user is enabled or disabled.
CoverageChanges(k) ==
    /\ changes[k] < MaxChanges
    /\ changes' = [changes EXCEPT ![k] = @ + 1]
    /\ covered' = [covered EXCEPT ![k] = ~@]
    /\ UNCHANGED <<kind, owned, use, drive, row, claim, local, faults>>

\* A covered user creates something on the resource.
Create(k) ==
    /\ owned[k] = "gone" /\ covered[k]
    /\ owned' = [owned EXCEPT ![k] = "live"]
    /\ use' = [use EXCEPT ![k] = "in"]
    /\ drive' = [drive EXCEPT ![k] = "none"]
    /\ UNCHANGED <<kind, covered, changes, row, claim, local, faults>>

\* The covered owner, or an administrator at any time, starts the container or
\* attaches the volume.
PutToUse(k) ==
    /\ owned[k] = "live" /\ use[k] = "out"
    /\ use' = [use EXCEPT ![k] = "in"]
    /\ drive' = [drive EXCEPT ![k] = "none"]
    /\ UNCHANGED <<kind, covered, changes, owned, row, claim, local, faults>>

\* The queued stop or detach is observed, or ends without having taken effect.
EnforcementSucceeds(k) ==
    /\ use[k] = "ending" /\ drive[k] = "pending"
    /\ use' = [use EXCEPT ![k] = "out"]
    /\ drive' = [drive EXCEPT ![k] = "none"]
    /\ UNCHANGED <<kind, covered, changes, owned, row, claim, local, faults>>

EnforcementFails(k) ==
    /\ use[k] = "ending" /\ drive[k] = "pending"
    /\ drive' = [drive EXCEPT ![k] = "backoff"]
    /\ UNCHANGED <<kind, covered, changes, owned, use, row, claim, local, faults>>

BackoffPasses(k) ==
    /\ drive[k] = "backoff"
    /\ drive' = [drive EXCEPT ![k] = "due"]
    /\ UNCHANGED <<kind, covered, changes, owned, use, row, claim, local, faults>>

\* The delete or destroy is done; a volume's destroy waits for its attachment.
Destroyed(k) ==
    /\ owned[k] = "deleting"
    /\ kind[k] = "volume" => use[k] = "out"
    /\ owned' = [owned EXCEPT ![k] = "gone"]
    /\ use' = [use EXCEPT ![k] = "out"]
    /\ drive' = [drive EXCEPT ![k] = "none"]
    /\ UNCHANGED <<kind, covered, changes, row, claim, local, faults>>

\* Time passes for every lapse.
Tick ==
    /\ row' = [k \in Pairs |-> IF row[k] = None \/ row[k].age = Grace THEN row[k]
                               ELSE [row[k] EXCEPT !.age = @ + 1]]
    /\ row' # row
    /\ UNCHANGED <<world, claim, local, faults>>

ProcessStep(p) ==
    \/ DeleteStale(p) \/ Scan(p) \/ PassDone(p) \/ Inspect(p)
    \/ Clear(p) \/ OpenLapse(p) \/ LookAgain(p) \/ Enforce(p) \/ MarkStopped(p)
    \/ Purge(p) \/ Release(p)
    \/ \E k \in Pairs : Pick(p, k)

Next ==
    \/ \E p \in Processes : ProcessStep(p) \/ StepFails(p) \/ Crash(p)
    \/ \E k \in Pairs :
          \/ LeaseExpires(k) \/ CoverageChanges(k) \/ Create(k) \/ PutToUse(k)
          \/ EnforcementSucceeds(k) \/ EnforcementFails(k) \/ BackoffPasses(k) \/ Destroyed(k)
    \/ Tick

Spec == Init /\ [][Next]_vars

\* Every replica keeps running passes; leases and backoffs run out; a delete
\* ends; a stop or detach that is tried again and again works in the end.  A
\* grace need not end: what must happen in it does not wait for the purge.
FairSpec ==
    /\ Spec
    /\ \A p \in Processes : WF_vars(ProcessStep(p))
    /\ \A k \in Pairs :
          /\ WF_vars(LeaseExpires(k)) /\ WF_vars(BackoffPasses(k)) /\ WF_vars(Destroyed(k))
          /\ SF_vars(EnforcementSucceeds(k))

--------------------------------------------------------------------------------
(***************************************************************************)
(* Properties                                                                 *)
(***************************************************************************)

\* Data is only queued for deletion when the pair is uncovered at that moment
\* and the grace that runs now is over, however old the processor's look at it:
\* a grant committed before the purge, or a grace opened anew, saves the data.
PurgeIsDue ==
    [][\A k \in Pairs :
          row[k] # None /\ ~row[k].purged /\ row'[k] # None /\ row'[k].purged
             => ~covered[k] /\ row[k].age = Grace]_vars

\* A running grace is only dropped when coverage is back or nothing is owned.
GraceIsKept ==
    [][\A k \in Pairs :
          row[k] # None /\ row'[k] = None => covered[k] \/ owned[k] = "gone"]_vars

\* In a grace not yet purged, what runs or is attached without coverage is
\* stopped or detached, again after every administrator override.
UseIsEnded ==
    \A k \in Pairs :
        (~covered[k] /\ use[k] # "out" /\ (row[k] = None \/ ~row[k].purged))
            ~> (covered[k] \/ use[k] = "out" \/ (row[k] # None /\ row[k].purged))

\* Once coverage comes to rest the grace of a user who is covered is dropped, and
\* every destroy has finished: its volume was detached, also when the purge's own
\* detach failed and coverage came back since.
Settles ==
    \A k \in Pairs : <>[](owned[k] # "deleting" /\ (covered[k] => row[k] = None))

================================================================================
