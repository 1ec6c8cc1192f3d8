--------------------------- MODULE ContainerLifecycle ---------------------------
(***************************************************************************)
(* One container from its row to its Incus instance: the requests that change  *)
(* the row, the steps of the container reconciler, the full scan with its       *)
(* quarantine of orphans, and the address claim.  Every request to Incus        *)
(* starts an operation that ends later; a wait that times out, or a process     *)
(* that ends, leaves the operation running.                                     *)
(*                                                                              *)
(* One pass runs at a time (ReconcileClaims).  What marking the row, parking    *)
(* it after busy answers and back-offs add is in ReconcileIntents: here a       *)
(* pending intent may be taken up at any time.  The GPU assignment stands for    *)
(* the managed fields: it is the one only a stopped instance can take.           *)
(***************************************************************************)
EXTENDS Naturals

CONSTANTS
    MaxPending,     \* bound on the intents kept at a time
    MaxRevision,    \* bound on the desired-state changes
    MaxFaults,      \* bound on timeouts, failed operations, crashes and guest changes
    Forms           \* whether the texts of one start time agree: see IsBaseline

ASSUME LifecycleConstants ==
    /\ MaxPending \in Nat \ {0} /\ MaxRevision \in Nat \ {0}
    /\ MaxFaults \in Nat
    /\ Forms \in SUBSET BOOLEAN \ {{}}

Slots == 1..MaxPending
Boots == Nat      \* a start has a number of its own

VARIABLES
    row,        \* lifecycle_phase, power_intent, revision and GPU assignment
    address,    \* the network claim: none, active, releasing, reusable
    route,      \* the last observed status, and the start it belongs to
    intent,     \* the pending intents, and the restarts that succeeded
    instance,   \* the Incus instance; boot counts its starts
    op,         \* the operation in flight on the instance, and who waits for it
    pass,       \* the pass of the reconciler
    scan,       \* the full scan
    sighting,   \* the orphan_sightings row: none, fresh, due
    faults

vars == <<row, address, route, intent, instance, op, pass, scan, sighting, faults>>

incus == <<instance, op>>

Phases == {"none", "provisioning", "active", "deleting", "gone"}
Operations == {"none", "create", "start", "stop", "restart", "put", "delete"}
PassSteps ==
    {"idle", "before", "stopFirst", "ensure", "create", "state", "disrupt", "restate",
     "put", "power", "repower", "restart", "proof", "verify", "observe",
     "delFind", "delStop", "delDelete", "delVerify", "release", "drop", "wait", "decided"}
ScanSteps == {"idle", "listed", "orphan", "orphanDelete", "forget", "wait"}
Results == {"none", "stale", "superseded", "success", "retry", "failed"}

NoIntent == [status |-> "none", kind |-> "change", scan |-> FALSE, target |-> 1,
             baseline |-> 0]
NoOp == [kind |-> "none", by |-> "nobody", gpu |-> FALSE]
NoState == [running |-> FALSE, boot |-> 0, differs |-> FALSE]
IdlePass == [at |-> "idle", slot |-> 1, power |-> "stopped", revision |-> 1, gpu |-> FALSE,
             state |-> NoState, then |-> "idle", result |-> "none"]
IdleScan == [at |-> "idle", exists |-> FALSE, running |-> FALSE, gpu |-> FALSE,
             due |-> FALSE, then |-> "idle"]

TypeOK ==
    /\ row \in [phase : Phases, power : {"running", "stopped"}, revision : 1..MaxRevision,
                gpu : BOOLEAN]
    /\ address \in {"none", "active", "releasing", "reusable"}
    /\ route \in [status : {"unknown", "running", "stopped"}, started : Boots]
    /\ intent \in [Slots -> [status : {"none", "pending", "succeeded"},
                             kind : {"change", "restart", "delete"}, scan : BOOLEAN,
                             target : 1..MaxRevision, baseline : Boots]]
    /\ instance \in [exists : BOOLEAN, running : BOOLEAN, boot : Boots, gpu : BOOLEAN]
    /\ op \in [kind : Operations, by : {"nobody", "pass", "scan"}, gpu : BOOLEAN]
    /\ pass \in [at : PassSteps, slot : Slots, power : {"running", "stopped"},
                 revision : 1..MaxRevision, gpu : BOOLEAN,
                 state : [running : BOOLEAN, boot : Boots, differs : BOOLEAN],
                 then : PassSteps, result : Results]
    /\ scan \in [at : ScanSteps, exists : BOOLEAN, running : BOOLEAN, gpu : BOOLEAN,
                 due : BOOLEAN, then : ScanSteps]
    /\ sighting \in {"none", "fresh", "due"}
    /\ faults \in 0..MaxFaults

\* Nothing was created yet.
Init ==
    /\ row = [phase |-> "none", power |-> "stopped", revision |-> 1, gpu |-> FALSE]
    /\ address = "none"
    /\ route = [status |-> "unknown", started |-> 0]
    /\ intent = [i \in Slots |-> NoIntent]
    /\ instance = [exists |-> FALSE, running |-> FALSE, boot |-> 0, gpu |-> FALSE]
    /\ op = NoOp /\ pass = IdlePass /\ scan = IdleScan
    /\ sighting = "none"
    /\ faults = 0

--------------------------------------------------------------------------------
(***************************************************************************)
(* Requests                                                                 *)
(***************************************************************************)

Live == row.phase \in {"provisioning", "active"}

Pending(i) == intent[i].status = "pending"

\* The slot the next intent takes.
IsFree(i) == ~Pending(i) /\ \A j \in Slots : j < i => Pending(j)

NewIntent(kind, isScan, target) ==
    [NoIntent EXCEPT !.status = "pending", !.kind = kind, !.scan = isScan, !.target = target]

Created(i, kind, target) == [intent EXCEPT ![i] = NewIntent(kind, FALSE, target)]

\* admit: the row, its address and its intent, in one transaction.
Create(i, power) ==
    /\ IsFree(i) /\ row.phase = "none"
    /\ row' = [row EXCEPT !.phase = "provisioning", !.power = power]
    /\ address' = "active"
    /\ intent' = Created(i, "change", 1)
    /\ UNCHANGED <<route, incus, pass, scan, sighting, faults>>

\* actionInTransaction: start, stop and delete.
Action(i, action) ==
    /\ IsFree(i) /\ row.revision < MaxRevision
    /\ Live \/ (row.phase = "deleting" /\ action = "delete")
    /\ row' = [row EXCEPT !.revision = @ + 1,
                          !.power = IF action = "start" THEN "running" ELSE "stopped",
                          !.phase = IF action = "delete" THEN "deleting" ELSE @]
    /\ intent' = Created(i, IF action = "delete" THEN "delete" ELSE "change", row.revision + 1)
    /\ UNCHANGED <<address, route, incus, pass, scan, sighting, faults>>

\* actionInTransaction: a restart needs a container last seen running, and keeps
\* the start time that was observed then.
Restart(i) ==
    /\ IsFree(i) /\ row.revision < MaxRevision
    /\ Live /\ route.status = "running"
    /\ row' = [row EXCEPT !.revision = @ + 1, !.power = "running"]
    /\ intent' = [Created(i, "restart", row.revision + 1) EXCEPT
                    ![i].baseline = route.started]
    /\ UNCHANGED <<address, route, incus, pass, scan, sighting, faults>>

\* mutateGpus: only a container last seen stopped changes its GPUs.
MutateGpus(i) ==
    /\ IsFree(i) /\ row.revision < MaxRevision
    /\ Live /\ route.status = "stopped"
    /\ row' = [row EXCEPT !.revision = @ + 1, !.gpu = ~@]
    /\ intent' = Created(i, "change", row.revision + 1)
    /\ UNCHANGED <<address, route, incus, pass, scan, sighting, faults>>

--------------------------------------------------------------------------------
(***************************************************************************)
(* Incus                                                                    *)
(***************************************************************************)

\* Mutant: the new instance starts at once.
CreateStartsMutant == TRUE

\* start: false in the request that creates the instance.
CreateStarts == FALSE

Effect(o) ==
    CASE o.kind = "create"  -> [instance EXCEPT !.exists = TRUE, !.gpu = o.gpu,
                                                !.running = CreateStarts]
      [] o.kind \in {"start", "restart"} -> [instance EXCEPT !.running = TRUE, !.boot = @ + 1]
      [] o.kind = "stop"    -> [instance EXCEPT !.running = FALSE]
      [] o.kind = "put"     -> [instance EXCEPT !.gpu = o.gpu]
      [] o.kind = "delete"  -> [instance EXCEPT !.exists = FALSE, !.running = FALSE]

\* A request the instance's state does not allow.
Refused(kind) ==
    CASE kind = "create" -> instance.exists
      [] kind = "start"  -> ~instance.exists \/ instance.running
      [] kind \in {"stop", "restart"} -> ~instance.running
      [] kind = "put"    -> ~instance.exists
      [] kind = "delete" -> ~instance.exists \/ instance.running

\* "Instance is busy running a ... operation"
IsBusy == op.kind # "none"

\* started_at, as Incus writes it, is the baseline, which went through timestamptz,
\* Date and toISOString.  Two texts agree only for the same start, and then only if
\* Incus wrote whole milliseconds and UTC: same is whether it did.
IsBaseline(started, same) == same /\ started = intent[pass.slot].baseline

--------------------------------------------------------------------------------
(***************************************************************************)
(* The steps of a pass                                                      *)
(***************************************************************************)

Goto(step) == pass' = [pass EXCEPT !.at = step]
Decide(result) == pass' = [pass EXCEPT !.at = "decided", !.result = result, !.state = NoState]

OnlyPass == UNCHANGED <<row, address, route, intent, incus, scan, sighting, faults>>

\* requestAndWait: the operation starts, or the request is refused.
Request(kind, next) ==
    /\ \/ IsBusy /\ Decide("retry") /\ UNCHANGED op
       \/ ~IsBusy /\ Refused(kind) /\ Decide("failed") /\ UNCHANGED op
       \/ /\ ~IsBusy /\ ~Refused(kind)
          /\ op' = [kind |-> kind, by |-> "pass", gpu |-> kind \in {"create", "put"} /\ pass.gpu]
          /\ pass' = [pass EXCEPT !.at = "wait", !.then = next]
    /\ UNCHANGED <<row, address, route, intent, instance, scan, sighting, faults>>

ReadState == [running |-> instance.running, boot |-> instance.boot,
              differs |-> instance.gpu # pass.gpu]

IsRestart == intent[pass.slot].kind = "restart"

\* load: what is refused before Incus is touched.
LoadResult(i) ==
    LET it == intent[i] IN
    CASE row.phase = "gone" -> IF it.kind = "delete" THEN "stale" ELSE "failed"
      [] row.phase # "gone" /\ it.kind = "restart"
           /\ (row.phase = "deleting" \/ row.power # "running") -> "superseded"
      [] row.phase \notin {"gone", "deleting"} /\ it.kind # "restart"
           /\ it.target < row.revision -> "stale"
      [] OTHER -> IF address = "active" THEN "none" ELSE "failed"

Load(i) ==
    /\ pass.at = "idle" /\ Pending(i)
    /\ pass' = [IdlePass EXCEPT
                  !.slot = i, !.power = row.power, !.revision = row.revision, !.gpu = row.gpu,
                  !.result = LoadResult(i),
                  !.at = IF LoadResult(i) # "none" THEN "decided"
                         ELSE IF row.phase = "deleting" \/ intent[i].kind = "delete" THEN "delFind"
                         ELSE "before"]
    /\ OnlyPass

\* beforeAttachments: a stop does not wait for anything else.
BeforeAttachments ==
    /\ pass.at = "before"
    /\ Goto(IF pass.power = "stopped" /\ instance.running THEN "stopFirst" ELSE "ensure")
    /\ OnlyPass

StopFirst == pass.at = "stopFirst" /\ Request("stop", "ensure")

\* ensureInstance: find it, or create it.
EnsureInstance ==
    /\ pass.at = "ensure"
    /\ Goto(IF instance.exists THEN "state" ELSE "create")
    /\ OnlyPass

CreateInstance == pass.at = "create" /\ Request("create", "state")

\* readState and the comparison with the desired document; stopForDisruptiveChange
\* when the instance should stop or restart anyway.
Compare ==
    /\ pass.at = "state"
    /\ IF instance.exists
       THEN pass' = [pass EXCEPT
              !.state = ReadState,
              !.at = IF ReadState.running /\ ReadState.differs /\ (pass.power = "stopped" \/ IsRestart)
                     THEN "disrupt" ELSE "put"]
       ELSE Decide("failed")
    /\ OnlyPass

Disrupt == pass.at = "disrupt" /\ Request("stop", "restate")

\* The state is read again after a transition; the comparison is not.
Reread(step, next) ==
    /\ pass.at = step
    /\ IF instance.exists
       THEN pass' = [pass EXCEPT !.state = [ReadState EXCEPT !.differs = pass.state.differs],
                                 !.at = next]
       ELSE Decide("failed")
    /\ OnlyPass

\* GPU_MUTATION_REQUIRES_STOP, nothing to write, or putManagedFields.
Put ==
    /\ pass.at = "put"
    /\ IF pass.state.differs /\ ~pass.state.running
       THEN Request("put", "power")
       ELSE /\ IF pass.state.differs THEN Decide("failed") ELSE Goto("power")
            /\ OnlyPass

\* powerTransition; a running instance that is to restart is left to the restart.
Transition ==
    CASE IsRestart /\ pass.state.running -> "none"
      [] pass.power = "running" /\ ~pass.state.running -> "start"
      [] pass.power = "stopped" /\ pass.state.running -> "stop"
      [] OTHER -> "none"

AfterPower == IF IsRestart THEN "restart" ELSE "verify"

ReconcilePower ==
    /\ pass.at = "power"
    /\ IF Transition = "none"
       THEN Goto(AfterPower) /\ OnlyPass
       ELSE Request(Transition, "repower")

\* restartTransition: the instance runs and its start is not the baseline's.
Proven(state, same) == state.running /\ ~IsBaseline(state.boot, same)

ReconcileRestart(same) ==
    /\ pass.at = "restart"
    /\ IF Proven(pass.state, same) THEN Goto("verify") /\ OnlyPass ELSE Request("restart", "proof")

\* The last read of restartWithProof.
RestartProof(same) ==
    /\ pass.at = "proof"
    /\ IF Proven(instance, same)
       THEN Goto("verify") ELSE Decide("failed")
    /\ OnlyPass

\* verifyAndSettle reads the document and the state.
Verify ==
    /\ pass.at = "verify"
    /\ IF instance.exists /\ ~ReadState.differs
       THEN pass' = [pass EXCEPT !.state = ReadState, !.at = "observe"]
       ELSE Decide("failed")
    /\ OnlyPass

\* recordObservation: the row only where it still has the revision, the route always.
Observe ==
    /\ pass.at = "observe"
    /\ row' = IF row.revision = pass.revision /\ Live THEN [row EXCEPT !.phase = "active"] ELSE row
    /\ route' = IF pass.state.running
                THEN [status |-> "running", started |-> pass.state.boot]
                ELSE [status |-> "stopped", started |-> 0]
    /\ Decide("success")
    /\ UNCHANGED <<address, intent, incus, scan, sighting, faults>>

\* reconcileDelete: stop and delete the instance, if there is one.
FindForDelete ==
    /\ pass.at = "delFind"
    /\ Goto(IF instance.exists THEN "delStop" ELSE "delVerify")
    /\ OnlyPass

StopForDelete ==
    /\ pass.at = "delStop"
    /\ IF instance.running THEN Request("stop", "delDelete")
       ELSE /\ IF instance.exists THEN Goto("delDelete") ELSE Decide("failed")
            /\ OnlyPass

DeleteInstance == pass.at = "delDelete" /\ Request("delete", "delVerify")

VerifyAbsent ==
    /\ pass.at = "delVerify"
    /\ IF instance.exists THEN Decide("failed") ELSE Goto("release")
    /\ OnlyPass

\* releaseContainerState: two statements, without a transaction around them.
ReleaseAddress ==
    /\ pass.at = "release"
    /\ address' = IF address = "active" THEN "releasing" ELSE address
    /\ Goto("drop")
    /\ UNCHANGED <<row, route, intent, incus, scan, sighting, faults>>

DropRow ==
    /\ pass.at = "drop"
    /\ row' = [row EXCEPT !.phase = "gone"]
    /\ Decide("success")
    /\ UNCHANGED <<address, route, intent, incus, scan, sighting, faults>>

\* settleContainerIntent: a restart settles itself, and its success also the
\* others up to the revision; no other intent settles a restart.  A settled
\* intent is kept only if it is a restart that succeeded.
Settled(i, revision, succeeded) ==
    LET it == intent[i]
        swept == Pending(i) /\ it.kind # "restart" /\ it.target <= revision
                 /\ (IsRestart => succeeded)
    IN  CASE i = pass.slot /\ IsRestart /\ succeeded -> [it EXCEPT !.status = "succeeded"]
          [] i = pass.slot /\ IsRestart /\ ~succeeded -> NoIntent
          [] ~(i = pass.slot /\ IsRestart) /\ swept -> NoIntent
          [] OTHER -> it

Settle ==
    LET succeeded == pass.result \in {"success", "stale"}
        revision == IF pass.result = "success" THEN pass.revision ELSE intent[pass.slot].target
    IN
    /\ pass.at = "decided"
    /\ intent' = IF pass.result = "retry" THEN intent
                 ELSE [i \in Slots |-> Settled(i, revision, succeeded)]
    /\ pass' = IdlePass
    /\ UNCHANGED <<row, address, route, incus, scan, sighting, faults>>

PassStep ==
    \/ BeforeAttachments \/ StopFirst \/ EnsureInstance \/ CreateInstance \/ Compare \/ Disrupt
    \/ Reread("restate", "put") \/ Put \/ ReconcilePower \/ Reread("repower", AfterPower)
    \/ \E same \in Forms : ReconcileRestart(same) \/ RestartProof(same)
    \/ Verify \/ Observe
    \/ FindForDelete \/ StopForDelete \/ DeleteInstance \/ VerifyAbsent
    \/ ReleaseAddress \/ DropRow \/ Settle

--------------------------------------------------------------------------------
(***************************************************************************)
(* The full scan                                                            *)
(***************************************************************************)

OnlyScan == UNCHANGED <<row, address, route, intent, incus, pass, sighting, faults>>

\* Incus first.
ScanInstances ==
    /\ scan.at = "idle"
    /\ scan' = [IdleScan EXCEPT !.at = "listed", !.exists = instance.exists,
                                !.running = instance.running, !.gpu = instance.gpu]
    /\ OnlyScan

\* Mutant: a container that is still being created is not known.
KnownMutant == row.phase = "active"

\* The rows that own their instance; a deleting one does not.
Known == row.phase \in {"provisioning", "active"}

\* Mutant: only the managed fields are compared.
NeedsUpdateMutant == ~scan.exists \/ scan.gpu # row.gpu

\* scanNeedsUpdate: what was listed against the row.
NeedsUpdate ==
    ~scan.exists \/ scan.running # (row.power = "running") \/ scan.gpu # row.gpu

NeedsIntent == row.phase = "deleting" \/ (Known /\ NeedsUpdate)

\* enqueueScanIntent: one pending scan intent per revision.
ScanIntent(i) ==
    /\ NeedsIntent
    /\ IsFree(i)
    /\ ~\E j \in Slots : Pending(j) /\ intent[j].scan /\ intent[j].target = row.revision

ScanTarget == row.revision

\* sight: the first sighting is kept, what is no longer seen is forgotten.
Sight(orphan) == CASE ~orphan -> "none"
                   [] orphan /\ sighting = "none" -> "fresh"
                   [] OTHER -> sighting

\* Rows second: intents for drift, then the orphans.
ScanRows ==
    LET orphan == scan.exists /\ ~Known
        kind == IF row.phase = "deleting" THEN "delete" ELSE "change"
    IN
    /\ scan.at = "listed"
    /\ intent' = [i \in Slots |->
                     IF ScanIntent(i)
                     THEN NewIntent(kind, TRUE, ScanTarget) ELSE intent[i]]
    /\ sighting' = Sight(orphan)
    /\ scan' = IF orphan THEN [IdleScan EXCEPT !.at = "orphan", !.due = (Sight(orphan) = "due")]
               ELSE IdleScan
    /\ UNCHANGED <<row, address, route, incus, pass, faults>>

ScanRequest(kind, next) ==
    /\ IF IsBusy \/ Refused(kind)
       THEN scan' = IdleScan /\ UNCHANGED op
       ELSE /\ op' = [kind |-> kind, by |-> "scan", gpu |-> FALSE]
            /\ scan' = [scan EXCEPT !.at = "wait", !.then = next]
    /\ UNCHANGED <<row, address, route, intent, instance, pass, sighting, faults>>

\* stopPhysicalInstance, for an orphan that is due or not.
OrphanStop ==
    LET next == IF scan.due THEN "orphanDelete" ELSE "idle" IN
    /\ scan.at = "orphan"
    /\ IF instance.running THEN ScanRequest("stop", next)
       ELSE /\ scan' = IF instance.exists /\ scan.due THEN [scan EXCEPT !.at = next] ELSE IdleScan
            /\ OnlyScan

OrphanDelete == scan.at = "orphanDelete" /\ ScanRequest("delete", "forget")

OrphanForget ==
    /\ scan.at = "forget"
    /\ sighting' = IF instance.exists THEN sighting ELSE "none"
    /\ scan' = IdleScan
    /\ UNCHANGED <<row, address, route, intent, incus, pass, faults>>

ScanStep == ScanInstances \/ ScanRows \/ OrphanStop \/ OrphanDelete \/ OrphanForget

--------------------------------------------------------------------------------
(***************************************************************************)
(* Operations end, time passes, things go wrong                             *)
(***************************************************************************)

\* Whoever still waits for the operation goes on where it left off.
ResumeWaiter ==
    /\ pass' = IF op.by = "pass" THEN [pass EXCEPT !.at = pass.then, !.then = "idle"] ELSE pass
    /\ scan' = CASE op.by = "scan" /\ scan.then = "idle" -> IdleScan
                 [] op.by = "scan" /\ scan.then # "idle" ->
                      [scan EXCEPT !.at = scan.then, !.then = "idle"]
                 [] OTHER -> scan

OpEnds ==
    /\ IsBusy
    /\ instance' = Effect(op)
    /\ op' = NoOp
    /\ ResumeWaiter
    /\ UNCHANGED <<row, address, route, intent, sighting, faults>>

\* Whoever waits gets an error: a pass decides on it, a scan logs it.
FailWaiter(result) ==
    /\ pass' = IF op.by = "pass"
               THEN [pass EXCEPT !.at = "decided", !.result = result, !.then = "idle", !.state = NoState]
               ELSE pass
    /\ scan' = IF op.by = "scan" THEN IdleScan ELSE scan

\* The operation fails on the server.
OpFails ==
    /\ IsBusy /\ faults < MaxFaults
    /\ faults' = faults + 1
    /\ op' = NoOp
    /\ FailWaiter("failed")
    /\ UNCHANGED <<row, address, route, intent, instance, sighting>>

\* What the read after a timeout has to show.
Confirmed(same) ==
    CASE op.kind = "create"  -> instance.exists
      [] op.kind = "start"   -> instance.running
      [] op.kind = "stop"    -> instance.exists /\ ~instance.running
      [] op.kind = "restart" -> Proven(instance, same)
      [] op.kind = "put"     -> instance.exists /\ instance.gpu = op.gpu
      [] op.kind = "delete"  -> ~instance.exists

\* readAfterTimeout: one read decides; the operation goes on in the background.
WaitTimesOut(same) ==
    /\ op.by # "nobody" /\ faults < MaxFaults
    /\ faults' = faults + 1
    /\ op' = [op EXCEPT !.by = "nobody"]
    /\ IF Confirmed(same)
       THEN ResumeWaiter
       ELSE FailWaiter("retry")
    /\ UNCHANGED <<row, address, route, intent, instance, sighting>>

\* The process ends; operations on the server do not.
Crash ==
    /\ faults < MaxFaults
    /\ pass.at # "idle" \/ scan.at # "idle"
    /\ faults' = faults + 1
    /\ pass' = IdlePass /\ scan' = IdleScan
    /\ op' = [op EXCEPT !.by = "nobody"]
    /\ UNCHANGED <<row, address, route, intent, instance, sighting>>

\* The guest powers itself off, or reboots.
GuestChanges(reboots) ==
    /\ instance.running /\ faults < MaxFaults
    /\ faults' = faults + 1
    /\ instance' = IF reboots THEN [instance EXCEPT !.boot = @ + 1]
                   ELSE [instance EXCEPT !.running = FALSE]
    /\ UNCHANGED <<row, address, route, intent, op, pass, scan, sighting>>

\* reusable_at passes: findAvailableAddress may hand the address on.
AddressReusable ==
    /\ address = "releasing"
    /\ address' = "reusable"
    /\ UNCHANGED <<row, route, intent, incus, pass, scan, sighting, faults>>

\* ORPHAN_QUARANTINE_MS pass.
QuarantineEnds ==
    /\ sighting = "fresh"
    /\ sighting' = "due"
    /\ UNCHANGED <<row, address, route, intent, incus, pass, scan, faults>>

Requests ==
    \E i \in Slots :
       \/ \E power \in {"running", "stopped"} : Create(i, power)
       \/ \E action \in {"start", "stop", "delete"} : Action(i, action)
       \/ Restart(i) \/ MutateGpus(i)

Next ==
    \/ Requests
    \/ \E i \in Slots : Load(i)
    \/ PassStep \/ ScanStep
    \/ OpEnds \/ OpFails \/ \E same \in Forms : WaitTimesOut(same)
    \/ Crash
    \/ \E reboots \in BOOLEAN : GuestChanges(reboots)
    \/ AddressReusable \/ QuarantineEnds

Spec == Init /\ [][Next]_vars

\* Passes, scans, operations and time go on; a pending intent is taken up again
\* and again.
FairSpec ==
    /\ Spec
    /\ WF_vars(PassStep) /\ WF_vars(ScanStep) /\ WF_vars(OpEnds) /\ WF_vars(QuarantineEnds)
    /\ \A i \in Slots : SF_vars(Load(i))

--------------------------------------------------------------------------------
(***************************************************************************)
(* Properties                                                               *)
(***************************************************************************)

\* An address that was given up is never carried by a running instance, whatever
\* operations of earlier passes still end on the server.
AddressNotShared == address \in {"releasing", "reusable"} => ~instance.running

\* The scan stops or deletes only the instance of a container that is deleting
\* or gone, whatever was created, started or deleted since it looked.
ScanSparesLive == [][op.by # "scan" /\ op'.by = "scan" => ~Live]_vars

\* What holds of the container once requests and faults come to rest.
PowerIsRight == Live => instance.running = (row.power = "running")
DeleteIsOver == row.phase = "deleting" => address # "active"
NoOrphan == row.phase = "gone" => ~instance.exists

\* The server comes to what was asked for last: late operations, failed passes
\* and what the guest does are made up for; a deleting container goes, unless
\* the process ended after its address was released and before its row was; and
\* what a late operation leaves of a deleted container is removed.
Converges == <>[](PowerIsRight /\ DeleteIsOver /\ NoOrphan)

\* The address of a container is given back only with its instance down.
AddressIsSafe == TypeOK /\ AddressNotShared

================================================================================
