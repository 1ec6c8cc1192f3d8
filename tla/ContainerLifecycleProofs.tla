------------------------ MODULE ContainerLifecycleProofs ------------------------
(***************************************************************************)
(* Theorems about ContainerLifecycle, for any bound on intents, revisions and    *)
(* faults: an address is given back only with its instance down, whatever        *)
(* operations of earlier passes still end, and the scan only stops and deletes    *)
(* what no live container owns.                                                  *)
(*                                                                              *)
(* The steps of a pass come in two forms, a move of the pass alone and a         *)
(* request to Incus.  Lemmas show each step to have one of the forms; the        *)
(* invariant is proved for the forms.                                            *)
(***************************************************************************)
EXTENDS ContainerLifecycle, TLAPS

--------------------------------------------------------------------------------
(***************************************************************************)
(* The inductive invariant                                                  *)
(***************************************************************************)

Starting == {"start", "restart"}

\* The steps of a pass that may create, start or restart the instance, and those
\* of a delete before the address is released.
Working ==
    {"before", "stopFirst", "ensure", "create", "state", "disrupt", "restate", "put",
     "power", "repower", "restart", "proof", "verify", "observe"}
Deleting == {"delFind", "delStop", "delDelete", "delVerify"}
Releasing == {"release", "drop"}

GivenUp == address \in {"releasing", "reusable"}

\* What runs, and what is about to run, exists: Incus removes nothing under an
\* operation.
RunningExists == instance.running => instance.exists
StartsExisting == op.kind \in Starting => instance.exists

\* After an operation a pass goes on with its own steps, and never straight to
\* the release; only a pass that waits has a step to go on with.
WaitsToGoOn ==
    /\ pass.then \in Working \cup Deleting \cup {"idle"}
    /\ pass.at # "wait" => pass.then = "idle"

\* load() lets a pass through only with an active address, and only the pass
\* itself gives it up.
WorksOnActive == pass.at \in Working \/ pass.then \in Working => address = "active"

\* From verifyAbsent on nothing runs and no start is under way; a late create
\* may still end.
Quiet ==
    GivenUp \/ pass.at \in Releasing => ~instance.running /\ op.kind \notin Starting

\* Before admission there is nothing to reconcile and nothing to find.
Untouched ==
    row.phase = "none" =>
       /\ address = "none" /\ pass.at = "idle" /\ op.kind = "none" /\ op.by = "nobody"
       /\ ~instance.exists /\ ~scan.exists
       /\ \A i \in Slots : ~Pending(i)

\* A scan that found an orphan read a row that will not live again.
OrphanSteps == {"orphan", "orphanDelete"}

OrphansAreDead ==
    scan.at \in OrphanSteps \/ scan.then \in OrphanSteps => row.phase \in {"deleting", "gone"}

CInv ==
    /\ TypeOK
    /\ RunningExists /\ StartsExisting
    /\ WaitsToGoOn /\ WorksOnActive /\ Quiet
    /\ Untouched /\ OrphansAreDead

--------------------------------------------------------------------------------
(***************************************************************************)
(* The types of the variables                                               *)
(***************************************************************************)

Powers == {"running", "stopped"}
States == [running : BOOLEAN, boot : Boots, differs : BOOLEAN]
Rows == [phase : Phases, power : Powers, revision : 1..MaxRevision, gpu : BOOLEAN]
Routes == [status : {"unknown", "running", "stopped"}, started : Boots]
IntentRows ==
    [status : {"none", "pending", "succeeded"}, kind : {"change", "restart", "delete"},
     scan : BOOLEAN, target : 1..MaxRevision, baseline : Boots]
Instances == [exists : BOOLEAN, running : BOOLEAN, boot : Boots, gpu : BOOLEAN]
Ops == [kind : Operations, by : {"nobody", "pass", "scan"}, gpu : BOOLEAN]
Passes ==
    [at : PassSteps, slot : Slots, power : Powers, revision : 1..MaxRevision, gpu : BOOLEAN,
     state : States, then : PassSteps, result : Results]
Scans ==
    [at : ScanSteps, exists : BOOLEAN, running : BOOLEAN, gpu : BOOLEAN, due : BOOLEAN,
     then : ScanSteps]

\* TypeOK, with the names above.
Typed ==
    /\ row \in Rows /\ address \in {"none", "active", "releasing", "reusable"}
    /\ route \in Routes /\ intent \in [Slots -> IntentRows]
    /\ instance \in Instances /\ op \in Ops
    /\ pass \in Passes /\ scan \in Scans
    /\ sighting \in {"none", "fresh", "due"} /\ faults \in 0..MaxFaults

\* The two ways to write the type invariant say the same.
LEMMA TypesAgree == TypeOK <=> Typed
  BY DEF TypeOK, Typed, Powers, States, Rows, Routes, IntentRows, Instances, Ops, Passes, Scans

\* The same of the next state.
LEMMA TypesAgreeNext == TypeOK' <=> Typed'
  BY DEF TypeOK, Typed, Powers, States, Rows, Routes, IntentRows, Instances, Ops, Passes, Scans

\* The records that stand for nothing are of their types.
LEMMA Nothing ==
    /\ IdlePass \in Passes /\ IdlePass.at = "idle" /\ IdlePass.then = "idle"
    /\ IdleScan \in Scans /\ IdleScan.at = "idle" /\ IdleScan.then = "idle"
    /\ IdleScan.exists = FALSE
    /\ NoOp \in Ops /\ NoOp.kind = "none" /\ NoOp.by = "nobody"
    /\ NoState \in States
    /\ NoIntent \in IntentRows /\ NoIntent.status = "none"
  BY LifecycleConstants, SMTT(30)
     DEF IdlePass, IdleScan, NoOp, NoState, NoIntent, Passes, Scans, Ops, States, IntentRows,
         Powers, PassSteps, ScanSteps, Operations, Results, Slots, Boots

--------------------------------------------------------------------------------
(***************************************************************************)
(* The forms of a pass's steps                                              *)
(***************************************************************************)

\* A step that only moves the pass.
PassMoves ==
    /\ pass.at \in Working \cup Deleting
    /\ pass' \in Passes /\ pass'.then = pass.then
    /\ \/ pass'.at \in Deleting \cup {"decided"}
       \/ pass.at \in Working /\ pass'.at \in Working
       \/ pass.at = "delVerify" /\ pass'.at = "release" /\ ~instance.exists
    /\ UNCHANGED <<row, address, route, intent, instance, op, scan, sighting, faults>>

\* A request to Incus, answered or under way.
PassAsks ==
    /\ pass.at \in Working \cup Deleting
    /\ pass' \in Passes /\ op' \in Ops
    /\ \/ op' = op /\ pass'.at = "decided" /\ pass'.then = pass.then
       \/ /\ pass'.at = "wait" /\ pass'.then \in Working \cup Deleting
          /\ pass'.then \in Working => pass.at \in Working
          /\ op'.kind \in Starting => pass.at \in Working /\ instance.exists
    /\ UNCHANGED <<row, address, route, intent, instance, scan, sighting, faults>>


\* The two ways a pass goes on by itself.
LEMMA StepTypes ==
    ASSUME Typed, pass.at # "idle", NEW step \in Working \cup Deleting \cup Releasing,
           NEW result \in Results
    PROVE  /\ Goto(step) => pass' \in Passes /\ pass'.then = pass.then /\ pass'.at = step
           /\ Decide(result) => pass' \in Passes /\ pass'.then = pass.then /\ pass'.at = "decided"
<1>1. step \in PassSteps /\ "decided" \in PassSteps
  BY DEF Working, Deleting, Releasing, PassSteps
<1>. QED BY <1>1, Nothing DEF Typed, Goto, Decide, Passes

\* What a state read from the instance is.
LEMMA ReadStateType == ASSUME Typed PROVE ReadState \in States
  BY DEF Typed, ReadState, States, Instances

\* requestAndWait() from a step of the pass, for every operation it may ask for.
LEMMA RequestForm ==
    ASSUME Typed, RunningExists,
           NEW kind \in Operations \ {"none"}, NEW next \in Working \cup Deleting,
           pass.at \in Working \cup Deleting,
           next \in Working => pass.at \in Working,
           kind \in Starting => pass.at \in Working,
           Request(kind, next)
    PROVE  PassAsks
<1>0. pass.at # "idle" /\ UNCHANGED <<row, address, route, intent, instance, scan, sighting, faults>>
  BY DEF Working, Deleting, Request
<1>1. CASE (Decide("retry") \/ Decide("failed")) /\ UNCHANGED op
  <2>1. pass' \in Passes /\ pass'.then = pass.then /\ pass'.at = "decided"
    BY <1>0, <1>1, StepTypes DEF Results, Working
  <2>. QED BY <1>0, <1>1, <2>1 DEF PassAsks, Typed
<1>2. CASE /\ ~Refused(kind)
           /\ op' = [kind |-> kind, by |-> "pass", gpu |-> kind \in {"create", "put"} /\ pass.gpu]
           /\ pass' = [pass EXCEPT !.at = "wait", !.then = next]
  <2>1. op' \in Ops /\ op'.kind = kind
    <3>1. (kind \in {"create", "put"} /\ pass.gpu) \in BOOLEAN
      OBVIOUS
    <3>. QED BY <1>2, <3>1 DEF Ops
  <2>2. pass' \in Passes /\ pass'.at = "wait" /\ pass'.then = next
    <3>1. "wait" \in PassSteps /\ next \in PassSteps
      BY DEF PassSteps, Working, Deleting
    <3>. QED BY <1>2, <3>1 DEF Typed, Passes
  <2>3. kind \in Starting => instance.exists
    <3>1. CASE kind = "start"
      BY <1>2, <3>1 DEF Refused, Typed, Instances
    <3>2. CASE kind = "restart"
      BY <1>2, <3>2 DEF Refused, Typed, Instances, RunningExists
    <3>. QED BY <3>1, <3>2 DEF Starting
  <2>. QED BY <1>0, <2>1, <2>2, <2>3 DEF PassAsks
<1>. QED BY <1>1, <1>2 DEF Request

\* The steps that read and decide.
LEMMA MovesForm ==
    ASSUME CInv,
           \/ BeforeAttachments \/ EnsureInstance \/ Compare
           \/ Reread("restate", "put") \/ Reread("repower", AfterPower)
           \/ \E same \in Forms : RestartProof(same)
           \/ Verify \/ FindForDelete \/ VerifyAbsent
    PROVE  PassMoves
<1>. Typed
  BY TypesAgree DEF CInv
<1>0. pass.at \in Working \cup Deleting => pass.at # "idle"
  BY DEF Working, Deleting
<1>1. CASE BeforeAttachments
  <2>1. PICK step \in {"stopFirst", "ensure"} : Goto(step) /\ OnlyPass /\ pass.at = "before"
    BY <1>1 DEF BeforeAttachments
  <2>2. step \in Working /\ pass.at \in Working
    BY <2>1 DEF Working
  <2>. QED BY <1>0, <2>1, <2>2, StepTypes DEF PassMoves, OnlyPass, incus, Results
<1>2. CASE EnsureInstance
  <2>1. PICK step \in {"state", "create"} : Goto(step) /\ OnlyPass /\ pass.at = "ensure"
    BY <1>2 DEF EnsureInstance
  <2>2. step \in Working /\ pass.at \in Working
    BY <2>1 DEF Working
  <2>. QED BY <1>0, <2>1, <2>2, StepTypes DEF PassMoves, OnlyPass, incus, Results
<1>3. CASE Compare
  <2>0. pass.at = "state" /\ pass.at \in Working /\ pass.at # "idle" /\ OnlyPass
    BY <1>3 DEF Compare, Working
  <2>1. CASE Decide("failed")
    BY <2>0, <2>1, StepTypes DEF PassMoves, OnlyPass, incus, Results, Working
  <2>2. CASE ~Decide("failed")
    <3>1. PICK step \in {"disrupt", "put"} : pass' = [pass EXCEPT !.state = ReadState, !.at = step]
      BY <1>3, <2>2, Zenon DEF Compare
    <3>2. step \in Working /\ step \in PassSteps
      BY <3>1 DEF Working, PassSteps
    <3>3. pass' \in Passes /\ pass'.at = step /\ pass'.then = pass.then
      BY <3>1, <3>2, ReadStateType DEF Typed, Passes
    <3>. QED BY <2>0, <3>2, <3>3 DEF PassMoves, OnlyPass, incus
  <2>. QED BY <2>1, <2>2
<1>4. ASSUME NEW step \in {"restate", "repower"}, NEW next \in {"put", "restart", "verify"},
             Reread(step, next)
      PROVE  PassMoves
  <2>0. pass.at = step /\ pass.at \in Working /\ pass.at # "idle" /\ OnlyPass
    BY <1>4 DEF Reread, Working
  <2>1. CASE Decide("failed")
    BY <2>0, <2>1, StepTypes DEF PassMoves, OnlyPass, incus, Results, Working
  <2>2. CASE pass' = [pass EXCEPT !.state = [ReadState EXCEPT !.differs = pass.state.differs],
                                  !.at = next]
    <3>1. [ReadState EXCEPT !.differs = pass.state.differs] \in States
      BY ReadStateType DEF Typed, Passes, States
    <3>2. next \in Working /\ next \in PassSteps
      BY DEF Working, PassSteps
    <3>3. pass' \in Passes /\ pass'.at = next /\ pass'.then = pass.then
      BY <2>2, <3>1, <3>2 DEF Typed, Passes
    <3>. QED BY <2>0, <3>2, <3>3 DEF PassMoves, OnlyPass, incus
  <2>. QED BY <1>4, <2>1, <2>2 DEF Reread
<1>5. CASE Reread("restate", "put")
  BY <1>4, <1>5
<1>6. CASE Reread("repower", AfterPower)
  <2>1. AfterPower \in {"restart", "verify"}
    BY DEF AfterPower
  <2>. QED BY <1>4, <1>6, <2>1
<1>7. CASE \E same \in Forms : RestartProof(same)
  <2>0. pass.at = "proof" /\ pass.at \in Working /\ OnlyPass /\ (Goto("verify") \/ Decide("failed"))
    BY <1>7 DEF RestartProof, Working
  <2>. QED BY <1>0, <2>0, StepTypes DEF PassMoves, OnlyPass, incus, Results, Working
<1>8. CASE Verify
  <2>0. pass.at = "verify" /\ pass.at \in Working /\ pass.at # "idle" /\ OnlyPass
    BY <1>8 DEF Verify, Working
  <2>1. CASE Decide("failed")
    BY <2>0, <2>1, StepTypes DEF PassMoves, OnlyPass, incus, Results, Working
  <2>2. CASE pass' = [pass EXCEPT !.state = ReadState, !.at = "observe"]
    <3>1. "observe" \in Working /\ "observe" \in PassSteps
      BY DEF Working, PassSteps
    <3>2. pass' \in Passes /\ pass'.at = "observe" /\ pass'.then = pass.then
      BY <2>2, <3>1, ReadStateType DEF Typed, Passes
    <3>. QED BY <2>0, <3>1, <3>2 DEF PassMoves, OnlyPass, incus
  <2>. QED BY <1>8, <2>1, <2>2 DEF Verify
<1>9. CASE FindForDelete
  <2>1. PICK step \in {"delStop", "delVerify"} : Goto(step) /\ OnlyPass /\ pass.at = "delFind"
    BY <1>9 DEF FindForDelete
  <2>2. step \in Deleting /\ pass.at \in Deleting
    BY <2>1 DEF Deleting
  <2>. QED BY <1>0, <2>1, <2>2, StepTypes DEF PassMoves, OnlyPass, incus, Results
<1>10. CASE VerifyAbsent
  <2>0. pass.at = "delVerify" /\ OnlyPass
    BY <1>10 DEF VerifyAbsent
  <2>1. CASE Decide("failed")
    BY <2>0, <2>1, StepTypes DEF PassMoves, OnlyPass, incus, Results, Working, Deleting
  <2>2. CASE Goto("release") /\ ~instance.exists
    BY <2>0, <2>2, StepTypes DEF PassMoves, OnlyPass, incus, Results, Releasing, Deleting
  <2>. QED BY <1>10, <2>1, <2>2 DEF VerifyAbsent
<1>. QED BY <1>1, <1>2, <1>3, <1>5, <1>6, <1>7, <1>8, <1>9, <1>10

\* The steps that may ask Incus for something.
LEMMA AsksForm ==
    ASSUME CInv,
           \/ StopFirst \/ CreateInstance \/ Disrupt \/ Put \/ ReconcilePower
           \/ \E same \in Forms : ReconcileRestart(same)
           \/ StopForDelete \/ DeleteInstance
    PROVE  PassMoves \/ PassAsks
<1>. Typed /\ RunningExists
  BY TypesAgree DEF CInv
<1>. USE DEF Working, Deleting, Operations, Starting
<1>1. CASE StopFirst
  BY <1>1, RequestForm DEF StopFirst
<1>2. CASE CreateInstance
  BY <1>2, RequestForm DEF CreateInstance
<1>3. CASE Disrupt
  BY <1>3, RequestForm DEF Disrupt
<1>4. CASE Put
  <2>1. pass.at = "put"
    BY <1>4 DEF Put
  <2>2. CASE Request("put", "power")
    BY <2>1, <2>2, RequestForm
  <2>3. CASE (Decide("failed") \/ Goto("power")) /\ OnlyPass
    BY <2>1, <2>3, StepTypes DEF PassMoves, OnlyPass, incus, Results
  <2>. QED BY <1>4, <2>2, <2>3 DEF Put
<1>5. CASE ReconcilePower
  <2>1. pass.at = "power"
    BY <1>5 DEF ReconcilePower
  <2>2. CASE Request(Transition, "repower") /\ Transition # "none"
    <3>1. Transition \in {"start", "stop"}
      BY <2>2 DEF Transition
    <3>. QED BY <2>1, <2>2, <3>1, RequestForm
  <2>3. CASE Goto(AfterPower) /\ OnlyPass
    <3>1. AfterPower \in {"restart", "verify"}
      BY DEF AfterPower
    <3>. QED BY <2>1, <2>3, <3>1, StepTypes DEF PassMoves, OnlyPass, incus, Results
  <2>. QED BY <1>5, <2>2, <2>3 DEF ReconcilePower
<1>6. CASE \E same \in Forms : ReconcileRestart(same)
  <2>1. pass.at = "restart"
    BY <1>6 DEF ReconcileRestart
  <2>2. CASE Request("restart", "proof")
    BY <2>1, <2>2, RequestForm
  <2>3. CASE Goto("verify") /\ OnlyPass
    BY <2>1, <2>3, StepTypes DEF PassMoves, OnlyPass, incus, Results
  <2>. QED BY <1>6, <2>2, <2>3 DEF ReconcileRestart
<1>7. CASE StopForDelete
  <2>1. pass.at = "delStop"
    BY <1>7 DEF StopForDelete
  <2>2. CASE Request("stop", "delDelete")
    BY <2>1, <2>2, RequestForm
  <2>3. CASE (Decide("failed") \/ Goto("delDelete")) /\ OnlyPass
    BY <2>1, <2>3, StepTypes DEF PassMoves, OnlyPass, incus, Results
  <2>. QED BY <1>7, <2>2, <2>3 DEF StopForDelete
<1>8. CASE DeleteInstance
  BY <1>8, RequestForm DEF DeleteInstance
<1>. QED BY <1>1, <1>2, <1>3, <1>4, <1>5, <1>6, <1>7, <1>8

\* A move of the pass keeps the invariant: it comes to the release only where the
\* instance is not there, so that nothing runs and nothing is being started.
LEMMA MovesKeep == ASSUME CInv, PassMoves PROVE CInv'
<1>. Typed
  BY TypesAgree DEF CInv
<1>1. TypeOK'
  BY TypesAgreeNext DEF Typed, PassMoves
<1>2. RunningExists' /\ StartsExisting' /\ WaitsToGoOn' /\ OrphansAreDead'
  BY DEF CInv, PassMoves, RunningExists, StartsExisting, WaitsToGoOn, OrphansAreDead,
         Working, Deleting
<1>3. WorksOnActive'
  BY DEF CInv, PassMoves, WorksOnActive, Working, Deleting
<1>4. Quiet'
  BY DEF CInv, PassMoves, Quiet, GivenUp, RunningExists, StartsExisting, Working, Deleting, Releasing
<1>5. Untouched'
  BY DEF CInv, PassMoves, Untouched, Working, Deleting
<1>. QED BY <1>1, <1>2, <1>3, <1>4, <1>5 DEF CInv

\* A request keeps it: what is being started exists, and belongs to an active
\* address.
LEMMA AsksKeep == ASSUME CInv, PassAsks PROVE CInv'
<1>. Typed
  BY TypesAgree DEF CInv
<1>0. pass.at # "idle" /\ pass.at \notin Releasing
  BY DEF PassAsks, Working, Deleting, Releasing
<1>1. TypeOK'
  BY TypesAgreeNext DEF Typed, PassAsks
<1>2. RunningExists' /\ StartsExisting' /\ WaitsToGoOn' /\ OrphansAreDead'
  BY DEF CInv, PassAsks, RunningExists, StartsExisting, WaitsToGoOn, OrphansAreDead,
         Working, Deleting
<1>3. WorksOnActive'
  BY DEF CInv, PassAsks, WorksOnActive, Working, Deleting
<1>4. Quiet'
  <2>1. CASE op' = op /\ pass'.at = "decided"
    BY <2>1 DEF CInv, PassAsks, Quiet, GivenUp, Releasing
  <2>2. CASE pass'.at = "wait" /\ (op'.kind \in Starting => pass.at \in Working)
    BY <2>2 DEF CInv, PassAsks, Quiet, GivenUp, Releasing, WorksOnActive
  <2>. QED BY <2>1, <2>2 DEF PassAsks
<1>5. Untouched'
  BY <1>0 DEF CInv, PassAsks, Untouched
<1>. QED BY <1>1, <1>2, <1>3, <1>4, <1>5 DEF CInv

--------------------------------------------------------------------------------
(***************************************************************************)
(* The other steps of a pass                                                *)
(***************************************************************************)

\* load(): a pass works only on a container whose address is active.
LEMMA LoadKeeps == ASSUME CInv, NEW i \in Slots, Load(i) PROVE CInv'
<1>. Typed
  BY TypesAgree DEF CInv
<1>0. OnlyPass /\ row.phase # "none"
  BY DEF Load, CInv, Untouched
<1>1. LoadResult(i) \in Results /\ (LoadResult(i) = "none" => address = "active")
  BY DEF LoadResult, Results
<1>2. PICK step \in {"decided", "delFind", "before"} :
        /\ pass' = [IdlePass EXCEPT !.slot = i, !.power = row.power, !.revision = row.revision,
                                    !.gpu = row.gpu, !.result = LoadResult(i), !.at = step]
        /\ step = "before" => LoadResult(i) = "none"
  BY Zenon DEF Load
<1>3. step \in PassSteps
  BY DEF PassSteps
<1>4. pass' \in Passes /\ pass'.at = step /\ pass'.then = "idle"
  BY <1>1, <1>2, <1>3, Nothing DEF Typed, Passes, Rows
<1>5. TypeOK'
  BY <1>0, <1>4, TypesAgreeNext DEF Typed, OnlyPass, incus
<1>6. RunningExists' /\ StartsExisting' /\ WaitsToGoOn' /\ OrphansAreDead' /\ Untouched'
  BY <1>0, <1>4 DEF CInv, OnlyPass, incus, RunningExists, StartsExisting, WaitsToGoOn,
                    OrphansAreDead, Untouched
<1>7. WorksOnActive' /\ Quiet'
  BY <1>0, <1>1, <1>2, <1>4
     DEF CInv, OnlyPass, incus, WorksOnActive, Quiet, GivenUp, Working, Releasing
<1>. QED BY <1>5, <1>6, <1>7 DEF CInv

\* recordObservation(): the phase becomes active only where it was live.
LEMMA ObserveKeeps == ASSUME CInv, Observe PROVE CInv'
<1>. Typed
  BY TypesAgree DEF CInv
<1>0. /\ pass.at = "observe"
      /\ UNCHANGED <<address, intent, instance, op, scan, sighting, faults>>
  BY DEF Observe, incus
<1>1. pass' \in Passes /\ pass'.at = "decided" /\ pass'.then = pass.then
  BY <1>0, StepTypes DEF Observe, Results, Working
<1>2. row' \in Rows /\ row'.phase \in {row.phase, "active"} /\ (row'.phase # row.phase => Live)
  <2>1. CASE row' = row
    BY <2>1 DEF Typed
  <2>2. CASE row' = [row EXCEPT !.phase = "active"] /\ Live
    BY <2>2 DEF Typed, Rows, Phases
  <2>. QED BY <2>1, <2>2 DEF Observe
<1>3. route' \in Routes
  <2>1. pass.state.boot \in Boots /\ 0 \in Boots
    BY DEF Typed, Passes, States, Boots
  <2>. QED BY <2>1 DEF Observe, Routes
<1>4. TypeOK'
  BY <1>0, <1>1, <1>2, <1>3, TypesAgreeNext DEF Typed
<1>5. RunningExists' /\ StartsExisting' /\ WaitsToGoOn'
  BY <1>0, <1>1 DEF CInv, RunningExists, StartsExisting, WaitsToGoOn
<1>6. WorksOnActive' /\ Quiet'
  BY <1>0, <1>1 DEF CInv, WorksOnActive, Quiet, GivenUp, Working, Releasing
<1>7. Untouched' /\ OrphansAreDead'
  BY <1>0, <1>2 DEF CInv, Untouched, OrphansAreDead, Live
<1>. QED BY <1>4, <1>5, <1>6, <1>7 DEF CInv

\* releaseContainerState(), its first statement: the pass came here past
\* verifyAbsent(), so nothing runs.
LEMMA ReleaseKeeps == ASSUME CInv, ReleaseAddress PROVE CInv'
<1>. Typed
  BY TypesAgree DEF CInv
<1>0. /\ pass.at = "release" /\ address' \in {"releasing", address}
      /\ UNCHANGED <<row, route, intent, instance, op, scan, sighting, faults>>
      /\ row.phase # "none"
  BY DEF ReleaseAddress, incus, CInv, Untouched
<1>1. pass' \in Passes /\ pass'.at = "drop" /\ pass'.then = pass.then
  BY <1>0, StepTypes DEF ReleaseAddress, Results, Releasing
<1>2. TypeOK'
  BY <1>0, <1>1, TypesAgreeNext DEF Typed
<1>3. RunningExists' /\ StartsExisting' /\ WaitsToGoOn' /\ Untouched' /\ OrphansAreDead'
  BY <1>0, <1>1 DEF CInv, RunningExists, StartsExisting, WaitsToGoOn, Untouched, OrphansAreDead
<1>4. Quiet'
  BY <1>0, <1>1 DEF CInv, Quiet, GivenUp, Releasing
<1>5. WorksOnActive'
  <2>1. pass.then \notin Working
    BY <1>0 DEF CInv, WaitsToGoOn, Working
  <2>. QED BY <1>1, <2>1 DEF WorksOnActive, Working
<1>. QED BY <1>2, <1>3, <1>4, <1>5 DEF CInv

\* Its second statement.
LEMMA DropKeeps == ASSUME CInv, DropRow PROVE CInv'
<1>. Typed
  BY TypesAgree DEF CInv
<1>0. /\ pass.at = "drop" /\ pass.at # "idle"
      /\ UNCHANGED <<address, route, intent, instance, op, scan, sighting, faults>>
  BY DEF DropRow, incus
<1>1. pass' \in Passes /\ pass'.at = "decided" /\ pass'.then = pass.then
  BY <1>0, StepTypes DEF DropRow, Results, Working
<1>2. row' \in Rows /\ row'.phase = "gone"
  BY DEF DropRow, Typed, Rows, Phases
<1>3. TypeOK'
  BY <1>0, <1>1, <1>2, TypesAgreeNext DEF Typed
<1>4. RunningExists' /\ StartsExisting' /\ WaitsToGoOn' /\ Untouched' /\ OrphansAreDead'
  BY <1>0, <1>1, <1>2 DEF CInv, RunningExists, StartsExisting, WaitsToGoOn, Untouched, OrphansAreDead
<1>5. WorksOnActive' /\ Quiet'
  BY <1>0, <1>1 DEF CInv, WorksOnActive, Quiet, GivenUp, Working, Releasing
<1>. QED BY <1>3, <1>4, <1>5 DEF CInv

\* settleContainerIntent(): the pass is over, its intents are settled or kept.
LEMMA SettleKeeps == ASSUME CInv, Settle PROVE CInv'
<1>. Typed
  BY TypesAgree DEF CInv
<1>0. /\ pass.at = "decided" /\ pass' = IdlePass
      /\ UNCHANGED <<row, address, route, instance, op, scan, sighting, faults>>
      /\ row.phase # "none"
  BY DEF Settle, incus, CInv, Untouched
<1>1. ASSUME NEW i \in Slots, NEW revision, NEW succeeded \in BOOLEAN
      PROVE  Settled(i, revision, succeeded) \in IntentRows
  <2>1. Settled(i, revision, succeeded)
          \in {intent[i], NoIntent, [intent[i] EXCEPT !.status = "succeeded"]}
    BY DEF Settled, IsRestart
  <2>2. intent[i] \in IntentRows
    BY DEF Typed
  <2>3. [intent[i] EXCEPT !.status = "succeeded"] \in IntentRows
    BY <2>2 DEF IntentRows
  <2>. QED BY <2>1, <2>2, <2>3, Nothing
<1>2. intent' \in [Slots -> IntentRows]
  <2>1. CASE intent' = intent
    BY <2>1 DEF Typed
  <2>2. CASE intent' # intent
    <3>. DEFINE succeeded == pass.result \in {"success", "stale"}
                revision == IF pass.result = "success" THEN pass.revision
                            ELSE intent[pass.slot].target
    <3>1. intent' = [i \in Slots |-> Settled(i, revision, succeeded)]
      BY <2>2 DEF Settle
    <3>2. succeeded \in BOOLEAN
      OBVIOUS
    <3>. HIDE DEF succeeded, revision
    <3>. QED BY <1>1, <3>1, <3>2
  <2>. QED BY <2>1, <2>2
<1>3. TypeOK'
  BY <1>0, <1>2, Nothing, TypesAgreeNext DEF Typed
<1>4. RunningExists' /\ StartsExisting' /\ WaitsToGoOn' /\ Untouched' /\ OrphansAreDead'
  BY <1>0, Nothing DEF CInv, RunningExists, StartsExisting, WaitsToGoOn, Untouched, OrphansAreDead
<1>5. WorksOnActive' /\ Quiet'
  BY <1>0, Nothing DEF CInv, WorksOnActive, Quiet, GivenUp, Working, Releasing
<1>. QED BY <1>3, <1>4, <1>5 DEF CInv

--------------------------------------------------------------------------------
(***************************************************************************)
(* Requests                                                                 *)
(***************************************************************************)

\* A new intent is well-typed.
LEMMA NewIntentType ==
    ASSUME NEW kind \in {"change", "restart", "delete"}, NEW isScan \in BOOLEAN,
           NEW target \in 1..MaxRevision
    PROVE  NewIntent(kind, isScan, target) \in IntentRows
BY Nothing DEF NewIntent, IntentRows

\* A request writes the row and its intent; only admission takes the address, and
\* no request brings a container back.
Requested ==
    /\ row' \in Rows /\ intent' \in [Slots -> IntentRows]
    /\ row'.phase # "none"
    /\ row.phase \in {"deleting", "gone"} => row'.phase \in {"deleting", "gone"}
    /\ address' = address \/ (row.phase = "none" /\ address' = "active")
    /\ UNCHANGED <<route, instance, op, pass, scan, sighting, faults>>

\* Every request has this form.
LEMMA RequestsForm == ASSUME Typed, Requests PROVE Requested
<1>. PICK i \in Slots :
       \/ \E power \in {"running", "stopped"} : Create(i, power)
       \/ \E action \in {"start", "stop", "delete"} : Action(i, action)
       \/ Restart(i) \/ MutateGpus(i)
  BY DEF Requests
<1>0. row.revision < MaxRevision => row.revision + 1 \in 1..MaxRevision
  BY LifecycleConstants DEF Typed, Rows
<1>1. ASSUME NEW kind \in {"change", "restart", "delete"}, NEW target \in 1..MaxRevision
      PROVE  Created(i, kind, target) \in [Slots -> IntentRows]
  BY NewIntentType DEF Created, Typed
<1>2. CASE \E power \in {"running", "stopped"} : Create(i, power)
  <2>. PICK power \in {"running", "stopped"} : Create(i, power)
    BY <1>2
  <2>1. row' \in Rows /\ row'.phase = "provisioning" /\ row.phase = "none"
    BY DEF Create, Typed, Rows, Phases, Powers
  <2>2. intent' \in [Slots -> IntentRows]
    <3>1. 1 \in 1..MaxRevision
      BY LifecycleConstants
    <3>. QED BY <1>1, <3>1 DEF Create
  <2>. QED BY <2>1, <2>2 DEF Create, Requested, incus
<1>3. CASE \E action \in {"start", "stop", "delete"} : Action(i, action)
  <2>. PICK action \in {"start", "stop", "delete"} : Action(i, action)
    BY <1>3
  <2>0. row.revision + 1 \in 1..MaxRevision /\ row.phase \in {"provisioning", "active", "deleting"}
    BY <1>0 DEF Action, Live
  <2>1. PICK power \in Powers, phase \in {row.phase, "deleting"} :
          /\ row' = [row EXCEPT !.revision = @ + 1, !.power = power, !.phase = phase]
          /\ row.phase = "deleting" => phase = "deleting"
    BY Zenon DEF Action, Powers
  <2>2. phase \in Phases \ {"none"}
    BY <2>0, <2>1 DEF Phases
  <2>3. row' \in Rows /\ row'.phase = phase
    BY <2>0, <2>1, <2>2 DEF Typed, Rows
  <2>4. intent' \in [Slots -> IntentRows]
    BY <1>1, <2>0 DEF Action
  <2>. QED BY <2>0, <2>1, <2>2, <2>3, <2>4 DEF Action, Requested, incus
<1>4. CASE Restart(i)
  <2>0. row.revision + 1 \in 1..MaxRevision /\ row.phase \in {"provisioning", "active"}
    BY <1>0, <1>4 DEF Restart, Live
  <2>1. row' \in Rows /\ row'.phase = row.phase
    BY <1>4, <2>0 DEF Restart, Typed, Rows, Powers
  <2>2. intent' \in [Slots -> IntentRows]
    <3>1. Created(i, "restart", row.revision + 1) \in [Slots -> IntentRows]
      BY <1>1, <2>0
    <3>2. route.started \in Boots
      BY DEF Typed, Routes
    <3>. HIDE DEF Created
    <3>. QED BY <1>4, <3>1, <3>2 DEF Restart, IntentRows
  <2>. QED BY <1>4, <2>0, <2>1, <2>2 DEF Restart, Requested, incus
<1>5. CASE MutateGpus(i)
  <2>0. row.revision + 1 \in 1..MaxRevision /\ row.phase \in {"provisioning", "active"}
    BY <1>0, <1>5 DEF MutateGpus, Live
  <2>1. row' \in Rows /\ row'.phase = row.phase
    BY <1>5, <2>0 DEF MutateGpus, Typed, Rows
  <2>2. intent' \in [Slots -> IntentRows]
    BY <1>1, <1>5, <2>0 DEF MutateGpus
  <2>. QED BY <1>5, <2>0, <2>1, <2>2 DEF MutateGpus, Requested, incus
<1>. QED BY <1>2, <1>3, <1>4, <1>5

\* A request keeps the invariant.
LEMMA RequestsKeep == ASSUME CInv, Requests PROVE CInv'
<1>. Typed
  BY TypesAgree DEF CInv
<1>0. Requested
  BY RequestsForm
<1>1. TypeOK'
  BY <1>0, TypesAgreeNext DEF Typed, Requested
<1>2. RunningExists' /\ StartsExisting' /\ WaitsToGoOn' /\ Untouched' /\ OrphansAreDead'
  BY <1>0 DEF CInv, Requested, RunningExists, StartsExisting, WaitsToGoOn, Untouched,
              OrphansAreDead
<1>3. WorksOnActive' /\ Quiet'
  BY <1>0 DEF CInv, Requested, WorksOnActive, Quiet, GivenUp, Working, Releasing, Untouched
<1>. QED BY <1>1, <1>2, <1>3 DEF CInv

--------------------------------------------------------------------------------
(***************************************************************************)
(* The full scan                                                            *)
(***************************************************************************)

\* A step of the scan: it works on orphans only where no live container was read,
\* and asks Incus only to stop and to delete them.
ScanForm ==
    /\ scan' \in Scans /\ op' \in Ops
    /\ intent' \in [Slots -> IntentRows] /\ sighting' \in {"none", "fresh", "due"}
    /\ \/ scan'.at \in OrphanSteps
       \/ scan'.then \in OrphanSteps
       => row.phase \in {"deleting", "gone"}
    /\ scan'.exists => instance.exists \/ scan.exists
    /\ \/ op' = op
       \/ op'.kind \in {"stop", "delete"} /\ row.phase \in {"deleting", "gone"}
    /\ row.phase = "none" => intent' = intent
    /\ UNCHANGED <<row, address, route, instance, pass, faults>>

\* A request of the scan, made for an orphan.
LEMMA ScanRequestForm ==
    ASSUME Typed, NEW kind \in {"stop", "delete"}, NEW next \in ScanSteps,
           row.phase \in {"deleting", "gone"}, ScanRequest(kind, next)
    PROVE  ScanForm
<1>0. UNCHANGED <<row, address, route, intent, instance, pass, sighting, faults>>
  BY DEF ScanRequest
<1>1. CASE scan' = IdleScan /\ UNCHANGED op
  BY <1>0, <1>1, Nothing DEF ScanForm, Typed, OrphanSteps
<1>2. CASE /\ op' = [kind |-> kind, by |-> "scan", gpu |-> FALSE]
           /\ scan' = [scan EXCEPT !.at = "wait", !.then = next]
  <2>1. op' \in Ops /\ op'.kind = kind
    BY <1>2 DEF Ops, Operations
  <2>2. scan' \in Scans /\ scan'.exists = scan.exists
    <3>1. "wait" \in ScanSteps
      BY DEF ScanSteps
    <3>. QED BY <1>2, <3>1 DEF Typed, Scans
  <2>. QED BY <1>0, <2>1, <2>2 DEF ScanForm, Typed
<1>. QED BY <1>1, <1>2 DEF ScanRequest

\* Every step of the scan has this form.
LEMMA ScanStepForm == ASSUME CInv, ScanStep PROVE ScanForm
<1>. Typed
  BY TypesAgree DEF CInv
<1>1. CASE ScanInstances
  <2>1. "listed" \in ScanSteps
    BY DEF ScanSteps
  <2>2. scan' \in Scans /\ scan'.at = "listed" /\ scan'.then = "idle" /\ scan'.exists = instance.exists
    BY <1>1, <2>1, Nothing DEF ScanInstances, Typed, Scans, Instances
  <2>. QED BY <1>1, <2>2 DEF ScanInstances, OnlyScan, incus, ScanForm, Typed, OrphanSteps
<1>2. CASE ScanRows
  <2>0. UNCHANGED <<row, address, route, instance, op, pass, faults>>
    BY <1>2 DEF ScanRows, incus
  <2>1. ASSUME NEW orphan PROVE Sight(orphan) \in {"none", "fresh", "due"}
    BY DEF Sight, Typed
  <2>2. sighting' \in {"none", "fresh", "due"}
    BY <1>2, <2>1 DEF ScanRows
  <2>3. PICK kind \in {"delete", "change"} :
          intent' = [i \in Slots |-> IF ScanIntent(i) THEN NewIntent(kind, TRUE, ScanTarget)
                                     ELSE intent[i]]
    BY <1>2 DEF ScanRows
  <2>4. intent' \in [Slots -> IntentRows]
    <3>1. ScanTarget \in 1..MaxRevision
      BY DEF ScanTarget, Typed, Rows
    <3>2. NewIntent(kind, TRUE, ScanTarget) \in IntentRows
      BY <3>1, NewIntentType
    <3>. QED BY <2>3, <3>2 DEF Typed
  <2>5. row.phase = "none" => intent' = intent
    <3>1. row.phase = "none" => \A i \in Slots : ~ScanIntent(i)
      BY DEF ScanIntent, NeedsIntent, Known
    <3>. QED BY <2>3, <3>1 DEF Typed
  <2>6. CASE scan' = IdleScan
    BY <2>0, <2>2, <2>4, <2>5, <2>6, Nothing DEF ScanForm, Typed, OrphanSteps
  <2>7. CASE scan' # IdleScan
    <3>1. scan.exists /\ ~Known
      BY <1>2, <2>7 DEF ScanRows
    <3>2. PICK due \in BOOLEAN : scan' = [IdleScan EXCEPT !.at = "orphan", !.due = due]
      BY <1>2, <2>7, Zenon DEF ScanRows
    <3>3. scan' \in Scans /\ scan'.exists = FALSE
      <4>1. "orphan" \in ScanSteps
        BY DEF ScanSteps
      <4>. QED BY <3>2, <4>1, Nothing DEF Scans
    <3>4. row.phase \in {"deleting", "gone"}
      <4>1. row.phase # "none"
        BY <3>1 DEF CInv, Untouched
      <4>. QED BY <3>1, <4>1 DEF Known, Typed, Rows, Phases
    <3>. QED BY <2>0, <2>2, <2>4, <2>5, <3>3, <3>4 DEF ScanForm, Typed
  <2>. QED BY <2>6, <2>7
<1>3. CASE OrphanStop
  <2>0. row.phase \in {"deleting", "gone"}
    BY <1>3 DEF OrphanStop, CInv, OrphansAreDead, OrphanSteps
  <2>1. PICK next \in {"orphanDelete", "idle"} :
          \/ ScanRequest("stop", next)
          \/ /\ scan' = [scan EXCEPT !.at = next] \/ scan' = IdleScan
             /\ OnlyScan
    BY <1>3 DEF OrphanStop
  <2>2. next \in ScanSteps
    BY DEF ScanSteps
  <2>3. CASE ScanRequest("stop", next)
    BY <2>0, <2>2, <2>3, ScanRequestForm
  <2>4. CASE scan' = [scan EXCEPT !.at = next] /\ OnlyScan
    <3>1. scan' \in Scans /\ scan'.exists = scan.exists
      BY <2>2, <2>4 DEF Typed, Scans
    <3>. QED BY <2>0, <2>4, <3>1 DEF ScanForm, OnlyScan, incus, Typed
  <2>5. CASE scan' = IdleScan /\ OnlyScan
    BY <2>5, Nothing DEF ScanForm, OnlyScan, incus, Typed, OrphanSteps
  <2>. QED BY <2>1, <2>3, <2>4, <2>5
<1>4. CASE OrphanDelete
  <2>0. row.phase \in {"deleting", "gone"}
    BY <1>4 DEF OrphanDelete, CInv, OrphansAreDead, OrphanSteps
  <2>. QED BY <1>4, <2>0, ScanRequestForm DEF OrphanDelete, ScanSteps
<1>5. CASE OrphanForget
  <2>1. sighting' \in {"none", "fresh", "due"}
    BY <1>5 DEF OrphanForget, Typed
  <2>. QED BY <1>5, <2>1, Nothing DEF OrphanForget, incus, ScanForm, Typed, OrphanSteps
<1>. QED BY <1>1, <1>2, <1>3, <1>4, <1>5 DEF ScanStep

\* A step of the scan keeps the invariant.
LEMMA ScanKeeps == ASSUME CInv, ScanStep PROVE CInv'
<1>. Typed
  BY TypesAgree DEF CInv
<1>0. ScanForm
  BY ScanStepForm
<1>1. TypeOK'
  BY <1>0, TypesAgreeNext DEF Typed, ScanForm
<1>2. RunningExists' /\ StartsExisting' /\ WaitsToGoOn' /\ WorksOnActive' /\ OrphansAreDead'
  BY <1>0 DEF CInv, ScanForm, RunningExists, StartsExisting, WaitsToGoOn, WorksOnActive,
              OrphansAreDead, Starting
<1>3. Quiet'
  BY <1>0 DEF CInv, ScanForm, Quiet, GivenUp, Starting
<1>4. Untouched'
  BY <1>0 DEF CInv, ScanForm, Untouched, Pending, Typed, Scans, Instances
<1>. QED BY <1>1, <1>2, <1>3, <1>4 DEF CInv

--------------------------------------------------------------------------------
(***************************************************************************)
(* Operations end, time passes, things go wrong                             *)
(***************************************************************************)

\* The waiter goes on, or gets an error.  An answer is no way to the release, and
\* leads a pass to work only if it was at work.
Answered ==
    /\ pass' \in Passes /\ scan' \in Scans
    /\ \/ pass' = pass
       \/ pass'.then = "idle" /\ pass'.at \in {"decided", "idle", pass.then}
    /\ scan'.exists => scan.exists
    /\ \/ scan'.at = scan.at /\ scan'.then = scan.then
       \/ scan'.then = "idle" /\ scan'.at \in {"idle", scan.then}

\* Both answers have this form.
LEMMA AnswersForm ==
    ASSUME Typed, NEW result \in Results
    PROVE  /\ ResumeWaiter => Answered
           /\ FailWaiter(result) => Answered
<1>0. "idle" \in PassSteps /\ "decided" \in PassSteps /\ "idle" \in ScanSteps
  BY DEF PassSteps, ScanSteps
<1>1. [pass EXCEPT !.at = pass.then, !.then = "idle"] \in Passes
  BY <1>0 DEF Typed, Passes
<1>2. [scan EXCEPT !.at = scan.then, !.then = "idle"] \in Scans
  BY <1>0 DEF Typed, Scans
<1>3. [pass EXCEPT !.at = "decided", !.result = result, !.then = "idle", !.state = NoState] \in Passes
  BY <1>0, Nothing DEF Typed, Passes
<1>4. ASSUME ResumeWaiter PROVE Answered
  <2>1. /\ pass' \in Passes
        /\ pass' = pass \/ (pass'.then = "idle" /\ pass'.at = pass.then)
    BY <1>1, <1>4 DEF ResumeWaiter, Typed, Passes
  <2>2. \/ scan' = IdleScan \/ scan' = scan
        \/ scan' = [scan EXCEPT !.at = scan.then, !.then = "idle"]
    BY <1>4, Zenon DEF ResumeWaiter
  <2>3. /\ scan' \in Scans /\ (scan'.exists => scan.exists)
        /\ \/ scan'.at = scan.at /\ scan'.then = scan.then
           \/ scan'.then = "idle" /\ scan'.at \in {"idle", scan.then}
    BY <1>2, <2>2, Nothing DEF Typed, Scans
  <2>. QED BY <2>1, <2>3 DEF Answered
<1>5. ASSUME FailWaiter(result) PROVE Answered
  <2>1. /\ pass' \in Passes
        /\ pass' = pass \/ (pass'.then = "idle" /\ pass'.at = "decided")
    BY <1>3, <1>5 DEF FailWaiter, Typed, Passes
  <2>2. scan' = IdleScan \/ scan' = scan
    BY <1>5 DEF FailWaiter
  <2>3. /\ scan' \in Scans /\ (scan'.exists => scan.exists)
        /\ \/ scan'.at = scan.at /\ scan'.then = scan.then
           \/ scan'.then = "idle" /\ scan'.at \in {"idle", scan.then}
    BY <2>2, Nothing DEF Typed, Scans
  <2>. QED BY <2>1, <2>3 DEF Answered
<1>. QED BY <1>4, <1>5

\* What changes of the instance and its operation besides: nothing starts that was
\* not being started or running, nothing that runs goes away unnoticed.
Settles ==
    /\ instance' \in Instances /\ op' \in Ops /\ faults' \in 0..MaxFaults
    /\ op'.kind \in {op.kind, "none"}
    /\ op'.by = "scan" => op.by = "scan"
    /\ op'.kind \in Starting => instance'.exists = instance.exists
    /\ instance'.running => instance'.exists
    /\ instance'.running => instance.running \/ op.kind \in Starting
    /\ row.phase # "none" \/ (instance'.exists => instance.exists)
    /\ op'.by \in {op.by, "nobody"}
    /\ UNCHANGED <<row, address, route, intent, sighting>>

\* Such a step keeps the invariant.
LEMMA SettlesKeep ==
    ASSUME CInv, Settles, Answered, row.phase = "none" => pass'.at = "idle"
    PROVE  CInv'
<1>. Typed
  BY TypesAgree DEF CInv
<1>1. TypeOK'
  BY TypesAgreeNext DEF Typed, Settles, Answered
<1>2. RunningExists' /\ StartsExisting'
  BY DEF CInv, Settles, RunningExists, StartsExisting, Starting
<1>3. WaitsToGoOn' /\ WorksOnActive'
  BY DEF CInv, Settles, Answered, WaitsToGoOn, WorksOnActive, Working, Deleting
<1>4. Quiet'
  <2>1. pass'.at \in Releasing => pass.at \in Releasing
    BY DEF CInv, Answered, WaitsToGoOn, Working, Deleting, Releasing
  <2>. QED BY <2>1 DEF CInv, Settles, Quiet, GivenUp, Starting
<1>5. Untouched'
  BY DEF CInv, Settles, Answered, Untouched, Pending, Typed, Instances, Scans
<1>6. OrphansAreDead'
  BY DEF CInv, Settles, Answered, OrphansAreDead, OrphanSteps
<1>. QED BY <1>1, <1>2, <1>3, <1>4, <1>5, <1>6 DEF CInv

\* What an operation leaves behind: a create leaves an instance that does not run.
LEMMA EffectIs ==
    ASSUME Typed, RunningExists, StartsExisting, IsBusy
    PROVE  /\ Effect(op) \in Instances
           /\ Effect(op).running => Effect(op).exists
           /\ Effect(op).running => instance.running \/ op.kind \in Starting
<1>0. /\ instance.boot + 1 \in Boots /\ op.gpu \in BOOLEAN
      /\ instance.exists \in BOOLEAN /\ instance.running \in BOOLEAN
  BY DEF Typed, Instances, Ops, Boots
<1>1. CASE op.kind = "create"
  <2>1. Effect(op) = [instance EXCEPT !.exists = TRUE, !.gpu = op.gpu, !.running = FALSE]
    BY <1>1, Zenon DEF Effect, CreateStarts
  <2>. QED BY <1>0, <2>1 DEF Typed, Instances
<1>2. CASE op.kind \in {"start", "restart"}
  <2>1. Effect(op) = [instance EXCEPT !.running = TRUE, !.boot = @ + 1]
    BY <1>2 DEF Effect
  <2>. QED BY <1>0, <1>2, <2>1 DEF Typed, Instances, StartsExisting, Starting
<1>3. CASE op.kind = "stop"
  <2>1. Effect(op) = [instance EXCEPT !.running = FALSE]
    BY <1>3 DEF Effect
  <2>. QED BY <1>0, <2>1 DEF Typed, Instances
<1>4. CASE op.kind = "put"
  <2>1. Effect(op) = [instance EXCEPT !.gpu = op.gpu]
    BY <1>4 DEF Effect
  <2>. QED BY <1>0, <2>1 DEF Typed, Instances, RunningExists
<1>5. CASE op.kind = "delete"
  <2>1. Effect(op) = [instance EXCEPT !.exists = FALSE, !.running = FALSE]
    BY <1>5 DEF Effect
  <2>. QED BY <1>0, <2>1 DEF Typed, Instances
<1>. QED BY <1>1, <1>2, <1>3, <1>4, <1>5 DEF IsBusy, Typed, Ops, Operations

\* The operation ends, fails, is no longer waited for, or the process ends.
LEMMA ServerKeeps ==
    ASSUME CInv,
           \/ OpEnds \/ OpFails \/ Crash
           \/ \E same \in Forms : WaitTimesOut(same)
           \/ \E reboots \in BOOLEAN : GuestChanges(reboots)
    PROVE  CInv'
<1>. Typed /\ RunningExists /\ StartsExisting
  BY TypesAgree DEF CInv
<1>0. faults < MaxFaults => faults + 1 \in 0..MaxFaults
  BY LifecycleConstants DEF Typed
<1>1. CASE OpEnds
  <2>0. row.phase # "none"
    BY <1>1 DEF OpEnds, IsBusy, CInv, Untouched
  <2>1. Answered
    BY <1>1, AnswersForm DEF OpEnds, Results
  <2>2. Settles
    BY <1>1, <2>0, EffectIs, Nothing DEF OpEnds, Settles, Typed, Starting
  <2>. QED BY <2>0, <2>1, <2>2, SettlesKeep
<1>2. CASE OpFails
  <2>0. row.phase # "none"
    BY <1>2 DEF OpFails, IsBusy, CInv, Untouched
  <2>1. Answered
    BY <1>2, AnswersForm DEF OpFails, Results
  <2>2. Settles
    BY <1>0, <1>2, <2>0, Nothing DEF OpFails, Settles, Typed, Starting, RunningExists
  <2>. QED BY <2>0, <2>1, <2>2, SettlesKeep
<1>3. ASSUME op' = [op EXCEPT !.by = "nobody"]
      PROVE  op' \in Ops /\ op'.kind = op.kind /\ op'.by = "nobody"
  BY <1>3 DEF Typed, Ops
<1>4. CASE \E same \in Forms : WaitTimesOut(same)
  <2>0. row.phase # "none"
    BY <1>4 DEF WaitTimesOut, CInv, Untouched
  <2>1. Answered
    BY <1>4, AnswersForm DEF WaitTimesOut, Results
  <2>2. Settles
    BY <1>0, <1>3, <1>4 DEF WaitTimesOut, Settles, Typed, RunningExists
  <2>. QED BY <2>0, <2>1, <2>2, SettlesKeep
<1>5. CASE Crash
  <2>1. Answered /\ pass'.at = "idle"
    BY <1>5, Nothing DEF Crash, Answered
  <2>2. Settles
    BY <1>0, <1>3, <1>5 DEF Crash, Settles, Typed, RunningExists
  <2>. QED BY <2>1, <2>2, SettlesKeep
<1>6. CASE \E reboots \in BOOLEAN : GuestChanges(reboots)
  <2>0. row.phase # "none"
    BY <1>6 DEF GuestChanges, CInv, Untouched, RunningExists
  <2>1. Answered
    BY <1>6 DEF GuestChanges, Answered, Typed
  <2>2. instance' \in Instances /\ instance'.exists = instance.exists /\ instance.running
    <3>1. [instance EXCEPT !.boot = @ + 1] \in Instances
      BY DEF Typed, Instances, Boots
    <3>2. [instance EXCEPT !.running = FALSE] \in Instances
      BY DEF Typed, Instances
    <3>3. \/ instance' = [instance EXCEPT !.boot = @ + 1]
          \/ instance' = [instance EXCEPT !.running = FALSE]
      BY <1>6, Zenon DEF GuestChanges
    <3>4. instance'.exists = instance.exists
      BY <3>3 DEF Typed, Instances
    <3>. QED BY <1>6, <3>1, <3>2, <3>3, <3>4 DEF GuestChanges
  <2>3. Settles
    BY <1>0, <1>6, <2>0, <2>2 DEF GuestChanges, Settles, Typed, RunningExists
  <2>. QED BY <2>0, <2>1, <2>3, SettlesKeep
<1>. QED BY <1>1, <1>2, <1>4, <1>5, <1>6

\* Delays end.
LEMMA TimeKeeps == ASSUME CInv, AddressReusable \/ QuarantineEnds PROVE CInv'
<1>. Typed
  BY TypesAgree DEF CInv
<1>1. CASE AddressReusable
  <2>1. TypeOK'
    BY <1>1, TypesAgreeNext DEF Typed, AddressReusable, incus
  <2>. QED BY <1>1, <2>1 DEF AddressReusable, incus, CInv, RunningExists, StartsExisting,
       WaitsToGoOn, WorksOnActive, Quiet, GivenUp, Untouched, OrphansAreDead, Pending
<1>2. CASE QuarantineEnds
  <2>1. TypeOK'
    BY <1>2, TypesAgreeNext DEF Typed, QuarantineEnds, incus
  <2>. QED BY <1>2, <2>1 DEF QuarantineEnds, incus, CInv, RunningExists, StartsExisting,
       WaitsToGoOn, WorksOnActive, Quiet, GivenUp, Untouched, OrphansAreDead, Pending
<1>. QED BY <1>1, <1>2

--------------------------------------------------------------------------------
(***************************************************************************)
(* The theorems                                                             *)
(***************************************************************************)

\* Nothing exists at first.
LEMMA InitHolds == Init => CInv
<1>. SUFFICES ASSUME Init PROVE CInv
  OBVIOUS
<1>1. Typed
  <2>1. row \in Rows /\ route \in Routes /\ instance \in Instances
    BY LifecycleConstants DEF Init, Rows, Routes, Instances, Phases, Powers, Boots
  <2>2. intent \in [Slots -> IntentRows]
    BY Nothing DEF Init
  <2>3. faults \in 0..MaxFaults
    BY LifecycleConstants DEF Init
  <2>. QED BY <2>1, <2>2, <2>3, Nothing DEF Init, Typed
<1>2. TypeOK
  BY <1>1, TypesAgree
<1>3. /\ ~instance.running /\ ~instance.exists /\ row.phase = "none"
      /\ \A i \in Slots : ~Pending(i)
  BY Nothing DEF Init, Pending
<1>. QED BY <1>2, <1>3, Nothing
     DEF Init, CInv, RunningExists, StartsExisting, WaitsToGoOn, WorksOnActive, Quiet, GivenUp,
         Untouched, OrphansAreDead, OrphanSteps, Working, Deleting, Releasing, Starting

\* Every step keeps the invariant.
LEMMA StepKeeps == CInv /\ [Next]_vars => CInv'
<1>. SUFFICES ASSUME CInv, [Next]_vars PROVE CInv'
  OBVIOUS
<1>1. CASE UNCHANGED vars
  <2>1. TypeOK'
    BY <1>1, TypesAgree, TypesAgreeNext DEF CInv, Typed, vars
  <2>. QED BY <1>1, <2>1 DEF vars, CInv, RunningExists, StartsExisting, WaitsToGoOn,
       WorksOnActive, Quiet, GivenUp, Untouched, OrphansAreDead, Pending
<1>2. CASE Requests
  BY <1>2, RequestsKeep
<1>3. CASE \E i \in Slots : Load(i)
  BY <1>3, LoadKeeps
<1>4. CASE PassStep
  <2>1. CASE \/ BeforeAttachments \/ EnsureInstance \/ Compare
             \/ Reread("restate", "put") \/ Reread("repower", AfterPower)
             \/ \E same \in Forms : RestartProof(same)
             \/ Verify \/ FindForDelete \/ VerifyAbsent
    BY <2>1, MovesForm, MovesKeep
  <2>2. CASE \/ StopFirst \/ CreateInstance \/ Disrupt \/ Put \/ ReconcilePower
             \/ \E same \in Forms : ReconcileRestart(same)
             \/ StopForDelete \/ DeleteInstance
    BY <2>2, AsksForm, MovesKeep, AsksKeep
  <2>3. CASE Observe \/ ReleaseAddress \/ DropRow \/ Settle
    BY <2>3, ObserveKeeps, ReleaseKeeps, DropKeeps, SettleKeeps
  <2>. QED BY <1>4, <2>1, <2>2, <2>3, Zenon DEF PassStep
<1>5. CASE ScanStep
  BY <1>5, ScanKeeps
<1>6. CASE \/ OpEnds \/ OpFails \/ Crash
           \/ \E same \in Forms : WaitTimesOut(same)
           \/ \E reboots \in BOOLEAN : GuestChanges(reboots)
  BY <1>6, ServerKeeps
<1>7. CASE AddressReusable \/ QuarantineEnds
  BY <1>7, TimeKeeps
<1>. QED BY <1>1, <1>2, <1>3, <1>4, <1>5, <1>6, <1>7, Zenon DEF Next

\* The inductive invariant holds throughout.
THEOREM Inductive == Spec => []CInv
BY InitHolds, StepKeeps, PTL DEF Spec

\* The container's claim: well-typed states, and an address that is releasing or
\* reusable is never that of a running instance, whatever late operations end.
THEOREM AddressIsGivenBackDown == Spec => []AddressIsSafe
<1>1. CInv => AddressIsSafe
  BY DEF CInv, AddressIsSafe, AddressNotShared, Quiet, GivenUp
<1>. QED BY <1>1, Inductive, PTL

\* The full scan starts a stop or a delete only on the instance of a container that
\* is deleting or gone, although it listed the instances before it read the rows.
THEOREM ScanSparesTheLiving == Spec => ScanSparesLive
<1>1. CInv /\ [Next]_vars => [op.by # "scan" /\ op'.by = "scan" => ~Live]_vars
  <2>. SUFFICES ASSUME CInv, Next, op.by # "scan", op'.by = "scan" PROVE ~Live
    BY DEF vars
  <2>. Typed
    BY TypesAgree DEF CInv
  <2>1. CASE ScanStep
    <3>1. op' # op
      OBVIOUS
    <3>. QED BY <2>1, <3>1, ScanStepForm DEF ScanForm, Live
  <2>2. CASE PassStep
    <3>1. op' = op \/ op'.by = "pass"
      BY <2>2 DEF PassStep, BeforeAttachments, EnsureInstance, Compare, Reread, RestartProof,
         Verify, FindForDelete, VerifyAbsent, StopFirst, CreateInstance, Disrupt, Put,
         ReconcilePower, ReconcileRestart, StopForDelete, DeleteInstance, Request, OnlyPass,
         Observe, ReleaseAddress, DropRow, Settle, incus
    <3>. QED BY <3>1
  <2>3. CASE Requests
    BY <2>3, RequestsForm DEF Requested
  <2>4. CASE \E i \in Slots : Load(i)
    BY <2>4 DEF Load, OnlyPass, incus
  <2>5. CASE OpEnds \/ OpFails
    BY <2>5, Nothing DEF OpEnds, OpFails
  <2>6. CASE Crash \/ \E same \in Forms : WaitTimesOut(same)
    <3>1. op' = [op EXCEPT !.by = "nobody"]
      BY <2>6 DEF Crash, WaitTimesOut
    <3>. QED BY <3>1 DEF Typed, Ops
  <2>7. CASE \/ AddressReusable \/ QuarantineEnds
             \/ \E reboots \in BOOLEAN : GuestChanges(reboots)
    BY <2>7 DEF AddressReusable, QuarantineEnds, GuestChanges, incus
  <2>. QED BY <2>1, <2>2, <2>3, <2>4, <2>5, <2>6, <2>7, Zenon DEF Next
<1>. QED BY <1>1, Inductive, PTL DEF Spec, ScanSparesLive

================================================================================
