------------------------- MODULE ReconcileIntentsProofs -------------------------
(***************************************************************************)
(* Proofs about ReconcileIntents, for every number of processes, intents,     *)
(* revisions, faults, crashes and stalls.                                     *)
(***************************************************************************)
EXTENDS ReconcileIntents, TLAPS

--------------------------------------------------------------------------------
(***************************************************************************)
(* Type correctness                                                         *)
(***************************************************************************)

Passes == [at : Steps, id : Ids, revision : Revisions, result : Results]
Intents == [status : Statuses, target : Revisions, despite : BOOLEAN,
            scan : BOOLEAN, waiting : BOOLEAN, busy : 0..BusyLimit]
Rows == [revision : Revisions, observed : 0..MaxRevision, attention : BOOLEAN, failure : BOOLEAN]

\* The constant records, and the changes a step makes to a table row.
LEMMA RecordTypes ==
    /\ Idle \in Passes /\ NoIntent \in Intents
    /\ \A r \in Revisions, d, s \in BOOLEAN :
          [NoIntent EXCEPT !.status = "pending", !.target = r, !.despite = d, !.scan = s] \in Intents
    /\ \A i \in Ids : [Idle EXCEPT !.at = "listed", !.id = i] \in Passes
<1>1. Idle \in Passes
  BY IntentConstants DEF Idle, Passes, Steps, Results, Ids, Revisions
<1>2. NoIntent \in Intents
  BY IntentConstants DEF NoIntent, Intents, Statuses, Revisions
<1>3. \A r \in Revisions, d, s \in BOOLEAN :
         [NoIntent EXCEPT !.status = "pending", !.target = r, !.despite = d, !.scan = s] \in Intents
  BY <1>2 DEF Intents, Statuses
<1>4. \A i \in Ids : [Idle EXCEPT !.at = "listed", !.id = i] \in Passes
  BY <1>1 DEF Passes, Steps
<1>. QED BY <1>1, <1>2, <1>3, <1>4

\* A new or swept intent is an intent.
LEMMA IntentTypes ==
    ASSUME TypeOK
    PROVE  /\ \A i \in Ids, r \in Revisions, d, s \in BOOLEAN :
                 Created(i, r, d, s) \in [Ids -> Intents]
           /\ \A r \in Revisions, st \in Statuses : Settled(r, st) \in [Ids -> Intents]
<1>0. intent \in [Ids -> Intents]
  BY DEF TypeOK, Intents
<1>1. \A i \in Ids, r \in Revisions, d, s \in BOOLEAN : Created(i, r, d, s) \in [Ids -> Intents]
  BY <1>0, RecordTypes DEF Created
<1>2. \A r \in Revisions, st \in Statuses : Settled(r, st) \in [Ids -> Intents]
  BY <1>0 DEF Settled, Intents
<1>. QED BY <1>1, <1>2

\* The end of a pass.
LEMMA EndPassType ==
    ASSUME TypeOK, NEW w \in Workers, EndPass(w)
    PROVE  /\ pass' \in [Workers -> Passes]
           /\ claim' \in Workers \cup {Nobody}
           /\ lost' \in SUBSET Workers
BY RecordTypes DEF EndPass, TypeOK, Passes

\* No request, pass, crash or stall leaves the types.
LEMMA TypeStep == ASSUME TypeOK, [Next]_vars PROVE TypeOK'
<1>0. /\ row \in Rows /\ intent \in [Ids -> Intents] /\ pass \in [Workers -> Passes]
      /\ TypeOK' = (/\ row' \in Rows /\ instance' \in 0..MaxRevision /\ verified' \subseteq Revisions
                    /\ intent' \in [Ids -> Intents] /\ claim' \in Workers \cup {Nobody}
                    /\ lost' \in SUBSET Workers /\ pass' \in [Workers -> Passes]
                    /\ faults' \in 0..MaxFaults /\ crashes' \in 0..MaxCrashes
                    /\ stalls' \in 0..MaxStalls)
  BY DEF TypeOK, Rows, Intents, Passes
<1>v. "pending" \in Statuses /\ "succeeded" \in Statuses /\ "failed" \in Statuses /\ "pruned" \in Statuses
  BY DEF Statuses
<1>s. /\ "checked" \in Steps /\ "claimed" \in Steps /\ "loaded" \in Steps /\ "applied" \in Steps
      /\ "verified" \in Steps /\ "decided" \in Steps /\ "marked" \in Steps
  BY DEF Steps
<1>r. /\ "stale" \in Results /\ "success" \in Results /\ "retry" \in Results
      /\ "unreachable" \in Results /\ "busy" \in Results /\ "failed" \in Results /\ "park" \in Results
  BY DEF Results
<1>1. ASSUME NEW i \in Ids, NEW despite \in BOOLEAN, NEW keep \in BOOLEAN, NEW clear \in BOOLEAN,
             Change(i, despite, keep, clear)
      PROVE  TypeOK'
  <2>1. row.revision + 1 \in Revisions
    BY <1>0, <1>1, IntentConstants DEF Change, Rows, Revisions
  <2>2. row' \in Rows
    BY <1>0, <1>1, <2>1 DEF Change, Rows
  <2>3. intent' \in [Ids -> Intents]
    BY <1>1, <2>1, IntentTypes DEF Change
  <2>. QED BY <1>1, <2>2, <2>3, <1>0 DEF Change, TypeOK
<1>2. ASSUME NEW i \in Ids, Scan(i) PROVE TypeOK'
  <2>1. intent' \in [Ids -> Intents]
    BY <1>0, <1>2, IntentTypes DEF Scan, Rows
  <2>. QED BY <1>2, <2>1, <1>0 DEF Scan, TypeOK
<1>3. ASSUME NEW i \in Ids, NEW source \in Ids, Retry(i, source) PROVE TypeOK'
  <2>1. intent' \in [Ids -> Intents]
    BY <1>0, <1>3, IntentTypes DEF Retry, RetryTarget, Rows
  <2>2. row' \in Rows
    BY <1>0, <1>3 DEF Retry, Rows
  <2>. QED BY <1>3, <2>1, <2>2, <1>0 DEF Retry, TypeOK
<1>4. ASSUME NEW i \in Ids, Prune(i) \/ RetryDue(i) PROVE TypeOK'
  <2>a. [intent EXCEPT ![i].status = "pruned"] \in [Ids -> Intents]
    BY <1>0, <1>v DEF Intents
  <2>b. [intent EXCEPT ![i].waiting = FALSE] \in [Ids -> Intents]
    BY <1>0 DEF Intents
  <2>1. intent' \in [Ids -> Intents]
    BY <2>a, <2>b, <1>4 DEF Prune, RetryDue
  <2>. QED BY <1>4, <2>1, <1>0 DEF Prune, RetryDue, TypeOK
<1>5. CASE Drift
  BY <1>5, IntentConstants DEF Drift, TypeOK
<1>6. ASSUME NEW w \in Workers, NEW i \in Ids, List(w, i) PROVE TypeOK'
  <2>1. pass' \in [Workers -> Passes]
    BY <1>0, <1>6, RecordTypes DEF List
  <2>. QED BY <1>6, <2>1, <1>0 DEF List, TypeOK
<1>7. ASSUME NEW w \in Workers, CheckParked(w) \/ Claim(w) \/ Load(w) PROVE TypeOK'
  <2>1. [pass EXCEPT ![w] = Idle] \in [Workers -> Passes]
    BY <1>0, RecordTypes
  <2>2. [pass EXCEPT ![w].at = "loaded", ![w].revision = row.revision] \in [Workers -> Passes]
    BY <1>0, <1>s DEF Rows, Passes
  <2>3. pass' \in [Workers -> Passes]
    <3>1. CASE CheckParked(w)
      BY <1>0, <1>s, <2>1, <3>1 DEF CheckParked, Goto, Passes
    <3>2. CASE Claim(w)
      BY <1>0, <1>s, <2>1, <3>2 DEF Claim, Goto, Passes
    <3>3. CASE Load(w)
      <4>1. [pass EXCEPT ![w].at = "decided", ![w].result = "stale"] \in [Workers -> Passes]
        BY <1>0, <1>s, <1>r DEF Passes
      <4>. QED BY <2>2, <3>3, <4>1 DEF Load
    <3>. QED BY <1>7, <3>1, <3>2, <3>3
  <2>4. claim' \in Workers \cup {Nobody}
    BY <1>7 DEF CheckParked, Claim, Load, TypeOK
  <2>. QED BY <1>7, <2>3, <2>4, <1>0 DEF CheckParked, Claim, Load, TypeOK
<1>8. ASSUME NEW w \in Workers, Apply(w) \/ Verify(w) \/ VerifyFails(w) PROVE TypeOK'
  <2>1. pass' \in [Workers -> Passes]
    <3>1. CASE Apply(w)
      BY <1>0, <1>s, <3>1 DEF Apply, Goto, Passes
    <3>2. CASE Verify(w)
      BY <1>0, <1>s, <3>2 DEF Verify, Goto, Passes
    <3>3. CASE VerifyFails(w)
      BY <1>0, <1>s, <1>r, <3>3 DEF VerifyFails, Passes
    <3>. QED BY <1>8, <3>1, <3>2, <3>3
  <2>2. pass[w].revision \in Revisions
    BY <1>0 DEF Passes
  <2>3. instance' \in 0..MaxRevision /\ verified' \subseteq Revisions
    BY <1>8, <2>2, IntentConstants DEF Apply, Verify, VerifyFails, TypeOK, Revisions
  <2>. QED BY <1>8, <2>1, <2>3, <1>0 DEF Apply, Verify, VerifyFails, TypeOK
<1>9. ASSUME NEW w \in Workers, NEW result \in {"success", "retry", "failed"}, Observe(w, result)
      PROVE  TypeOK'
  <2>1. pass' \in [Workers -> Passes]
    BY <1>0, <1>9, <1>s, <1>r DEF Observe, Passes
  <2>2. pass[w].revision \in 0..MaxRevision
    BY <1>0, IntentConstants DEF Passes, Revisions
  <2>3. row' \in Rows
    BY <1>9, <1>0, <2>2 DEF Observe, MarkedRevision, Rows
  <2>. QED BY <1>9, <2>1, <2>3, <1>0, IntentConstants DEF Observe, TypeOK
<1>10. ASSUME NEW w \in Workers, MarkSucceeded(w) \/ MarkFailure(w) PROVE TypeOK'
  <2>1. pass' \in [Workers -> Passes]
    <3>1. pass' = [pass EXCEPT ![w].at = "marked"]
      BY <1>10 DEF MarkSucceeded, MarkFailure, Goto
    <3>. QED BY <1>0, <1>s, <3>1 DEF Passes
  <2>2. pass[w].revision \in 0..MaxRevision
    BY <1>0, IntentConstants DEF Passes, Revisions
  <2>3. row' \in Rows
    BY <1>10, <1>0, <2>2 DEF MarkSucceeded, MarkFailure, MarkedRevision, Rows
  <2>. QED BY <1>10, <2>1, <2>3, <1>0 DEF MarkSucceeded, MarkFailure, TypeOK
<1>11. ASSUME NEW w \in Workers, Settle(w) PROVE TypeOK'
  <2>1. pass[w].revision \in Revisions /\ intent[pass[w].id].target \in Revisions
    BY <1>0 DEF Passes, Intents
  <2>2. intent' \in [Ids -> Intents]
    BY <1>11, <1>v, <2>1, IntentTypes DEF Settle
  <2>. QED BY <1>11, <2>2, <1>0, EndPassType DEF Settle, TypeOK
<1>12. ASSUME NEW w \in Workers, NEW strikes \in 0..BusyLimit, Busy(w, strikes) PROVE TypeOK'
  <2>1. pass[w].id \in Ids
    BY <1>0 DEF Passes
  <2>2. intent' \in [Ids -> Intents]
    BY <1>0, <1>12, <2>1, IntentConstants DEF Busy, Intents
  <2>3. CASE EndPass(w)
    BY <1>12, <2>2, <2>3, <1>0, EndPassType DEF Busy, TypeOK
  <2>4. CASE pass' = [pass EXCEPT ![w].result = "park"] /\ UNCHANGED <<claim, lost>>
    <3>1. pass' \in [Workers -> Passes]
      BY <1>0, <1>r, <2>4 DEF Passes
    <3>. QED BY <1>12, <2>2, <2>4, <3>1, <1>0 DEF Busy, TypeOK
  <2>. QED BY <1>12, <2>3, <2>4 DEF Busy
<1>13. ASSUME NEW w \in Workers, ScheduleRetry(w) PROVE TypeOK'
  <2>1. pass[w].id \in Ids
    BY <1>0 DEF Passes
  <2>2. intent' \in [Ids -> Intents]
    <3>1. PICK busy \in 0..BusyLimit :
             intent' = [intent EXCEPT ![pass[w].id].waiting = Pending(pass[w].id),
                                      ![pass[w].id].busy = busy]
      BY <1>0, <1>13, <2>1, IntentConstants DEF ScheduleRetry, Intents
    <3>2. Pending(pass[w].id) \in BOOLEAN
      BY DEF Pending
    <3>. QED BY <1>0, <2>1, <3>1, <3>2 DEF Intents
  <2>. QED BY <1>13, <2>2, <1>0, EndPassType DEF ScheduleRetry, TypeOK
<1>14. ASSUME NEW w \in Workers, NEW result \in {"retry", "unreachable", "busy", "failed"},
              Fail(w, result)
       PROVE  TypeOK'
  <2>1. pass' \in [Workers -> Passes]
    BY <1>0, <1>14, <1>s, <1>r DEF Fail, Passes
  <2>. QED BY <1>14, <2>1, <1>0, IntentConstants DEF Fail, TypeOK
<1>15. ASSUME NEW w \in Workers, Crash(w) PROVE TypeOK'
  BY <1>15, <1>0, EndPassType, IntentConstants DEF Crash, TypeOK
<1>16. ASSUME NEW w \in Workers, Stall(w) \/ NoticeLost(w) PROVE TypeOK'
  BY <1>16, IntentConstants DEF Stall, NoticeLost, TypeOK
<1>17. CASE UNCHANGED vars
  BY <1>17 DEF vars, TypeOK
<1>. QED BY <1>1, <1>2, <1>3, <1>4, <1>5, <1>6, <1>7, <1>8, <1>9, <1>10, <1>11, <1>12, <1>13,
            <1>14, <1>15, <1>16, <1>17 DEF Next, Requests, PassStep

\* The first state is well formed.
LEMMA TypeInit == Init => TypeOK
<1>1. [NoIntent EXCEPT !.status = "pending"] \in Intents
  BY RecordTypes DEF Intents, Statuses
<1>2. ASSUME Init PROVE intent \in [Ids -> Intents]
  BY <1>1, <1>2, RecordTypes DEF Init
<1>3. ASSUME Init PROVE pass \in [Workers -> Passes]
  BY <1>3, RecordTypes DEF Init
<1>. QED BY <1>2, <1>3, IntentConstants DEF Init, TypeOK, Intents, Passes, Revisions

\* Row, intents, claim and passes stay well formed through every interleaving
\* of requests, passes, crashes and stalls.
THEOREM TypeCorrect == Spec => []TypeOK
BY TypeInit, TypeStep, PTL DEF Spec

--------------------------------------------------------------------------------
(***************************************************************************)
(* The inductive invariant                                                  *)
(***************************************************************************)

\* A pass that has the claim, or had it before it stalled.
Working(w) == pass[w].at \in {"claimed", "loaded", "applied", "verified", "decided", "marked"}

\* A pass that verified its revision and has not settled yet.
Succeeding(w) ==
    \/ pass[w].at = "verified"
    \/ pass[w].at = "decided" /\ pass[w].result = "success"
    \/ pass[w].at = "marked" /\ pass[w].result = "success"

\* Intents are created in the order of their ids, and ask for ever newer
\* revisions, up to the row's.
IntentOrder ==
    /\ \A i \in Ids : intent[i].status # "none" => intent[i].target <= row.revision
    /\ \A i, j \in Ids : i < j /\ intent[j].status # "none" =>
          intent[i].status # "none" /\ intent[i].target <= intent[j].target

\* What a pass took from the tables is still true of them: its intent exists,
\* its revision is not ahead of the row, and an intent it found stale is.
Knows(w) ==
    /\ pass[w].revision <= row.revision
    /\ pass[w].at # "idle" => intent[pass[w].id].status # "none"
    /\ pass[w].at \in {"decided", "marked"} /\ pass[w].result = "stale" =>
          intent[pass[w].id].target < row.revision
PassesKnow == \A w \in Workers : Knows(w)

\* What is observed, or about to be, was verified; a pass about to settle its
\* intents as succeeded has marked the row, if the row still has its revision.
Truthful ==
    /\ row.observed <= row.revision
    /\ ObservedIsVerified
    /\ \A w \in Workers :
          /\ Succeeding(w) => pass[w].revision \in verified
          /\ pass[w].at = "marked" /\ pass[w].result = "success" /\ pass[w].revision = row.revision =>
                row.observed = row.revision

\* Until a process stalls there is one working pass; what it loaded is the
\* newest revision or the newest is not observed, and what it applied stays.
OneAtATime ==
    stalls = 0 =>
        /\ \A w \in Workers : Working(w) => claim = w
        /\ \A w \in Workers :
              pass[w].at = "loaded" /\ row.observed = row.revision => pass[w].revision = row.revision
        /\ \A w \in Workers :
              pass[w].at = "applied" \/ Succeeding(w) => instance \in {0, pass[w].revision}

IInv ==
    /\ TypeOK /\ IntentOrder /\ PassesKnow /\ Truthful /\ OneAtATime
    /\ SucceededIsObserved /\ DesireIsTracked /\ ObservedIsApplied

--------------------------------------------------------------------------------
(***************************************************************************)
(* What a step does, without the records                                    *)
(***************************************************************************)

\* Only the pass of w changes; it moves on, and keeps its intent and revision.
Others(w) == \A v \in Workers : v # w => pass'[v] = pass[v]
Became(w, at, result) ==
    /\ pass'[w].at = at /\ pass'[w].result = result
    /\ pass'[w].id = pass[w].id /\ pass'[w].revision = pass[w].revision
    /\ Others(w)
Ends(w) == pass'[w].at = "idle" /\ pass'[w].revision = 1 /\ Others(w)

\* An idle pass carries nothing.
LEMMA IdleFields == Idle.at = "idle" /\ Idle.revision = 1 /\ Idle.result = "none"
BY DEF Idle

\* What each step of a pass makes of the passes.
LEMMA PassEffects ==
    ASSUME TypeOK, NEW w \in Workers
    PROVE  /\ \A i \in Ids : List(w, i) =>
                 /\ pass'[w].at = "listed" /\ pass'[w].id = i /\ pass'[w].revision = 1
                 /\ Others(w)
           /\ CheckParked(w) => Ends(w) \/ Became(w, "checked", pass[w].result)
           /\ Claim(w) => Ends(w) \/ Became(w, "claimed", pass[w].result)
           /\ Load(w) => \/ Became(w, "decided", "stale")
                         \/ /\ pass'[w].at = "loaded" /\ pass'[w].revision = row.revision
                            /\ pass'[w].id = pass[w].id /\ Others(w)
           /\ Apply(w) => Became(w, "applied", pass[w].result)
           /\ Verify(w) => Became(w, "verified", pass[w].result)
           /\ VerifyFails(w) => Became(w, "decided", "failed")
           /\ \A result : Fail(w, result) => Became(w, "decided", result)
           /\ \A result : Observe(w, result) =>
                 Became(w, "decided", result) \/ Became(w, "decided", "retry")
           /\ MarkSucceeded(w) => Became(w, "marked", "success")
           /\ MarkFailure(w) => Became(w, "marked", pass[w].result)
           /\ EndPass(w) => Ends(w)
           /\ pass' = [pass EXCEPT ![w].result = "park"] => Became(w, pass[w].at, "park")
<1>0. pass \in [Workers -> Passes]
  BY DEF TypeOK, Passes
<1>1. ASSUME NEW i \in Ids, List(w, i)
      PROVE  pass'[w].at = "listed" /\ pass'[w].id = i /\ pass'[w].revision = 1 /\ Others(w)
  <2>1. [Idle EXCEPT !.at = "listed", !.id = i].revision = 1
    BY IdleFields, RecordTypes DEF Passes
  <2>2. /\ [Idle EXCEPT !.at = "listed", !.id = i].at = "listed"
        /\ [Idle EXCEPT !.at = "listed", !.id = i].id = i
    BY RecordTypes DEF Passes
  <2>. QED BY <1>0, <1>1, <2>1, <2>2 DEF List, Others
<1>2. pass' = [pass EXCEPT ![w] = Idle] => Ends(w)
  BY <1>0, IdleFields DEF Ends, Others
<1>3. \A s : Goto(w, s) => Became(w, s, pass[w].result)
  BY <1>0 DEF Goto, Became, Others, Passes
<1>4. \A s, r : pass' = [pass EXCEPT ![w].at = s, ![w].result = r] => Became(w, s, r)
  BY <1>0 DEF Became, Others, Passes
<1>5. pass' = [pass EXCEPT ![w].at = "loaded", ![w].revision = row.revision] =>
         /\ pass'[w].at = "loaded" /\ pass'[w].revision = row.revision
         /\ pass'[w].id = pass[w].id /\ Others(w)
  BY <1>0 DEF Others, Passes
<1>6. pass' = [pass EXCEPT ![w].result = "park"] => Became(w, pass[w].at, "park")
  BY <1>0 DEF Became, Others, Passes
<1>7. CheckParked(w) => Ends(w) \/ Became(w, "checked", pass[w].result)
  BY <1>2, <1>3 DEF CheckParked
<1>8. Claim(w) => Ends(w) \/ Became(w, "claimed", pass[w].result)
  BY <1>2, <1>3 DEF Claim
<1>9. Load(w) => \/ Became(w, "decided", "stale")
                 \/ /\ pass'[w].at = "loaded" /\ pass'[w].revision = row.revision
                    /\ pass'[w].id = pass[w].id /\ Others(w)
  BY <1>4, <1>5 DEF Load
<1>10. /\ Apply(w) => Became(w, "applied", pass[w].result)
       /\ Verify(w) => Became(w, "verified", pass[w].result)
       /\ MarkSucceeded(w) => Became(w, "marked", "success")
       /\ MarkFailure(w) => Became(w, "marked", pass[w].result)
  BY <1>3 DEF Apply, Verify, MarkSucceeded, MarkFailure
<1>11. /\ VerifyFails(w) => Became(w, "decided", "failed")
       /\ \A result : Fail(w, result) => Became(w, "decided", result)
       /\ \A result : Observe(w, result) =>
             Became(w, "decided", result) \/ Became(w, "decided", "retry")
  BY <1>4 DEF VerifyFails, Fail, Observe
<1>12. EndPass(w) => Ends(w)
  BY <1>2 DEF EndPass
<1>. QED BY <1>1, <1>6, <1>7, <1>8, <1>9, <1>10, <1>11, <1>12

\* An intent is created, or every intent keeps its place and its revision.
Creates(i) ==
    /\ IsFresh(i)
    /\ intent'[i].status = "pending" /\ intent'[i].target = row'.revision
    /\ \A j \in Ids : j # i => intent'[j] = intent[j]
    /\ row'.revision \in {row.revision, row.revision + 1} /\ row'.observed = row.observed
    /\ UNCHANGED <<instance, verified, claim, pass, stalls>>
Keeps ==
    /\ row'.revision = row.revision
    /\ \A i \in Ids : /\ intent'[i].target = intent[i].target
                      /\ intent'[i].status = "none" <=> intent[i].status = "none"

\* What createPending writes.
LEMMA CreatedIs ==
    ASSUME TypeOK, NEW i \in Ids, NEW r \in Revisions, NEW d \in BOOLEAN, NEW s \in BOOLEAN,
           intent' = Created(i, r, d, s)
    PROVE  /\ intent'[i].status = "pending" /\ intent'[i].target = r
           /\ \A j \in Ids : j # i => intent'[j] = intent[j]
<1>1. intent \in [Ids -> Intents]
  BY DEF TypeOK, Intents
<1>2. LET new == [NoIntent EXCEPT !.status = "pending", !.target = r, !.despite = d, !.scan = s]
      IN  new.status = "pending" /\ new.target = r
  BY RecordTypes DEF Intents
<1>. QED BY <1>1, <1>2 DEF Created

\* What a sweep writes.
LEMMA SettledIs ==
    ASSUME TypeOK, NEW r \in Revisions, NEW st \in {"succeeded", "failed"}, intent' = Settled(r, st)
    PROVE  \A i \in Ids :
              /\ intent'[i].target = intent[i].target
              /\ intent'[i].status = IF Swept(i, r) THEN st ELSE intent[i].status
<1>1. intent \in [Ids -> Intents]
  BY DEF TypeOK, Intents
<1>. QED BY <1>1 DEF Settled, Intents

\* What Settle writes: the intents it sweeps are at most at its revision, or
\* were found stale at theirs.
LEMMA SettleIs ==
    ASSUME TypeOK, NEW w \in Workers, Settle(w)
    PROVE  \E r \in Revisions, st \in {"succeeded", "failed"} :
              /\ intent' = Settled(r, st)
              /\ st = "succeeded" =>
                    \/ pass[w].at = "marked" /\ pass[w].result = "success" /\ r = pass[w].revision
                    \/ /\ pass[w].result = "stale" /\ r = intent[pass[w].id].target
<1>0. pass \in [Workers -> Passes] /\ intent \in [Ids -> Intents]
  BY DEF TypeOK, Passes, Intents
<1>1. pass[w].revision \in Revisions /\ intent[pass[w].id].target \in Revisions
  BY <1>0 DEF Passes, Intents
<1>2. CASE pass[w].result = "success"
  BY <1>1, <1>2 DEF Settle
<1>3. CASE pass[w].result = "stale"
  BY <1>1, <1>3 DEF Settle
<1>4. CASE pass[w].result \notin {"success", "stale"}
  BY <1>1, <1>4 DEF Settle
<1>. QED BY <1>2, <1>3, <1>4

\* Busy strikes and retries leave status and target alone.
LEMMA RescheduledIs ==
    ASSUME TypeOK, NEW w \in Workers,
           ScheduleRetry(w) \/ \E strikes \in 0..BusyLimit : Busy(w, strikes)
    PROVE  \A i \in Ids : intent'[i].target = intent[i].target /\ intent'[i].status = intent[i].status
<1>0. pass \in [Workers -> Passes] /\ intent \in [Ids -> Intents]
  BY DEF TypeOK, Passes, Intents
<1>1. pass[w].id \in Ids
  BY <1>0 DEF Passes
<1>2. CASE ScheduleRetry(w)
  BY <1>0, <1>1, <1>2 DEF ScheduleRetry, Intents
<1>3. ASSUME NEW strikes \in 0..BusyLimit, Busy(w, strikes)
      PROVE  \A i \in Ids : intent'[i].target = intent[i].target /\ intent'[i].status = intent[i].status
  BY <1>0, <1>1, <1>3 DEF Busy, Intents
<1>. QED BY <1>2, <1>3

\* The steps of passes and the faults that leave the intents alone.
PassOnly(w) ==
    \/ CheckParked(w) \/ Claim(w) \/ Load(w) \/ Apply(w) \/ Verify(w) \/ VerifyFails(w)
    \/ MarkSucceeded(w) \/ MarkFailure(w) \/ Crash(w) \/ Stall(w) \/ NoticeLost(w)
    \/ \E i \in Ids : List(w, i)
    \/ \E result \in {"success", "retry", "failed"} : Observe(w, result)
    \/ \E result \in {"retry", "unreachable", "busy", "failed"} : Fail(w, result)
Rescheduled(w) == ScheduleRetry(w) \/ \E strikes \in 0..BusyLimit : Busy(w, strikes)

\* Every step, grouped by what it does to the intents.
LEMMA Kinds ==
    ASSUME TypeOK, [Next]_vars
    PROVE  \/ \E i \in Ids : Creates(i)
           \/ \E i \in Ids : Prune(i) \/ RetryDue(i)
           \/ Drift \/ UNCHANGED vars
           \/ \E w \in Workers : Settle(w) \/ Rescheduled(w) \/ PassOnly(w)
<1>0. row \in Rows
  BY DEF TypeOK, Rows
<1>1. ASSUME NEW i \in Ids, NEW despite \in BOOLEAN, NEW keep \in BOOLEAN, NEW clear \in BOOLEAN,
             Change(i, despite, keep, clear)
      PROVE  Creates(i)
  <2>1. row'.revision = row.revision + 1 /\ row'.observed = row.observed
    BY <1>0, <1>1 DEF Change, Rows
  <2>2. row.revision + 1 \in Revisions
    BY <1>0, <1>1, IntentConstants DEF Change, Rows, Revisions
  <2>. QED BY <1>1, <2>1, <2>2, CreatedIs DEF Change, Creates
<1>2. ASSUME NEW i \in Ids, Scan(i) PROVE Creates(i)
  BY <1>0, <1>2, CreatedIs DEF Scan, Creates, Rows
<1>3. ASSUME NEW i \in Ids, NEW source \in Ids, Retry(i, source) PROVE Creates(i)
  <2>1. row'.revision = row.revision /\ row'.observed = row.observed /\ row.revision \in Revisions
    BY <1>0, <1>3 DEF Retry, Rows
  <2>. QED BY <1>3, <2>1, CreatedIs DEF Retry, RetryTarget, Creates
<1>4. ASSUME Next
      PROVE  \/ \E i \in Ids : Creates(i)
             \/ \E i \in Ids : Prune(i) \/ RetryDue(i)
             \/ Drift
             \/ \E w \in Workers : Settle(w) \/ Rescheduled(w) \/ PassOnly(w)
  <2>1. CASE Requests
    BY <1>1, <1>2, <1>3, <2>1 DEF Requests
  <2>2. ASSUME NEW w \in Workers, PassStep(w) PROVE Settle(w) \/ Rescheduled(w) \/ PassOnly(w)
    BY <2>2 DEF PassStep, PassOnly, Rescheduled
  <2>3. ASSUME NEW w \in Workers,
               \/ \E i \in Ids : List(w, i)
               \/ \E result \in {"retry", "unreachable", "busy", "failed"} : Fail(w, result)
               \/ \E result \in {"retry", "failed"} : Observe(w, result)
               \/ Crash(w) \/ Stall(w) \/ NoticeLost(w)
        PROVE  PassOnly(w)
    BY <2>3 DEF PassOnly
  <2>. QED BY <1>4, <2>1, <2>2, <2>3 DEF Next
<1>. QED BY <1>4

\* What PassOnly leaves alone, and what it may do to the row.
LEMMA PassOnlyKeeps ==
    ASSUME TypeOK, NEW w \in Workers, PassOnly(w)
    PROVE  /\ intent' = intent
           /\ row'.revision = row.revision
           /\ \/ row'.observed = row.observed
              \/ /\ row'.observed = row.revision /\ pass[w].revision = row.revision
                 /\ Succeeding(w)
<1>0. row \in Rows /\ pass \in [Workers -> Passes]
  BY DEF TypeOK, Rows, Passes
<1>1. CASE row' = row
  BY <1>1 DEF PassOnly, CheckParked, Claim, Load, Apply, Verify, VerifyFails, MarkSucceeded,
              MarkFailure, Crash, Stall, NoticeLost, List, Observe, Fail
<1>2. CASE MarkFailure(w)
  BY <1>0, <1>2 DEF MarkFailure, Rows
<1>3. CASE MarkSucceeded(w)
  BY <1>0, <1>3 DEF MarkSucceeded, MarksRow, MarkedRevision, Rows, Succeeding
<1>4. ASSUME NEW result \in {"success", "retry", "failed"}, Observe(w, result)
      PROVE  /\ intent' = intent
             /\ row'.revision = row.revision
             /\ \/ row'.observed = row.observed
                \/ /\ row'.observed = row.revision /\ pass[w].revision = row.revision
                   /\ Succeeding(w)
  BY <1>0, <1>4 DEF Observe, MarksRow, MarkedRevision, Rows, Succeeding
<1>. QED BY <1>1, <1>2, <1>3, <1>4
         DEF PassOnly, CheckParked, Claim, Load, Apply, Verify, VerifyFails, Crash, Stall,
             NoticeLost, List, Fail

\* A step creates one intent or keeps them all.
LEMMA CreatesOrKeeps ==
    ASSUME TypeOK, [Next]_vars
    PROVE  Keeps \/ \E i \in Ids : Creates(i)
<1>0. intent \in [Ids -> Intents]
  BY DEF TypeOK, Intents
<1>1. ASSUME NEW i \in Ids, Prune(i) \/ RetryDue(i) PROVE Keeps
  BY <1>0, <1>1 DEF Prune, RetryDue, Keeps, Intents
<1>2. ASSUME NEW w \in Workers, Settle(w) PROVE Keeps
  BY <1>2, SettleIs, SettledIs DEF Settle, Keeps, Swept, Pending
<1>3. ASSUME NEW w \in Workers, Rescheduled(w) PROVE Keeps
  BY <1>3, RescheduledIs DEF Rescheduled, ScheduleRetry, Busy, Keeps
<1>4. ASSUME NEW w \in Workers, PassOnly(w) PROVE Keeps
  BY <1>4, PassOnlyKeeps DEF Keeps
<1>5. Drift \/ UNCHANGED vars => Keeps
  BY DEF Drift, vars, Keeps
<1>. QED BY <1>1, <1>2, <1>3, <1>4, <1>5, Kinds

--------------------------------------------------------------------------------
(***************************************************************************)
(* The parts of the invariant, one by one                                    *)
(***************************************************************************)

\* The numbers the parts compare.
LEMMA Numbers ==
    ASSUME TypeOK
    PROVE  /\ row.revision \in Nat /\ row.observed \in Nat
           /\ \A i \in Ids : i \in Nat /\ intent[i].target \in Nat
           /\ \A w \in Workers : pass[w].revision \in Nat /\ pass[w].id \in Ids
BY IntentConstants DEF TypeOK, Revisions, Ids

\* New intents come last and ask for the newest revision.
LEMMA IntentOrderStep == ASSUME TypeOK, TypeOK', IntentOrder, [Next]_vars PROVE IntentOrder'
<1>1. ASSUME NEW i \in Ids, Creates(i) PROVE IntentOrder'
  <2>1. row'.revision >= row.revision
    BY <1>1, Numbers DEF Creates
  <2>2. \A j \in Ids : j # i => intent'[j] = intent[j]
    BY <1>1 DEF Creates
  <2>3. \A j \in Ids : j < i => intent[j].status # "none"
    BY <1>1 DEF Creates, IsFresh
  <2>4. \A j \in Ids : i < j => intent[j].status = "none"
    BY <1>1 DEF Creates, IsFresh, IntentOrder
  <2>5. intent'[i].status = "pending" /\ intent'[i].target = row'.revision
    BY <1>1 DEF Creates
  <2>6. row'.revision \in Nat
    BY Numbers, <1>1 DEF Creates
  <2>7. \A j \in Ids : intent'[j].status # "none" => intent'[j].target <= row'.revision
    BY <2>1, <2>2, <2>5, <2>6, Numbers DEF IntentOrder
  <2>8. ASSUME NEW j \in Ids, NEW k \in Ids, j < k, intent'[k].status # "none"
        PROVE  intent'[j].status # "none" /\ intent'[j].target <= intent'[k].target
    <3>1. CASE k = i
      BY <2>1, <2>2, <2>3, <2>5, <2>6, <2>8, <3>1, Numbers DEF IntentOrder
    <3>2. CASE k # i
      <4>1. j # i
        BY <2>2, <2>4, <2>8, <3>2
      <4>. QED BY <2>2, <2>8, <3>2, <4>1 DEF IntentOrder
    <3>. QED BY <3>1, <3>2
  <2>. QED BY <2>7, <2>8 DEF IntentOrder
<1>2. CASE Keeps
  BY <1>2 DEF Keeps, IntentOrder
<1>. QED BY <1>1, <1>2, CreatesOrKeeps

\* Passes keep what they know: the row only advances, an intent once created
\* keeps the revision it asks for.
LEMMA PassesKnowStep ==
    ASSUME TypeOK, TypeOK', IntentOrder, PassesKnow, [Next]_vars PROVE PassesKnow'
<1>. SUFFICES ASSUME NEW v \in Workers
              PROVE  Knows(v)'
  BY DEF PassesKnow
<1>n. /\ row.revision \in Nat /\ row.revision >= 1 /\ pass[v].revision \in Nat /\ pass[v].id \in Ids
      /\ intent[pass[v].id].target \in Nat
  BY Numbers DEF TypeOK, Revisions
<1>h. Knows(v)
  BY DEF PassesKnow
<1>1. ASSUME NEW i \in Ids, Creates(i)
      PROVE  Knows(v)'
  <2>1. pass' = pass /\ row'.revision >= row.revision /\ row'.revision \in Nat
    BY <1>1, <1>n DEF Creates
  <2>2. pass[v].at # "idle" => intent'[pass[v].id] = intent[pass[v].id]
    BY <1>1, <1>h, <1>n DEF Creates, IsFresh, Knows
  <2>. QED BY <1>h, <1>n, <2>1, <2>2 DEF Knows
<1>2. ASSUME Keeps, pass'[v] = pass[v]
      PROVE  Knows(v)'
  BY <1>2, <1>h, <1>n DEF Keeps, Knows
<1>3. ASSUME Keeps, NEW w \in Workers, Settle(w) \/ Rescheduled(w) \/ PassOnly(w), pass'[v] # pass[v]
      PROVE  Knows(v)'
  <2>1. CASE Ends(w)
    BY <1>3, <1>n, <2>1 DEF Ends, Others, Keeps, Knows
  <2>2. ASSUME NEW at, NEW result, Became(w, at, result), pass[w].at # "idle",
               result # "stale" \/ at \notin {"decided", "marked"}
        PROVE  Knows(v)'
    BY <1>3, <1>h, <1>n, <2>2 DEF Became, Others, Keeps, Knows
  <2>3. CASE Settle(w)
    BY <2>1, <2>3, PassEffects DEF Settle
  <2>4. CASE Rescheduled(w)
    BY <2>1, <2>2, <2>4, PassEffects DEF Rescheduled, ScheduleRetry, Busy
  <2>5. ASSUME NEW i \in Ids, List(w, i)
        PROVE  Knows(v)'
    <3>1. v = w /\ pass'[v].at = "listed" /\ pass'[v].id = i /\ pass'[v].revision = 1
      BY <1>3, <2>5, PassEffects DEF Others
    <3>2. intent[i].status # "none"
      BY <2>5 DEF List, Pending
    <3>. QED BY <1>3, <1>n, <3>1, <3>2 DEF Keeps, Knows
  <2>6. CASE Load(w)
    <3>1. CASE Became(w, "decided", "stale")
      <4>1. intent[pass[w].id].target < row.revision \/ ~Superseded(pass[w].id)
        BY DEF Superseded
      <4>2. ~Superseded(pass[w].id) => pass'[w].at = "loaded"
        <5>1. pass \in [Workers -> Passes]
          BY DEF TypeOK, Passes
        <5>. QED BY <2>6, <5>1 DEF Load, Passes
      <4>3. intent[pass[w].id].target < row.revision
        BY <3>1, <4>1, <4>2 DEF Became
      <4>. QED BY <1>3, <1>h, <1>n, <2>6, <3>1, <4>3 DEF Became, Others, Keeps, Load, Knows
    <3>2. CASE /\ pass'[w].at = "loaded" /\ pass'[w].revision = row.revision
               /\ pass'[w].id = pass[w].id /\ Others(w)
      BY <1>3, <1>h, <1>n, <2>6, <3>2 DEF Others, Keeps, Load, Knows
    <3>. QED BY <2>6, <3>1, <3>2, PassEffects
  <2>7. CASE CheckParked(w) \/ Claim(w)
    <3>1. pass[w].at # "idle"
      BY <2>7 DEF CheckParked, Claim
    <3>. QED BY <2>1, <2>2, <2>7, <3>1, PassEffects
  <2>8. CASE Apply(w) \/ Verify(w) \/ VerifyFails(w) \/ MarkSucceeded(w) \/ MarkFailure(w)
    <3>1. pass[w].at # "idle" /\ (MarkFailure(w) => pass[w].result # "stale")
      BY <2>8 DEF Apply, Verify, VerifyFails, MarkSucceeded, MarkFailure
    <3>. QED BY <2>2, <2>8, <3>1, PassEffects
  <2>9. ASSUME NEW result \in {"success", "retry", "unreachable", "busy", "failed"},
               Observe(w, result) \/ Fail(w, result)
        PROVE  Knows(v)'
    <3>1. pass[w].at # "idle"
      BY <2>9 DEF Observe, Fail
    <3>2. Became(w, "decided", result) \/ Became(w, "decided", "retry")
      BY <2>9, PassEffects
    <3>. QED BY <2>2, <3>1, <3>2
  <2>10. CASE Crash(w)
    BY <2>1, <2>10, PassEffects DEF Crash
  <2>11. ~(Stall(w) \/ NoticeLost(w))
    BY <1>3 DEF Stall, NoticeLost
  <2>. QED BY <1>3, <2>3, <2>4, <2>5, <2>6, <2>7, <2>8, <2>9, <2>10, <2>11 DEF PassOnly
<1>4. Drift \/ UNCHANGED vars \/ (\E i \in Ids : Prune(i) \/ RetryDue(i)) => pass' = pass
  BY DEF Drift, vars, Prune, RetryDue
<1>5. ASSUME ~\E i \in Ids : Creates(i) PROVE Keeps
  BY <1>5, CreatesOrKeeps
<1>. QED BY <1>1, <1>2, <1>3, <1>4, <1>5, Kinds

\* Only verified revisions are observed.
LEMMA TruthfulStep ==
    ASSUME TypeOK, TypeOK', PassesKnow, Truthful, [Next]_vars PROVE Truthful'
<1>n. row.revision \in Nat /\ row.observed \in Nat
  BY Numbers
<1>1. ASSUME NEW i \in Ids, Creates(i) PROVE Truthful'
  <2>1. /\ row'.observed = row.observed /\ row'.revision \in {row.revision, row.revision + 1}
        /\ pass' = pass /\ verified' = verified
    BY <1>1 DEF Creates
  <2>2. \A w \in Workers : pass[w].revision \in Nat /\ pass[w].revision <= row.revision
    BY Numbers DEF PassesKnow, Knows
  <2>3. \A w \in Workers : Succeeding(w)' <=> Succeeding(w)
    BY <2>1 DEF Succeeding
  <2>. QED BY <1>n, <2>1, <2>2, <2>3 DEF Truthful, ObservedIsVerified
<1>2. ASSUME row'.observed = row.observed, row'.revision = row.revision, verified' = verified,
             \A v \in Workers : pass'[v] = pass[v] \/ pass'[v].at = "idle"
      PROVE  Truthful'
  <2>1. \A v \in Workers : Succeeding(v)' => Succeeding(v) /\ pass'[v] = pass[v]
    BY <1>2 DEF Succeeding
  <2>2. \A v \in Workers : pass'[v].at = "marked" => pass'[v] = pass[v]
    BY <1>2
  <2>. QED BY <1>2, <2>1, <2>2 DEF Truthful, ObservedIsVerified
<1>3. ASSUME NEW w \in Workers, Settle(w) \/ Rescheduled(w) PROVE Truthful'
  <2>1. row' = row /\ verified' = verified
    BY <1>3 DEF Settle, Rescheduled, ScheduleRetry, Busy
  <2>2. CASE EndPass(w)
    BY <1>2, <2>1, <2>2, PassEffects DEF Ends, Others
  <2>3. CASE pass' = [pass EXCEPT ![w].result = "park"] /\ pass[w].at = "decided"
    <3>1. Became(w, "decided", "park")
      BY <2>3, PassEffects
    <3>2. \A v \in Workers : Succeeding(v)' => Succeeding(v) /\ pass'[v] = pass[v]
      BY <3>1 DEF Became, Others, Succeeding
    <3>3. \A v \in Workers : pass'[v].at = "marked" => pass'[v] = pass[v]
      BY <3>1 DEF Became, Others
    <3>. QED BY <2>1, <3>2, <3>3 DEF Truthful, ObservedIsVerified
  <2>. QED BY <1>3, <2>2, <2>3 DEF Settle, Rescheduled, ScheduleRetry, Busy
<1>4. ASSUME NEW w \in Workers, PassOnly(w) PROVE Truthful'
  <2>1. /\ row'.revision = row.revision
        /\ \/ row'.observed = row.observed
           \/ row'.observed = row.revision /\ pass[w].revision = row.revision /\ Succeeding(w)
    BY <1>4, PassOnlyKeeps
  <2>2. verified \subseteq verified'
    BY <1>4 DEF PassOnly, CheckParked, Claim, Load, Apply, Verify, VerifyFails, MarkSucceeded,
                MarkFailure, Crash, Stall, NoticeLost, List, Observe, Fail
  <2>3. row'.observed <= row'.revision /\ ObservedIsVerified'
    BY <1>n, <2>1, <2>2 DEF Truthful, ObservedIsVerified
  <2>4. ASSUME NEW v \in Workers
        PROVE  Succeeding(v)' => pass'[v].revision \in verified'
    <3>1. CASE pass'[v] = pass[v]
      BY <2>2, <3>1 DEF Truthful, Succeeding
    <3>2. CASE pass'[v] # pass[v] /\ Verify(w)
      BY <3>2, PassEffects DEF Verify, Became, Others
    <3>3. ASSUME NEW result \in {"success", "retry", "failed"}, Observe(w, result), pass'[v] # pass[v]
          PROVE  Succeeding(v)' => pass'[v].revision \in verified'
      <4>1. v = w /\ pass'[w].revision = pass[w].revision
        BY <3>3, PassEffects DEF Became, Others
      <4>2. Succeeding(w)
        BY <3>3 DEF Observe, Succeeding
      <4>. QED BY <2>2, <4>1, <4>2 DEF Truthful
    <3>4. CASE pass'[v] # pass[v] /\ MarkSucceeded(w)
      <4>1. v = w /\ Succeeding(w) /\ pass'[w].revision = pass[w].revision
        BY <3>4, PassEffects DEF MarkSucceeded, Became, Others, Succeeding
      <4>. QED BY <2>2, <4>1 DEF Truthful
    <3>5. CASE pass'[v] # pass[v] /\ MarkFailure(w)
      BY <3>5, PassEffects DEF MarkFailure, Became, Others, Succeeding
    <3>6. CASE /\ pass'[v] # pass[v]
               /\ CheckParked(w) \/ Claim(w) \/ Apply(w) \/ VerifyFails(w) \/ Load(w)
      BY <3>6, PassEffects DEF Became, Ends, Others, Succeeding
    <3>7. ASSUME NEW result \in {"retry", "unreachable", "busy", "failed"}, Fail(w, result),
                 pass'[v] # pass[v]
          PROVE  ~Succeeding(v)'
      BY <3>7, PassEffects DEF Became, Others, Succeeding
    <3>8. ASSUME NEW i \in Ids, List(w, i), pass'[v] # pass[v] PROVE ~Succeeding(v)'
      BY <3>8, PassEffects DEF Others, Succeeding
    <3>9. CASE pass'[v] # pass[v] /\ Crash(w)
      BY <3>9, PassEffects DEF Crash, Ends, Others, Succeeding
    <3>10. Stall(w) \/ NoticeLost(w) => pass'[v] = pass[v]
      BY DEF Stall, NoticeLost
    <3>. QED BY <1>4, <3>1, <3>2, <3>3, <3>4, <3>5, <3>6, <3>7, <3>8, <3>9, <3>10 DEF PassOnly
  <2>5. ASSUME NEW v \in Workers, pass'[v].at = "marked", pass'[v].result = "success",
               pass'[v].revision = row'.revision
        PROVE  row'.observed = row'.revision
    <3>1. CASE pass'[v] = pass[v]
      BY <2>1, <2>5, <3>1 DEF Truthful
    <3>2. CASE pass'[v] # pass[v] /\ MarkSucceeded(w)
      <4>1. v = w /\ pass'[w].revision = pass[w].revision
        BY <3>2, PassEffects DEF Became, Others
      <4>2. row \in Rows
        BY DEF TypeOK, Rows
      <4>. QED BY <2>1, <2>5, <3>2, <4>1, <4>2 DEF MarkSucceeded, MarksRow, MarkedRevision, Rows
    <3>3. CASE pass'[v] # pass[v] /\ MarkFailure(w)
      BY <2>5, <3>3, PassEffects DEF MarkFailure, Became, Others
    <3>4. CASE /\ pass'[v] # pass[v]
               /\ CheckParked(w) \/ Claim(w) \/ Apply(w) \/ VerifyFails(w) \/ Load(w) \/ Verify(w)
      BY <2>5, <3>4, PassEffects DEF Became, Ends, Others
    <3>5. ASSUME NEW result, Fail(w, result) \/ Observe(w, result), pass'[v] # pass[v] PROVE FALSE
      BY <2>5, <3>5, PassEffects DEF Became, Others
    <3>6. ASSUME NEW i \in Ids, List(w, i), pass'[v] # pass[v] PROVE FALSE
      BY <2>5, <3>6, PassEffects DEF Others
    <3>7. CASE pass'[v] # pass[v] /\ Crash(w)
      BY <2>5, <3>7, PassEffects DEF Crash, Ends, Others
    <3>8. Stall(w) \/ NoticeLost(w) => pass'[v] = pass[v]
      BY DEF Stall, NoticeLost
    <3>. QED BY <1>4, <3>1, <3>2, <3>3, <3>4, <3>5, <3>6, <3>7, <3>8 DEF PassOnly
  <2>. QED BY <2>3, <2>4, <2>5 DEF Truthful
<1>5. ASSUME Drift \/ UNCHANGED vars \/ \E i \in Ids : Prune(i) \/ RetryDue(i) PROVE Truthful'
  BY <1>2, <1>5 DEF Drift, vars, Prune, RetryDue
<1>. QED BY <1>1, <1>3, <1>4, <1>5, Kinds

\* Whose claim it is, and what the instance has, after a step without a stall.
Quiet == pass' = pass /\ claim' = claim
Ending(w) == Ends(w) /\ claim' \in {claim, IF claim = w THEN Nobody ELSE claim}
Preparing(w) == Others(w) /\ ~Working(w)' /\ claim' = claim
Claiming(w) == Others(w) /\ claim = Nobody /\ claim' = w /\ pass'[w].at = "claimed"
Going(w) == Others(w) /\ Working(w) /\ claim' = claim

\* A step of a worker that is not a stall is of one of these kinds.
LEMMA WorkerKinds ==
    ASSUME TypeOK, NEW w \in Workers, Settle(w) \/ Rescheduled(w) \/ PassOnly(w), ~Stall(w)
    PROVE  /\ Quiet \/ Ending(w) \/ Preparing(w) \/ Claiming(w) \/ Going(w)
           /\ stalls' = stalls
           /\ instance' = instance \/ Apply(w)
<1>1. EndPass(w) => Ending(w)
  BY PassEffects DEF EndPass, Ending
<1>2. ASSUME NEW at, NEW result, Became(w, at, result), Working(w), claim' = claim PROVE Going(w)
  BY <1>2 DEF Became, Going
<1>3. CASE Settle(w)
  BY <1>1, <1>3 DEF Settle
<1>4. CASE Rescheduled(w)
  <2>1. CASE EndPass(w)
    BY <1>1, <1>4, <2>1 DEF Rescheduled, ScheduleRetry, Busy
  <2>2. CASE ~EndPass(w)
    <3>1. pass' = [pass EXCEPT ![w].result = "park"] /\ Working(w) /\ claim' = claim
      BY <1>4, <2>2 DEF Rescheduled, ScheduleRetry, Busy, Working
    <3>2. Became(w, pass[w].at, "park")
      BY <3>1, PassEffects
    <3>. QED BY <1>2, <1>4, <3>1, <3>2 DEF Rescheduled, ScheduleRetry, Busy
  <2>. QED BY <2>1, <2>2
<1>5. ASSUME NEW i \in Ids, List(w, i) PROVE Preparing(w) /\ stalls' = stalls /\ instance' = instance
  <2>1. Others(w) /\ ~Working(w)'
    BY <1>5, PassEffects DEF Working
  <2>. QED BY <1>5, <2>1 DEF List, Preparing
<1>6. CASE CheckParked(w)
  <2>1. claim' = claim /\ stalls' = stalls /\ instance' = instance
    BY <1>6 DEF CheckParked
  <2>2. Ends(w) \/ Became(w, "checked", pass[w].result)
    BY <1>6, PassEffects
  <2>. QED BY <2>1, <2>2 DEF Ending, Became, Preparing, Working
<1>7. CASE Claim(w)
  <2>1. stalls' = stalls /\ instance' = instance
    BY <1>7 DEF Claim
  <2>2. CASE claim = Nobody
    <3>1. claim' = w /\ Goto(w, "claimed")
      BY <1>7, <2>2 DEF Claim, ClaimFree
    <3>2. pass'[w].at = "claimed" /\ Others(w)
      BY <3>1 DEF Goto, Others, TypeOK
    <3>. QED BY <2>1, <2>2, <3>1, <3>2 DEF Claiming
  <2>3. CASE claim # Nobody
    <3>1. claim' = claim /\ pass' = [pass EXCEPT ![w] = Idle]
      BY <1>7, <2>3 DEF Claim, ClaimFree
    <3>2. Ends(w)
      BY <3>1, IdleFields DEF Ends, Others, TypeOK
    <3>. QED BY <2>1, <3>1, <3>2 DEF Ending
  <2>. QED BY <2>2, <2>3
<1>8. CASE Load(w)
  <2>1. Working(w) /\ claim' = claim /\ stalls' = stalls /\ instance' = instance
    BY <1>8 DEF Load, Working
  <2>2. Others(w)
    BY <1>8, PassEffects DEF Became
  <2>. QED BY <2>1, <2>2 DEF Going
<1>9. CASE Apply(w) \/ Verify(w) \/ VerifyFails(w) \/ MarkSucceeded(w) \/ MarkFailure(w)
  <2>1. Working(w) /\ claim' = claim /\ stalls' = stalls /\ (instance' = instance \/ Apply(w))
    BY <1>9 DEF Apply, Verify, VerifyFails, MarkSucceeded, MarkFailure, Working
  <2>2. Others(w)
    BY <1>9, PassEffects DEF Became
  <2>. QED BY <2>1, <2>2 DEF Going
<1>10. ASSUME NEW result, Observe(w, result) \/ Fail(w, result)
       PROVE  Going(w) /\ stalls' = stalls /\ instance' = instance
  <2>1. Working(w) /\ claim' = claim /\ stalls' = stalls /\ instance' = instance
    BY <1>10 DEF Observe, Fail, Working
  <2>2. Others(w)
    BY <1>10, PassEffects DEF Became
  <2>. QED BY <2>1, <2>2 DEF Going
<1>11. CASE Crash(w)
  BY <1>1, <1>11 DEF Crash
<1>12. CASE NoticeLost(w)
  BY <1>12 DEF NoticeLost, Quiet
<1>. QED BY <1>3, <1>4, <1>5, <1>6, <1>7, <1>8, <1>9, <1>10, <1>11, <1>12 DEF PassOnly

\* What a pass that is loading, applied or succeeding after a step did before it.
LEMMA PassOrigins ==
    ASSUME TypeOK, NEW w \in Workers, Settle(w) \/ Rescheduled(w) \/ PassOnly(w), pass'[w] # pass[w]
    PROVE  /\ pass'[w].at = "loaded" => pass'[w].revision = row.revision /\ row'.observed = row.observed
           /\ pass'[w].at = "applied" => instance' = pass'[w].revision
           /\ Succeeding(w)' => /\ pass'[w].revision = pass[w].revision /\ instance' = instance
                                /\ Succeeding(w) \/ instance = pass[w].revision
<1>1. Ends(w) => pass'[w].at = "idle"
  BY DEF Ends
<1>2. CASE Settle(w) \/ Rescheduled(w)
  <2>1. CASE EndPass(w)
    BY <1>1, <2>1, PassEffects DEF Succeeding
  <2>2. CASE ~EndPass(w)
    <3>1. pass' = [pass EXCEPT ![w].result = "park"] /\ pass[w].at = "decided"
      BY <1>2, <2>2 DEF Settle, Rescheduled, ScheduleRetry, Busy
    <3>. QED BY <3>1, PassEffects DEF Became, Succeeding
  <2>. QED BY <2>1, <2>2
<1>3. ASSUME NEW i \in Ids, List(w, i) PROVE pass'[w].at = "listed"
  BY <1>3, PassEffects
<1>4. CheckParked(w) \/ Claim(w) => pass'[w].at \in {"idle", "checked", "claimed"}
  BY PassEffects DEF Became, Ends
<1>5. CASE Load(w)
  <2>1. row' = row
    BY <1>5 DEF Load
  <2>. QED BY <1>5, <2>1, PassEffects DEF Became, Succeeding
<1>6. CASE Apply(w)
  <2>1. instance' = pass[w].revision
    BY <1>6 DEF Apply
  <2>. QED BY <1>6, <2>1, PassEffects DEF Became, Succeeding
<1>7. CASE Verify(w)
  <2>1. instance' = instance /\ instance = pass[w].revision
    BY <1>7 DEF Verify
  <2>. QED BY <1>7, <2>1, PassEffects DEF Became, Succeeding
<1>8. CASE MarkSucceeded(w)
  <2>1. instance' = instance /\ Succeeding(w)
    BY <1>8 DEF MarkSucceeded, Succeeding
  <2>. QED BY <1>8, <2>1, PassEffects DEF Became, Succeeding
<1>9. CASE MarkFailure(w)
  <2>1. pass[w].result # "success"
    BY <1>9 DEF MarkFailure
  <2>. QED BY <1>9, <2>1, PassEffects DEF Became, Succeeding
<1>10. ASSUME NEW result, Observe(w, result)
       PROVE  /\ pass'[w].at = "decided" /\ pass'[w].revision = pass[w].revision
              /\ instance' = instance /\ Succeeding(w)
  <2>1. instance' = instance /\ Succeeding(w)
    BY <1>10 DEF Observe, Succeeding
  <2>. QED BY <1>10, <2>1, PassEffects DEF Became
<1>11. VerifyFails(w) => pass'[w].at = "decided" /\ pass'[w].result = "failed"
  BY PassEffects DEF Became
<1>12. ASSUME NEW result \in {"retry", "unreachable", "busy", "failed"}, Fail(w, result)
       PROVE  pass'[w].at = "decided" /\ pass'[w].result # "success"
  BY <1>12, PassEffects DEF Became
<1>13. Crash(w) => pass'[w].at = "idle"
  BY PassEffects DEF Crash, Ends
<1>14. ~(Stall(w) \/ NoticeLost(w))
  BY DEF Stall, NoticeLost
<1>. QED BY <1>2, <1>3, <1>4, <1>5, <1>6, <1>7, <1>8, <1>9, <1>10, <1>11, <1>12, <1>13, <1>14
         DEF PassOnly, Succeeding

\* Until a process stalls, one pass works at a time, on what it loaded.
LEMMA OneAtATimeStep ==
    ASSUME TypeOK, TypeOK', Truthful, OneAtATime, [Next]_vars PROVE OneAtATime'
<1>n. /\ row.revision \in Nat /\ row.observed \in Nat /\ row.observed <= row.revision
      /\ stalls \in Nat /\ Nobody \notin Workers
  BY Numbers, IntentConstants DEF TypeOK, Truthful
<1>1. ASSUME pass' = pass, claim' = claim, instance' \in {0, instance}, stalls' = stalls,
             row'.observed = row.observed, row'.revision \in {row.revision, row.revision + 1}
      PROVE  OneAtATime'
  <2>1. \A w \in Workers : (Working(w)' <=> Working(w)) /\ (Succeeding(w)' <=> Succeeding(w))
    BY <1>1 DEF Working, Succeeding
  <2>2. row'.observed = row'.revision => row.observed = row.revision /\ row'.revision = row.revision
    BY <1>1, <1>n
  <2>. QED BY <1>1, <2>1, <2>2 DEF OneAtATime
<1>2. ASSUME NEW w \in Workers, Settle(w) \/ Rescheduled(w) \/ PassOnly(w), ~Stall(w), ~Quiet
      PROVE  OneAtATime'
  <2>. SUFFICES ASSUME stalls' = 0, NEW v \in Workers
                PROVE  /\ Working(v)' => claim' = v
                       /\ pass'[v].at = "loaded" /\ row'.observed = row'.revision =>
                             pass'[v].revision = row'.revision
                       /\ pass'[v].at = "applied" \/ Succeeding(v)' => instance' \in {0, pass'[v].revision}
    BY DEF OneAtATime
  <2>0. /\ stalls = 0 /\ (instance' = instance \/ Apply(w))
        /\ Ending(w) \/ Preparing(w) \/ Claiming(w) \/ Going(w)
    BY <1>2, WorkerKinds
  <2>1. \A u \in Workers : Working(u) => claim = u
    BY <2>0 DEF OneAtATime
  <2>2. /\ pass[v].at = "loaded" /\ row.observed = row.revision => pass[v].revision = row.revision
        /\ pass[v].at = "applied" \/ Succeeding(v) => instance \in {0, pass[v].revision}
    BY <2>0 DEF OneAtATime
  <2>3. Others(w)
    BY <2>0 DEF Ending, Ends, Preparing, Claiming, Going
  <2>4. Working(v)' => claim' = v
    <3>1. CASE v = w
      BY <2>0, <2>1, <3>1 DEF Ending, Ends, Preparing, Claiming, Going, Working
    <3>2. CASE v # w
      <4>1. Working(v)' <=> Working(v)
        BY <2>3, <3>2 DEF Others, Working
      <4>. QED BY <1>n, <2>0, <2>1, <3>2, <4>1 DEF Ending, Preparing, Claiming, Going
    <3>. QED BY <3>1, <3>2
  <2>5. /\ row'.revision = row.revision
        /\ row'.observed = row.observed \/ Succeeding(w)
    <3>1. CASE PassOnly(w)
      BY <3>1, PassOnlyKeeps
    <3>2. CASE Settle(w) \/ Rescheduled(w)
      BY <3>2 DEF Settle, Rescheduled, ScheduleRetry, Busy
    <3>. QED BY <1>2, <3>1, <3>2
  <2>6. ASSUME v # w, Working(v), Working(w) PROVE FALSE
    BY <2>1, <2>6
  <2>7. pass'[v].at = "loaded" /\ row'.observed = row'.revision => pass'[v].revision = row'.revision
    <3>1. CASE pass'[v] = pass[v]
      <4>1. Succeeding(w) /\ pass[v].at = "loaded" => v # w /\ Working(v) /\ Working(w)
        BY DEF Succeeding, Working
      <4>. QED BY <2>2, <2>5, <2>6, <3>1, <4>1
    <3>2. CASE pass'[v] # pass[v]
      BY <1>2, <2>3, <2>5, <3>2, PassOrigins DEF Others
    <3>. QED BY <3>1, <3>2
  <2>8. pass'[v].at = "applied" \/ Succeeding(v)' => instance' \in {0, pass'[v].revision}
    <3>1. CASE pass'[v] = pass[v]
      <4>1. Succeeding(v)' <=> Succeeding(v)
        BY <3>1 DEF Succeeding
      <4>2. CASE Apply(w)
        <5>1. pass[w].at = "loaded"
          BY <4>2 DEF Apply
        <5>2. pass[v].at = "applied" \/ Succeeding(v) => v # w /\ Working(v) /\ Working(w)
          BY <5>1 DEF Succeeding, Working
        <5>. QED BY <2>6, <3>1, <4>1, <5>2
      <4>. QED BY <2>0, <2>2, <3>1, <4>1, <4>2
    <3>2. CASE pass'[v] # pass[v]
      <4>1. v = w
        BY <2>3, <3>2 DEF Others
      <4>. QED BY <1>2, <2>2, <3>2, <4>1, PassOrigins
    <3>. QED BY <3>1, <3>2
  <2>. QED BY <2>4, <2>7, <2>8
<1>3. ASSUME NEW w \in Workers, Settle(w) \/ Rescheduled(w) \/ PassOnly(w), ~Stall(w), Quiet
      PROVE  OneAtATime'
  <2>1. stalls' = stalls /\ (instance' = instance \/ Apply(w))
    BY <1>3, WorkerKinds
  <2>2. ~Apply(w) /\ ~MarkSucceeded(w) /\ \A result : ~Observe(w, result)
    <3>1. ASSUME NEW at, NEW result, Became(w, at, result), pass[w].at # at PROVE FALSE
      BY <1>3, <3>1 DEF Became, Quiet
    <3>2. ~Apply(w)
      BY <3>1, PassEffects DEF Apply
    <3>3. ~MarkSucceeded(w)
      BY <3>1, PassEffects DEF MarkSucceeded
    <3>4. ASSUME NEW result, Observe(w, result) PROVE FALSE
      <4>1. pass[w].at = "verified"
        BY <3>4 DEF Observe
      <4>. QED BY <3>1, <3>4, <4>1, PassEffects
    <3>. QED BY <3>2, <3>3, <3>4
  <2>3. row'.revision = row.revision /\ row'.observed = row.observed
    <3>1. CASE MarkFailure(w)
      BY <3>1 DEF MarkFailure, TypeOK
    <3>2. CASE ~MarkFailure(w)
      BY <1>3, <2>2, <3>2 DEF Settle, Rescheduled, ScheduleRetry, Busy, PassOnly, CheckParked, Claim,
         Load, Verify, VerifyFails, Crash, Stall, NoticeLost, List, Fail
    <3>. QED BY <3>1, <3>2
  <2>. QED BY <1>1, <1>3, <2>1, <2>2, <2>3 DEF Quiet
<1>4. ASSUME NEW w \in Workers, Stall(w) PROVE OneAtATime'
  BY <1>4, <1>n DEF Stall, OneAtATime
<1>5. ASSUME NEW i \in Ids, Creates(i) PROVE OneAtATime'
  BY <1>1, <1>5 DEF Creates
<1>6. ASSUME Drift \/ UNCHANGED vars \/ \E i \in Ids : Prune(i) \/ RetryDue(i) PROVE OneAtATime'
  BY <1>1, <1>6 DEF Drift, vars, Prune, RetryDue
<1>. QED BY <1>2, <1>3, <1>4, <1>5, <1>6, Kinds

\* Nothing but a drift leaves the instance at another revision than the observed one.
LEMMA ObservedIsAppliedStep ==
    ASSUME TypeOK, Truthful, OneAtATime, ObservedIsApplied, [Next]_vars
    PROVE  ObservedIsApplied'
<1>n. /\ row.revision \in Nat /\ row.observed \in Nat /\ row.observed <= row.revision /\ stalls \in Nat
  BY Numbers, IntentConstants DEF TypeOK, Truthful
<1>1. ASSUME instance' \in {0, instance}, stalls' = stalls,
             row'.observed = row.observed, row'.revision \in {row.revision, row.revision + 1}
      PROVE  ObservedIsApplied'
  BY <1>1, <1>n DEF ObservedIsApplied
<1>2. ASSUME NEW w \in Workers, Settle(w) \/ Rescheduled(w) PROVE ObservedIsApplied'
  BY <1>1, <1>2 DEF Settle, Rescheduled, ScheduleRetry, Busy
<1>3. ASSUME NEW w \in Workers, PassOnly(w), ~Stall(w) PROVE ObservedIsApplied'
  <2>1. stalls' = stalls /\ (instance' = instance \/ Apply(w))
    BY <1>3, WorkerKinds
  <2>2. /\ row'.revision = row.revision
        /\ \/ row'.observed = row.observed
           \/ pass[w].revision = row.revision /\ Succeeding(w)
    BY <1>3, PassOnlyKeeps
  <2>3. CASE Apply(w)
    <3>1. row' = row /\ instance' = pass[w].revision /\ pass[w].at = "loaded"
      BY <2>3 DEF Apply
    <3>. QED BY <2>1, <3>1 DEF ObservedIsApplied, OneAtATime
  <2>4. CASE instance' = instance
    BY <2>1, <2>2, <2>4 DEF ObservedIsApplied, OneAtATime
  <2>. QED BY <2>1, <2>3, <2>4
<1>4. ASSUME NEW w \in Workers, Stall(w) PROVE ObservedIsApplied'
  BY <1>4, <1>n DEF Stall, ObservedIsApplied
<1>5. ASSUME NEW i \in Ids, Creates(i) PROVE ObservedIsApplied'
  BY <1>1, <1>5 DEF Creates
<1>6. ASSUME Drift \/ UNCHANGED vars \/ \E i \in Ids : Prune(i) \/ RetryDue(i)
      PROVE  ObservedIsApplied'
  BY <1>1, <1>6 DEF Drift, vars, Prune, RetryDue
<1>. QED BY <1>2, <1>3, <1>4, <1>5, <1>6, Kinds

\* What Settle may report as succeeded: a revision the row has observed, if it
\* is the row's, or an older one.
LEMMA SettledIsObserved ==
    ASSUME TypeOK, PassesKnow, Truthful, NEW w \in Workers, Settle(w)
    PROVE  \E r \in Revisions, st \in {"succeeded", "failed"} :
              /\ intent' = Settled(r, st)
              /\ st = "succeeded" /\ r >= row.revision => row.observed = row.revision
<1>n. /\ row.revision \in Nat /\ pass[w].revision \in Nat /\ pass[w].id \in Ids
      /\ intent[pass[w].id].target \in Nat
  BY Numbers
<1>1. PICK r \in Revisions, st \in {"succeeded", "failed"} :
         /\ intent' = Settled(r, st)
         /\ st = "succeeded" =>
               \/ pass[w].at = "marked" /\ pass[w].result = "success" /\ r = pass[w].revision
               \/ /\ pass[w].result = "stale" /\ r = intent[pass[w].id].target
  BY SettleIs
<1>2. pass[w].at \in {"decided", "marked"}
  BY DEF Settle
<1>3. pass[w].revision <= row.revision /\
      (pass[w].result = "stale" => intent[pass[w].id].target < row.revision)
  BY <1>2 DEF PassesKnow, Knows
<1>4. pass[w].at = "marked" /\ pass[w].result = "success" /\ pass[w].revision = row.revision =>
         row.observed = row.revision
  BY DEF Truthful
<1>5. st = "succeeded" /\ r >= row.revision => row.observed = row.revision
  BY <1>n, <1>1, <1>3, <1>4
<1>. QED BY <1>1, <1>5

\* A success reported for the current revision is an observed one.
LEMMA SucceededIsObservedStep ==
    ASSUME TypeOK, IntentOrder, PassesKnow, Truthful, SucceededIsObserved, [Next]_vars
    PROVE  SucceededIsObserved'
<1>. SUFFICES ASSUME NEW k \in Ids, intent'[k].status = "succeeded", intent'[k].target = row'.revision
              PROVE  row'.observed = row'.revision
  BY DEF SucceededIsObserved
<1>n. row.revision \in Nat /\ intent[k].target \in Nat
  BY Numbers
<1>1. ASSUME intent[k].status = "succeeded", intent'[k].target = intent[k].target,
             row'.revision = row.revision, row'.observed \in {row.observed, row.revision}
      PROVE  row'.observed = row'.revision
  BY <1>1 DEF SucceededIsObserved
<1>2. ASSUME NEW i \in Ids, Creates(i) PROVE row'.observed = row'.revision
  <2>1. intent'[k] = intent[k]
    BY <1>2 DEF Creates
  <2>2. intent[k].target <= row.revision
    BY <2>1 DEF IntentOrder
  <2>3. row'.revision = row.revision /\ row'.observed = row.observed
    BY <1>2, <1>n, <2>1, <2>2 DEF Creates
  <2>. QED BY <1>1, <2>1, <2>3
<1>3. ASSUME NEW i \in Ids, Prune(i) \/ RetryDue(i) PROVE row'.observed = row'.revision
  <2>0. intent \in [Ids -> Intents]
    BY DEF TypeOK, Intents
  <2>1. row' = row /\ intent[k].status = "succeeded" /\ intent'[k].target = intent[k].target
    BY <1>3, <2>0 DEF Prune, RetryDue, Intents
  <2>. QED BY <1>1, <2>1
<1>4. ASSUME NEW w \in Workers, Settle(w) PROVE row'.observed = row'.revision
  <2>1. PICK r \in Revisions, st \in {"succeeded", "failed"} :
           /\ intent' = Settled(r, st)
           /\ st = "succeeded" /\ r >= row.revision => row.observed = row.revision
    BY <1>4, SettledIsObserved
  <2>2. /\ intent'[k].target = intent[k].target
        /\ intent'[k].status = IF Swept(k, r) THEN st ELSE intent[k].status
    BY <2>1, SettledIs
  <2>3. row' = row
    BY <1>4 DEF Settle
  <2>4. CASE Swept(k, r)
    <3>1. intent[k].target <= r
      BY <2>4 DEF Swept
    <3>. QED BY <1>n, <2>1, <2>2, <2>3, <2>4, <3>1
  <2>5. CASE ~Swept(k, r)
    BY <1>1, <2>2, <2>3, <2>5
  <2>. QED BY <2>4, <2>5
<1>5. ASSUME NEW w \in Workers, Rescheduled(w) PROVE row'.observed = row'.revision
  BY <1>1, <1>5, RescheduledIs DEF Rescheduled, ScheduleRetry, Busy
<1>6. ASSUME NEW w \in Workers, PassOnly(w) PROVE row'.observed = row'.revision
  BY <1>1, <1>6, PassOnlyKeeps
<1>7. ASSUME Drift \/ UNCHANGED vars PROVE row'.observed = row'.revision
  BY <1>1, <1>7 DEF Drift, vars
<1>. QED BY <1>2, <1>3, <1>4, <1>5, <1>6, <1>7, Kinds

\* Until the current revision is observed, an intent for it can still be run or retried.
LEMMA DesireIsTrackedStep ==
    ASSUME TypeOK, IntentOrder, PassesKnow, Truthful, SucceededIsObserved, DesireIsTracked, [Next]_vars
    PROVE  DesireIsTracked'
<1>. SUFFICES ASSUME row'.observed # row'.revision
              PROVE  \E k \in Ids : intent'[k].target = row'.revision /\ intent'[k].status \in {"pending", "failed"}
  BY DEF DesireIsTracked
<1>n. row.revision \in Nat /\ \A i \in Ids : i \in Nat /\ intent[i].target \in Nat
  BY Numbers
<1>1. ASSUME row'.revision = row.revision, row'.observed \in {row.observed, row.revision},
             \A i \in Ids : intent'[i].target = intent[i].target /\ intent'[i].status = intent[i].status
      PROVE  \E k \in Ids : intent'[k].target = row'.revision /\ intent'[k].status \in {"pending", "failed"}
  BY <1>1 DEF DesireIsTracked
<1>2. ASSUME NEW i \in Ids, Creates(i)
      PROVE  \E k \in Ids : intent'[k].target = row'.revision /\ intent'[k].status \in {"pending", "failed"}
  BY <1>2 DEF Creates
<1>3. ASSUME NEW i \in Ids, Prune(i)
      PROVE  \E k \in Ids : intent'[k].target = row'.revision /\ intent'[k].status \in {"pending", "failed"}
  <2>0. intent \in [Ids -> Intents] /\ row' = row
    BY <1>3 DEF TypeOK, Intents, Prune
  <2>1. /\ \A j \in Ids : j # i => intent'[j] = intent[j]
        /\ Prunable(i) /\ intent[i].status \in {"succeeded", "failed"}
    BY <1>3, <2>0 DEF Prune
  <2>2. PICK k \in Ids : intent[k].target = row.revision /\ intent[k].status \in {"pending", "failed"}
    BY <2>0 DEF DesireIsTracked
  <2>3. CASE k # i
    BY <2>0, <2>1, <2>2, <2>3
  <2>4. CASE k = i
    <3>1. PICK j \in Ids : j > i /\ intent[j].status \notin {"none", "pruned"}
      BY <2>1 DEF Prunable
    <3>2. i < j /\ j # i
      BY <1>n, <3>1
    <3>3. intent[i].target <= intent[j].target /\ intent[j].target <= row.revision
      BY <3>1, <3>2 DEF IntentOrder
    <3>4. intent[j].target = row.revision
      BY <1>n, <2>2, <2>4, <3>3
    <3>5. intent[j].status \in {"pending", "failed"}
      BY <2>0, <3>1, <3>4 DEF SucceededIsObserved, Intents, Statuses
    <3>. QED BY <2>0, <2>1, <3>2, <3>4, <3>5
  <2>. QED BY <2>3, <2>4
<1>4. ASSUME NEW w \in Workers, Settle(w)
      PROVE  \E k \in Ids : intent'[k].target = row'.revision /\ intent'[k].status \in {"pending", "failed"}
  <2>1. PICK r \in Revisions, st \in {"succeeded", "failed"} :
           /\ intent' = Settled(r, st)
           /\ st = "succeeded" /\ r >= row.revision => row.observed = row.revision
    BY <1>4, SettledIsObserved
  <2>2. row' = row
    BY <1>4 DEF Settle
  <2>3. PICK k \in Ids : intent[k].target = row.revision /\ intent[k].status \in {"pending", "failed"}
    BY <2>2 DEF DesireIsTracked
  <2>4. /\ intent'[k].target = intent[k].target
        /\ intent'[k].status = IF Swept(k, r) THEN st ELSE intent[k].status
    BY <2>1, SettledIs
  <2>5. Swept(k, r) => r >= row.revision
    BY <1>n, <2>3 DEF Swept, Revisions
  <2>. QED BY <2>1, <2>2, <2>3, <2>4, <2>5
<1>5. ASSUME NEW w \in Workers, Rescheduled(w)
      PROVE  \E k \in Ids : intent'[k].target = row'.revision /\ intent'[k].status \in {"pending", "failed"}
  BY <1>1, <1>5, RescheduledIs DEF Rescheduled, ScheduleRetry, Busy
<1>6. ASSUME NEW w \in Workers, PassOnly(w)
      PROVE  \E k \in Ids : intent'[k].target = row'.revision /\ intent'[k].status \in {"pending", "failed"}
  BY <1>1, <1>6, PassOnlyKeeps
<1>7. ASSUME NEW i \in Ids, RetryDue(i)
      PROVE  \E k \in Ids : intent'[k].target = row'.revision /\ intent'[k].status \in {"pending", "failed"}
  <2>0. intent \in [Ids -> Intents]
    BY DEF TypeOK, Intents
  <2>1. row' = row /\ \A j \in Ids : intent'[j].target = intent[j].target /\ intent'[j].status = intent[j].status
    BY <1>7, <2>0 DEF RetryDue, Intents
  <2>. QED BY <1>1, <2>1
<1>8. ASSUME Drift \/ UNCHANGED vars
      PROVE  \E k \in Ids : intent'[k].target = row'.revision /\ intent'[k].status \in {"pending", "failed"}
  BY <1>1, <1>8 DEF Drift, vars
<1>. QED BY <1>2, <1>3, <1>4, <1>5, <1>6, <1>7, <1>8, Kinds

--------------------------------------------------------------------------------
(***************************************************************************)
(* The theorems                                                             *)
(***************************************************************************)

\* The first state has one pending intent and no working pass.
LEMMA InitHolds == Init => IInv
<1>. SUFFICES ASSUME Init PROVE IInv
  OBVIOUS
<1>1. TypeOK
  BY TypeInit
<1>2. /\ row.revision = 1 /\ row.observed = 0 /\ instance = 0 /\ 1 \in Ids
      /\ \A w \in Workers : pass[w].at = "idle" /\ pass[w].revision = 1
  BY IdleFields, IntentConstants DEF Init, Ids
<1>3. /\ [NoIntent EXCEPT !.status = "pending"].status = "pending"
      /\ [NoIntent EXCEPT !.status = "pending"].target = NoIntent.target
  BY RecordTypes DEF Intents
<1>4. NoIntent.status = "none" /\ NoIntent.target = 1
  BY DEF NoIntent
<1>5. /\ intent[1].status = "pending" /\ intent[1].target = 1
      /\ \A i \in Ids : i # 1 => intent[i].status = "none" /\ intent[i].target = 1
  BY <1>2, <1>3, <1>4 DEF Init
<1>6. IntentOrder
  <2>1. \A i, j \in Ids : i < j => j # 1
    BY IntentConstants DEF Ids
  <2>. QED BY <1>2, <1>5, <2>1 DEF IntentOrder
<1>7. PassesKnow
  BY <1>2 DEF PassesKnow, Knows
<1>8. Truthful
  BY <1>2 DEF Truthful, Succeeding, ObservedIsVerified
<1>9. OneAtATime
  BY <1>2 DEF OneAtATime, Working, Succeeding
<1>10. SucceededIsObserved /\ DesireIsTracked /\ ObservedIsApplied
  BY <1>2, <1>5 DEF SucceededIsObserved, DesireIsTracked, ObservedIsApplied
<1>. QED BY <1>1, <1>6, <1>7, <1>8, <1>9, <1>10 DEF IInv

\* Every step keeps the invariant, part by part.
LEMMA IInvStep == IInv /\ [Next]_vars => IInv'
BY TypeStep, IntentOrderStep, PassesKnowStep, TruthfulStep, OneAtATimeStep, ObservedIsAppliedStep,
   SucceededIsObservedStep, DesireIsTrackedStep DEF IInv

\* The invariant holds in every reachable state.
THEOREM Inductive == Spec => []IInv
BY InitHolds, IInvStep, PTL DEF Spec

\* The observed revision of a resource was verified on its instance by some
\* pass, and until a process stalls past its lease the instance is not left at
\* another one, whatever changes, crashes and concurrent passes there are.
THEOREM ObservationsAreTrue == Spec => []ObservedIsTrue
<1>1. IInv => ObservedIsTrue
  BY DEF IInv, Truthful, ObservedIsTrue
<1>. QED BY <1>1, Inductive, PTL

\* An intent of the current revision is reported as succeeded only when that
\* revision is observed: no sweep settles what was not done.
THEOREM SuccessIsObserved == Spec => []SucceededIsObserved
<1>1. IInv => SucceededIsObserved
  BY DEF IInv
<1>. QED BY <1>1, Inductive, PTL

\* A desired state that is not observed yet is never without an intent to run
\* or to retry, in particular not after a sweep and not after retention.
THEOREM DesireIsNeverForgotten == Spec => []DesireIsTracked
<1>1. IInv => DesireIsTracked
  BY DEF IInv
<1>. QED BY <1>1, Inductive, PTL

\* No step takes back an observation, or a settled intent's outcome: not a late
\* pass of a process that lost its lease, not the sweep of another intent.
THEOREM NothingIsTakenBack == Spec => NothingRegresses
<1>1. ASSUME IInv, [Next]_vars
      PROVE  /\ row'.observed >= row.observed
             /\ \A i \in Ids :
                  intent[i].status \in {"succeeded", "failed"} =>
                     intent'[i].status \in {intent[i].status, "pruned"}
  <2>0. TypeOK /\ intent \in [Ids -> Intents] /\ Truthful
    BY <1>1 DEF IInv, TypeOK, Intents
  <2>n. row.observed \in Nat /\ row.revision \in Nat /\ row.observed <= row.revision
    BY <2>0, Numbers DEF Truthful
  <2>1. ASSUME NEW i \in Ids, Creates(i)
        PROVE  /\ row'.observed = row.observed
               /\ \A k \in Ids : intent[k].status \in {"succeeded", "failed"} => intent'[k] = intent[k]
    BY <2>1 DEF Creates, IsFresh
  <2>2. ASSUME NEW i \in Ids, Prune(i) \/ RetryDue(i)
        PROVE  row' = row /\ \A k \in Ids : intent'[k].status \in {intent[k].status, "pruned"}
    BY <2>0, <2>2 DEF Prune, RetryDue, Intents
  <2>3. ASSUME NEW w \in Workers, Settle(w)
        PROVE  /\ row' = row
               /\ \A k \in Ids : intent[k].status # "pending" => intent'[k].status = intent[k].status
    BY <2>0, <2>3, SettleIs, SettledIs DEF Settle, Swept, Pending
  <2>4. ASSUME NEW w \in Workers, Rescheduled(w)
        PROVE  row' = row /\ \A k \in Ids : intent'[k].status = intent[k].status
    BY <2>0, <2>4, RescheduledIs DEF Rescheduled, ScheduleRetry, Busy
  <2>5. ASSUME NEW w \in Workers, PassOnly(w)
        PROVE  row'.observed \in {row.observed, row.revision} /\ intent' = intent
    BY <2>0, <2>5, PassOnlyKeeps
  <2>6. Drift \/ UNCHANGED vars => row' = row /\ intent' = intent
    BY DEF Drift, vars
  <2>. QED BY <1>1, <2>0, <2>n, <2>1, <2>2, <2>3, <2>4, <2>5, <2>6, Kinds
<1>. QED BY <1>1, Inductive, PTL DEF Spec, NothingRegresses

================================================================================
