----------------------------- MODULE ReconcileQueue -----------------------------
(***************************************************************************)
(* The queue loop of one backend process: runOnce and its single run promise, *)
(* the rounds of executeRunOnce with every await as an interleaving point,     *)
(* the resource chains and their limits, the wake, retry and scan timers, and   *)
(* the shutdown that drains it all.                                            *)
(*                                                                             *)
(* JavaScript runs one task at a time, so an action here is the code between    *)
(* two awaits, or a part of it where a split only adds interleavings.           *)
(* What an intent does to its resource is left to ReconcileIntents; here a      *)
(* chain step only decides whether the intent is settled, retried later or left *)
(* pending (parked resource, claim held elsewhere).  The specification is       *)
(* QueueSpec: ReconcileWorkerProofs extends this module and ReconcileClaims.    *)
(***************************************************************************)
EXTENDS Naturals, Sequences, FiniteSets

CONSTANTS
    Intents,        \* intents, ready or yet to be created
    Resources,      \* the resources they are for
    Hosts,        \* the servers those are on
    ResourceOf,     \* intent -> resource
    ServerOf,       \* resource -> server
    MaxChains,      \* MAX_CONCURRENT_RESOURCES
    MaxPerServer,   \* MAX_CONCURRENT_RESOURCES_PER_SERVER
    PageSize,       \* QUEUE_PAGE_SIZE
    MaxPages,       \* QUEUE_MAX_PAGES
    MaxFailures     \* bound: passes that end with a database error

ASSUME QueueConstants ==
    /\ IsFiniteSet(Intents) /\ IsFiniteSet(Resources)
    /\ ResourceOf \in [Intents -> Resources]
    /\ ServerOf \in [Resources -> Hosts]
    /\ MaxChains \in Nat \ {0} /\ MaxPerServer \in Nat \ {0}
    /\ PageSize \in Nat \ {0} /\ MaxPages \in Nat \ {0}
    /\ MaxFailures \in Nat

VARIABLES
    intent,     \* absent, ready, later (next_attempt_at ahead) or done
    chain,      \* per resource, the intents of its chain; <<>> when idle
    at,         \* where executeRunOnce stands; "none" when runPromise is unset
    rerun,      \* rerunRequested
    again,      \* retryAttempted
    attempted,  \* intents handed to a chain in this pass
    seen,       \* intents looked at in this drain
    items,      \* intents of the page still to look at, in order
    fullPage,   \* the page had PageSize items
    pages,      \* pages drained so far
    wakeTimer, retryTimer,
    scan,       \* where executeFullScan stands
    rescan,     \* rescanRequested
    stopping,
    failures    \* passes that failed, up to MaxFailures

loop == <<at, rerun, again, attempted, seen, items, fullPage, pages>>
timers == <<wakeTimer, retryTimer>>
queueVars == <<intent, chain, loop, timers, scan, rescan, stopping, failures>>

Points == {"none", "top", "list", "drain", "full", "arm", "waiting", "check", "finished", "failed"}
ScanPoints == {"idle", "first", "body", "second"}

QueueTypeOK ==
    /\ intent \in [Intents -> {"absent", "ready", "later", "done"}]
    /\ chain \in [Resources -> Seq(Intents)]
    /\ at \in Points
    /\ rerun \in BOOLEAN /\ again \in BOOLEAN
    /\ attempted \subseteq Intents /\ seen \subseteq Intents /\ items \in Seq(Intents)
    /\ fullPage \in BOOLEAN /\ pages \in 0..MaxPages
    /\ wakeTimer \in BOOLEAN /\ retryTimer \in BOOLEAN
    /\ scan \in ScanPoints /\ rescan \in BOOLEAN /\ stopping \in BOOLEAN
    /\ failures \in 0..MaxFailures

\* onApplicationBootstrap: some intents are left from an earlier process, and
\* the first full scan is started, which starts a pass.
QueueInit ==
    /\ intent \in [Intents -> {"absent", "ready"}]
    /\ chain = [r \in Resources |-> <<>>]
    /\ at = "top" /\ rerun = FALSE /\ again = FALSE
    /\ attempted = {} /\ seen = {} /\ items = <<>> /\ fullPage = FALSE /\ pages = 0
    /\ wakeTimer = FALSE /\ retryTimer = FALSE
    /\ scan = "first" /\ rescan = FALSE /\ stopping = FALSE /\ failures = 0

--------------------------------------------------------------------------------
(***************************************************************************)
(* ResourceChains                                                           *)
(***************************************************************************)

Busy == {r \in Resources : chain[r] # <<>>}
Queued == UNION {{chain[r][n] : n \in DOMAIN chain[r]} : r \in Resources}
ServerLoad(s) == Cardinality({r \in Busy : ServerOf[r] = s})
Full == Cardinality(Busy) >= MaxChains

\* Mutant: only the process-wide limit counts.
AdmitsMutant(i) == ResourceOf[i] \in Busy \/ Cardinality(Busy) < MaxChains

Admits(i) ==
    \/ ResourceOf[i] \in Busy
    \/ Cardinality(Busy) < MaxChains /\ ServerLoad(ServerOf[ResourceOf[i]]) < MaxPerServer

\* Mutant: an idle chain does not wake the pass that waits for it.
SignalMutant(point) == point

\* signal(): a pass in nextChange() goes on, with rerunRequested set.
Signal(point) == IF point = "waiting" THEN "check" ELSE point

\* The work at the head of a chain ends: the intent is settled, retried later
\* or left as it is.  A chain gone idle frees its slot, signals, and lets a
\* pass in anyIdle() go on.
ChainStep(r, outcome) ==
    LET idle == Len(chain[r]) = 1 IN
    /\ r \in Busy
    /\ intent' = [intent EXCEPT ![Head(chain[r])] = outcome]
    /\ chain' = [chain EXCEPT ![r] = Tail(@)]
    /\ at' = IF ~idle THEN at ELSE IF at = "full" THEN "drain" ELSE Signal(at)
    /\ rerun' = (rerun \/ (idle /\ at = "waiting"))
    /\ UNCHANGED <<again, attempted, seen, items, fullPage, pages, timers, scan, rescan, stopping, failures>>

--------------------------------------------------------------------------------
(***************************************************************************)
(* runOnce and the timers that call it                                      *)
(***************************************************************************)

\* runOnce(): start a pass, or ask the running one for another round.
RunOnce ==
    IF at = "none"
    THEN /\ at' = "top"
         /\ attempted' = {}
         /\ UNCHANGED <<rerun, again>>
    ELSE /\ rerun' = TRUE
         /\ again' = TRUE
         /\ at' = Signal(at)
         /\ UNCHANGED attempted

\* createPending and its after-commit wake.
Create(i) ==
    /\ ~stopping
    /\ intent[i] = "absent"
    /\ intent' = [intent EXCEPT ![i] = "ready"]
    /\ wakeTimer' = TRUE
    /\ UNCHANGED <<chain, loop, retryTimer, scan, rescan, stopping, failures>>

\* next_attempt_at passes.
Due(i) ==
    /\ intent[i] = "later"
    /\ intent' = [intent EXCEPT ![i] = "ready"]
    /\ UNCHANGED <<chain, loop, timers, scan, rescan, stopping, failures>>

WakeFires ==
    /\ wakeTimer
    /\ wakeTimer' = FALSE
    /\ RunOnce
    /\ UNCHANGED <<intent, chain, seen, items, fullPage, pages, retryTimer, scan, rescan, stopping, failures>>

RetryFires ==
    /\ retryTimer
    /\ retryTimer' = FALSE
    /\ IF stopping THEN UNCHANGED <<at, rerun, again, attempted>> ELSE RunOnce
    /\ UNCHANGED <<intent, chain, seen, items, fullPage, pages, wakeTimer, scan, rescan, stopping, failures>>

\* The minute timer; a scan in progress is not joined.
ScanTick ==
    /\ scan = "idle" /\ ~stopping
    /\ scan' = "first"
    /\ RunOnce
    /\ UNCHANGED <<intent, chain, seen, items, fullPage, pages, timers, rescan, stopping, failures>>

\* requestFullScan while one is in progress (otherwise it is a ScanTick).
RequestScan ==
    /\ scan # "idle" /\ ~stopping /\ ~rescan
    /\ rescan' = TRUE
    /\ UNCHANGED <<intent, chain, loop, timers, scan, stopping, failures>>

\* The servers were scanned: the second runOnce of the scan.
ScanBody ==
    /\ scan = "body"
    /\ IF stopping
       THEN scan' = "idle" /\ UNCHANGED <<at, rerun, again, attempted>>
       ELSE scan' = "second" /\ RunOnce
    /\ UNCHANGED <<intent, chain, seen, items, fullPage, pages, timers, rescan, stopping, failures>>

--------------------------------------------------------------------------------
(***************************************************************************)
(* executeRunOnce                                                           *)
(***************************************************************************)

\* The start of a round, up to the await of reapExpired().
Top ==
    /\ at = "top"
    /\ rerun' = FALSE
    /\ again' = FALSE
    /\ attempted' = IF again THEN {} ELSE attempted
    /\ at' = IF stopping THEN "finished" ELSE "list"
    /\ seen' = {} /\ items' = <<>> /\ pages' = 0
    /\ UNCHANGED <<intent, chain, fullPage, timers, scan, rescan, stopping, failures>>

\* listPending without the excluded ids.
Listed == {i \in Intents : intent[i] = "ready"} \ (seen \cup attempted \cup Queued)

\* The pages listPending may return: Listed, in some order of creation, cut at
\* PageSize.
Page ==
    LET size == IF Cardinality(Listed) < PageSize THEN Cardinality(Listed) ELSE PageSize IN
    {p \in [1..size -> Listed] : Cardinality({p[n] : n \in 1..size}) = size}

\* One page of ready intents.
List ==
    /\ at = "list"
    /\ \E page \in Page :
          /\ items' = page
          /\ fullPage' = (Len(page) = PageSize)
    /\ pages' = pages + 1
    /\ at' = "drain"
    /\ UNCHANGED <<intent, chain, rerun, again, attempted, seen, timers, scan, rescan, stopping, failures>>

\* The next intent of the page: hand it to its chain, skip it when its server
\* is at its limit, or wait while every slot is taken.
Drain ==
    LET i == Head(items) IN
    /\ at = "drain" /\ items # <<>> /\ ~stopping
    /\ seen' = seen \cup {i}
    /\ IF Full /\ ~Admits(i)
       THEN at' = "full" /\ UNCHANGED <<items, attempted, chain>>
       ELSE /\ items' = Tail(items)
            /\ IF Admits(i)
               THEN /\ attempted' = attempted \cup {i}
                    /\ chain' = [chain EXCEPT ![ResourceOf[i]] = Append(@, i)]
               ELSE UNCHANGED <<attempted, chain>>
            /\ UNCHANGED at
    /\ UNCHANGED <<intent, rerun, again, fullPage, pages, timers, scan, rescan, stopping, failures>>

\* The page budget of a drain.
MorePages == pages < MaxPages

\* The page is done: the next page, another round when the page budget ran
\* out, or on to the retry timer.
PageDone ==
    /\ at = "drain"
    /\ items = <<>> \/ stopping
    /\ at' = IF stopping \/ ~fullPage THEN "arm"
             ELSE IF MorePages THEN "list" ELSE "check"
    /\ rerun' = (rerun \/ (~stopping /\ fullPage /\ ~MorePages))
    /\ UNCHANGED <<intent, chain, again, attempted, seen, items, fullPage, pages,
                   timers, scan, rescan, stopping, failures>>

\* armRetryTimer, then nextChange() while chains run.
Arm ==
    /\ at = "arm"
    /\ retryTimer' = (retryTimer \/ (~stopping /\ \E i \in Intents : intent[i] = "later"))
    /\ at' = IF Busy # {} THEN "waiting" ELSE "check"
    /\ UNCHANGED <<intent, chain, rerun, again, attempted, seen, items, fullPage, pages,
                   wakeTimer, scan, rescan, stopping, failures>>

\* The condition of the do-while.
Check ==
    /\ at = "check"
    /\ at' = IF rerun /\ ~stopping THEN "top" ELSE "finished"
    /\ UNCHANGED <<intent, chain, rerun, again, attempted, seen, items, fullPage, pages,
                   timers, scan, rescan, stopping, failures>>

\* A query of the pass fails: reapExpired, listPending or nextRetryAt.  The
\* chains it started go on without it.
PassFails ==
    /\ at \in {"list", "arm"} /\ failures < MaxFailures
    /\ failures' = failures + 1
    /\ at' = "failed"
    /\ UNCHANGED <<intent, chain, rerun, again, attempted, seen, items, fullPage, pages,
                   timers, scan, rescan, stopping>>

\* finishScan: the end of the pass its second runOnce waits for, or a failure
\* of the first, ends the scan.
ScanEnds == scan = "second" \/ (at = "failed" /\ scan = "first")

\* finishRun, and the scan that awaited this promise: its first runOnce leads
\* to the scan's body; its end starts a requested rescan.  The pass that starts
\* serves both callers.
Finish ==
    LET rescans == ScanEnds /\ rescan /\ ~stopping IN
    /\ at \in {"finished", "failed"}
    /\ at' = IF (rerun \/ rescans) /\ ~stopping THEN "top" ELSE "none"
    /\ rerun' = FALSE
    /\ attempted' = {}
    /\ scan' = CASE rescans -> "first"
                 [] ScanEnds /\ ~rescans -> "idle"
                 [] ~ScanEnds /\ scan = "first" -> "body"
                 [] OTHER -> scan
    /\ rescan' = (rescan /\ ~ScanEnds)
    /\ UNCHANGED <<intent, chain, again, seen, items, fullPage, pages, timers, stopping, failures>>

\* onModuleDestroy: timers cleared, one signal; the rest drains.
Stop ==
    /\ ~stopping
    /\ stopping' = TRUE
    /\ wakeTimer' = FALSE /\ retryTimer' = FALSE
    /\ at' = Signal(at)
    /\ rerun' = (rerun \/ at = "waiting")
    /\ UNCHANGED <<intent, chain, again, attempted, seen, items, fullPage, pages, scan, rescan, failures>>

LoopStep ==
    \/ Top \/ List \/ Drain \/ PageDone \/ Arm \/ Check \/ Finish \/ ScanBody

QueueNext ==
    \/ LoopStep
    \/ PassFails
    \/ \E r \in Resources, outcome \in {"done", "later", "ready"} : ChainStep(r, outcome)
    \/ \E i \in Intents : Create(i) \/ Due(i)
    \/ WakeFires \/ RetryFires \/ ScanTick \/ RequestScan
    \/ Stop

QueueSpec == QueueInit /\ [][QueueNext]_queueVars

\* The event loop runs, timers fire, time passes and every Incus call ends.
FairQueueSpec ==
    /\ QueueSpec
    /\ WF_queueVars(LoopStep)
    /\ WF_queueVars(WakeFires) /\ WF_queueVars(RetryFires) /\ WF_queueVars(ScanTick)
    /\ \A i \in Intents : WF_queueVars(Due(i))
    /\ \A r \in Resources : WF_queueVars(\E o \in {"done", "later", "ready"} : ChainStep(r, o))

--------------------------------------------------------------------------------
(***************************************************************************)
(* Properties                                                               *)
(***************************************************************************)

\* However many pages, wakes and retries pile up, the process never works on
\* more resources, or on more of one server, than its limits allow.
LimitsHold ==
    /\ Cardinality(Busy) <= MaxChains
    /\ \A s \in Hosts : ServerLoad(s) <= MaxPerServer

\* An intent is never queued twice, so it is never reconciled twice by one
\* listing; a wake that clears "attempted" finds it in queuedIds.
QueuedOnce ==
    \A r \in Resources : Cardinality({chain[r][n] : n \in DOMAIN chain[r]}) = Len(chain[r])

\* The chains stay within their limits and hold an intent once.
ChainsInOrder == QueueTypeOK /\ LimitsHold /\ QueuedOnce

\* A ready intent is handed to its chain in the end, whatever wake, retry or
\* finished chain fell between two awaits, as long as the process runs.
ReadyIsQueued ==
    \A i \in Intents :
        (intent[i] = "ready" /\ i \notin Queued) ~> (i \in Queued \/ intent[i] # "ready" \/ stopping)

\* Once it is told to stop, the process comes to rest: no chain, no pass, no scan.
ShutdownCompletes == stopping ~> (Busy = {} /\ at = "none" /\ scan = "idle")

================================================================================
