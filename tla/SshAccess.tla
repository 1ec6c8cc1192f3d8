----------------------------- MODULE SshAccess -----------------------------
(***************************************************************************)
(* Who may pass the SSH proxy, from the committed change of an authorization *)
(* to the last byte of a bridge it revokes.  The Backend's gateway builds    *)
(* snapshots and broadcasts them; the proxy installs them, pauses when its   *)
(* control link goes, and gives up when the lease or the hold ends; its SSH  *)
(* sessions authenticate and open bridges meanwhile.  The threads of the     *)
(* proxy are its backend loop, its control timer and the session's handler.  *)
(*                                                                           *)
(* One user.  Routes are the user's containers: a snapshot holds the routes  *)
(* the key may reach, and the user only if there is one.  A snapshot's time  *)
(* is counted in ticks (left) from the read of the database; skew between    *)
(* the clocks is not modelled.                                               *)
(***************************************************************************)
EXTENDS Integers, Sequences

CONSTANTS Routes,
          Before,       \* the routes authorized at first
          Lease,        \* ticks a snapshot is valid (staleAfterMs)
          Hold,         \* ticks a pause may last (NYABASE_SSH_CONTROL_HOLD_MS)
          MaxChanges,   \* changes of the authorization
          MaxFaults     \* lost links, crashes, failed builds, late frames

ASSUME AccessConstants ==
    /\ Before \subseteq Routes
    /\ Lease \in Nat \ {0} /\ Hold \in Nat \ {0}
    /\ MaxChanges \in Nat /\ MaxFaults \in Nat

VARIABLES
    granted,    \* routes the database authorizes
    since,      \* ticks since a route was revoked
    hook,       \* a change is committed and its notify() has not run
    up,         \* the Backend process runs
    cast,       \* flushSnapshotBroadcasts and its build
    dirty,      \* snapshotDirty
    renew,      \* the renewal timer is due
    link,       \* the control WebSocket: down, init (not admitted yet) or up
    init,       \* the build of the initial snapshot
    wire,       \* frames on their way to the proxy
    store,      \* SnapshotStore.current
    mode,       \* ControlPlane.mode; it admits when authoritative
    hold,       \* ticks to hold_deadline
    loop,       \* where run_backend_loop stands, and the snapshot it loaded
    timer,      \* where run_control_timers stands
    conn,       \* one SSH connection
    chan,       \* its direct-tcpip channel
    changes, faults

backend == <<granted, since, hook, up, cast, dirty, renew, link, init>>
sessions == <<conn, chan>>
control == <<store, mode, hold>>
vars == <<backend, wire, control, loop, timer, sessions, changes, faults>>

None == [kind |-> "none"]
Snapshot(view, left, late) == [kind |-> "snapshot", view |-> view, left |-> left, late |-> late]
NoBuild == [at |-> "idle", view |-> {}, left |-> 0, live |-> FALSE, overtaken |-> FALSE]

\* buildSnapshot reads everything, the clock included, in one repeatable-read transaction.
Build == [at |-> "read", view |-> granted, left |-> Lease, live |-> TRUE, overtaken |-> FALSE]

NoConn == [at |-> "none", login |-> FALSE, pin |-> {}, revoked |-> FALSE]
NoChan == [at |-> "none", to |-> {}, alive |-> FALSE]

Faulty == faults < MaxFaults /\ faults' = faults + 1

-----------------------------------------------------------------------------
(* The Backend *)

\* What a change of keys, grants, containers or servers makes of the routes.
Change ==
    /\ up /\ ~hook
    /\ changes < MaxChanges
    /\ changes' = changes + 1
    /\ \E g \in SUBSET Routes \ {granted}:
         /\ granted' = g
         /\ since' = [r \in Routes |-> IF r \in g \/ r \in granted THEN 0 ELSE since[r]]
    /\ hook' = TRUE
    /\ UNCHANGED <<up, cast, dirty, renew, link, init, wire, control, loop, timer, sessions, faults>>

\* The while loop of flushSnapshotBroadcasts, entered with the dirty bit set:
\* it ends at once when no proxy is admitted.
Flush ==
    /\ cast' = IF link = "up" THEN Build ELSE NoBuild
    /\ dirty' = FALSE

\* Mutant: builds in flight stay publishable.
KeepRevision(b) == b

\* snapshotRevision = {}: whatever is being built was started before.
Outdated(b) == [b EXCEPT !.live = FALSE]

\* The after-commit notify() of a change: broadcastSnapshot.
Invalidate ==
    /\ up /\ hook
    /\ hook' = FALSE
    /\ init' = Outdated(init)
    /\ renew' = FALSE
    /\ IF cast.at = "idle" THEN Flush ELSE cast' = Outdated(cast) /\ dirty' = TRUE
    /\ UNCHANGED <<granted, since, up, link, wire, control, loop, timer, sessions, changes, faults>>

\* Mutant: the dirty bit is taken for a flush under way.
LeavesDirty == cast.at = "idle" /\ link = "up" /\ ~dirty

\* A build under way serves a renewal as well.
RenewalBuilds == cast.at = "idle" /\ link = "up"

\* The renewal timer.
Renew ==
    /\ up /\ renew
    /\ renew' = FALSE
    /\ IF RenewalBuilds THEN Flush ELSE UNCHANGED <<cast, dirty>>
    /\ UNCHANGED <<granted, since, hook, up, link, init, wire, control, loop, timer, sessions,
                   changes, faults>>

\* The generation is given at the end of the build, before its COMMIT returns.
CastNumbered ==
    /\ cast.at = "read"
    /\ cast' = [cast EXCEPT !.at = "numbered"]
    /\ UNCHANGED <<granted, since, hook, up, dirty, renew, link, init, wire, control, loop, timer,
                   sessions, changes, faults>>

\* A build of an older revision is dropped and made again; else it goes to the
\* admitted proxy, with a generation below that of an initial snapshot that overtook it.
CastSend ==
    /\ cast.at = "numbered"
    /\ wire' = IF cast.live /\ link = "up"
                 THEN Append(wire, Snapshot(cast.view, cast.left, cast.overtaken))
                 ELSE wire
    /\ IF dirty \/ ~cast.live THEN Flush ELSE cast' = NoBuild /\ UNCHANGED dirty
    /\ UNCHANGED <<granted, since, hook, up, renew, link, init, control, loop, timer, sessions,
                   changes, faults>>

CastFails ==
    /\ cast.at = "read"
    /\ Faulty
    /\ cast' = NoBuild
    /\ dirty' = TRUE
    /\ UNCHANGED <<granted, since, hook, up, renew, link, init, wire, control, loop, timer,
                   sessions, changes>>

InitNumbered ==
    /\ init.at = "read"
    /\ init' = [init EXCEPT !.at = "numbered"]
    /\ cast' = [cast EXCEPT !.overtaken = cast.at = "numbered"]
    /\ UNCHANGED <<granted, since, hook, up, dirty, renew, link, wire, control, loop, timer,
                   sessions, changes, faults>>

\* handleConnection: built again if the revision moved, else admitted and sent.
Admit ==
    /\ init.at = "numbered"
    /\ IF init.live
         THEN /\ init' = NoBuild
              /\ link' = "up"
              /\ wire' = Append(wire, Snapshot(init.view, init.left, FALSE))
         ELSE init' = Build /\ UNCHANGED <<link, wire>>
    /\ UNCHANGED <<granted, since, hook, up, cast, dirty, renew, control, loop, timer, sessions,
                   changes, faults>>

\* The link breaks, or the heartbeat or read deadline gives it up; frames sent
\* before may still be read.
LinkLost ==
    /\ link # "down"
    /\ Faulty
    /\ link' = "down" /\ init' = NoBuild
    /\ wire' \in {wire, <<>>}
    /\ UNCHANGED <<granted, since, hook, up, cast, dirty, renew, control, loop, timer, sessions,
                   changes>>

\* The process ends; on a clean shutdown it says pauseAdmit first.
BackendStops ==
    /\ up
    /\ Faulty
    /\ up' = FALSE /\ hook' = FALSE /\ cast' = NoBuild /\ dirty' = FALSE /\ renew' = FALSE
    /\ link' = "down" /\ init' = NoBuild
    /\ wire' \in {wire, <<>>}
                 \cup (IF link = "up" THEN {Append(wire, [kind |-> "pauseAdmit"])} ELSE {})
    /\ UNCHANGED <<granted, since, control, loop, timer, sessions, changes>>

BackendStarts ==
    /\ ~up
    /\ up' = TRUE
    /\ UNCHANGED <<granted, since, hook, cast, dirty, renew, link, init, wire, control, loop, timer,
                   sessions, changes, faults>>

-----------------------------------------------------------------------------
(* Sessions, as the other threads see them *)

Fresh == store # None /\ store.left > 0
Admits == mode = "authoritative"

\* authorization_matches: a connection that is not logged in has nothing to revoke.
Matches(c, s) ==
    \/ ~c.login
    \/ s # None /\ s.view # {} /\ c.pin \subseteq s.view

\* abort: the connection and every child registered with it.
AbortWhen(gone) ==
    IF gone /\ conn.at # "none" /\ ~conn.revoked
      THEN /\ conn' = [conn EXCEPT !.revoked = TRUE]
           /\ chan' = IF chan.at = "open" THEN NoChan ELSE [chan EXCEPT !.alive = FALSE]
      ELSE UNCHANGED sessions

Registered == conn.at \notin {"none", "accepted"}

-----------------------------------------------------------------------------
(* The proxy's backend loop *)

To(at) == loop' = [loop EXCEPT !.at = at]

\* run_backend_once: a new link is a new epoch; the held snapshot stays.
Connect ==
    /\ loop.at = "down" /\ up
    /\ link' = "init"
    /\ init' = Build
    /\ wire' = <<>>
    /\ store' = IF store = None THEN None ELSE [store EXCEPT !.epoch = FALSE]
    /\ To("up")
    /\ UNCHANGED <<granted, since, hook, up, cast, dirty, renew, mode, hold, timer, sessions,
                   changes, faults>>

\* store(): a generation that is not above the installed one of this epoch.
Ignored(m) == store # None /\ store.epoch /\ m.late

Install ==
    /\ loop.at = "up" /\ wire # <<>> /\ Head(wire).kind = "snapshot"
    /\ wire' = Tail(wire)
    /\ LET m == Head(wire) IN
         IF m.left = 0 THEN To("clear") /\ UNCHANGED store
         ELSE IF Ignored(m) THEN UNCHANGED <<store, loop>>
         ELSE /\ store' = [kind |-> "snapshot", view |-> m.view, left |-> m.left, epoch |-> TRUE]
              /\ To("scan")
    /\ UNCHANGED <<backend, mode, hold, timer, sessions, changes, faults>>

\* disconnect_invalid with the snapshot just loaded: first the connections ...
DisconnectInvalid ==
    /\ loop.at = "scan"
    /\ loop' = [at |-> "bridges", cur |-> store]
    /\ AbortWhen(Registered /\ ~Matches(conn, store))
    /\ UNCHANGED <<backend, wire, control, timer, changes, faults>>

\* ... then the bridges of the survivors (abort_revoked_bridges).
Bound == chan.at \in {"bound", "checked", "open"}
CloseBridges ==
    /\ loop.at = "bridges"
    /\ To("resume")
    /\ chan' = IF loop.cur # None /\ Bound /\ ~(chan.to \subseteq loop.cur.view)
                 THEN IF chan.at = "open" THEN NoChan ELSE [chan EXCEPT !.alive = FALSE]
                 ELSE chan
    /\ UNCHANGED <<backend, wire, control, timer, conn, changes, faults>>

Resume ==
    /\ loop.at = "resume"
    /\ mode' = "authoritative" /\ hold' = Hold
    /\ loop' = [at |-> "up", cur |-> None]
    /\ UNCHANGED <<backend, wire, store, timer, sessions, changes, faults>>

\* ControlPlane.pause
Pause == IF Admits THEN mode' = "paused" /\ hold' = Hold ELSE UNCHANGED <<mode, hold>>

PauseAdmit ==
    /\ loop.at = "up" /\ wire # <<>> /\ Head(wire).kind = "pauseAdmit"
    /\ wire' = Tail(wire)
    /\ Pause
    /\ To("abort")
    /\ UNCHANGED <<backend, store, timer, sessions, changes, faults>>

Disconnected ==
    /\ loop.at = "up" /\ link = "down" /\ wire = <<>>
    /\ Pause
    /\ To("abortLast")
    /\ UNCHANGED <<backend, wire, store, timer, sessions, changes, faults>>

AbortUnauthenticated ==
    /\ loop.at \in {"abort", "abortLast"}
    /\ AbortWhen(Registered /\ ~conn.login)
    /\ To(IF loop.at = "abort" THEN "up" ELSE "down")
    /\ UNCHANGED <<backend, wire, control, timer, changes, faults>>

\* revoke_control_plane after a rejected snapshot; the error ends the link.
Clear ==
    /\ loop.at = "clear"
    /\ store' = None
    /\ To("revoke")
    /\ UNCHANGED <<backend, wire, mode, hold, timer, sessions, changes, faults>>

Revoke ==
    /\ loop.at = "revoke"
    /\ mode' = "empty" /\ hold' = Hold
    /\ To("drop")
    /\ UNCHANGED <<backend, wire, store, timer, sessions, changes, faults>>

DropAll ==
    /\ loop.at = "drop"
    /\ AbortWhen(Registered /\ ~Matches(conn, None))
    /\ link' = "down" /\ init' = NoBuild /\ wire' = <<>>
    /\ To("up")
    /\ UNCHANGED <<granted, since, hook, up, cast, dirty, renew, control, timer, changes, faults>>

LoopStep ==
    \/ Connect \/ Install \/ DisconnectInvalid \/ CloseBridges \/ Resume
    \/ PauseAdmit \/ Disconnected \/ AbortUnauthenticated \/ Clear \/ Revoke \/ DropAll

-----------------------------------------------------------------------------
(* The proxy's control timer *)

\* Mutant: a pause holds the snapshot past its lease.
HoldOnly == mode = "paused" /\ hold = 0

\* paused_deadline: the hold, and never past the lease of the held snapshot.
PausedDue == mode = "paused" /\ (hold = 0 \/ (store # None /\ ~Fresh))

TimerDue == PausedDue \/ (Admits /\ store # None /\ ~Fresh)

\* The deadline: expire() drops the snapshot itself, then it is revoked.
TimerFires ==
    /\ timer = "idle" /\ TimerDue
    /\ store' = IF Admits THEN None ELSE store
    /\ timer' = "clear"
    /\ UNCHANGED <<backend, wire, mode, hold, loop, sessions, changes, faults>>

TimerClears ==
    /\ timer = "clear"
    /\ store' = None
    /\ timer' = "revoke"
    /\ UNCHANGED <<backend, wire, mode, hold, loop, sessions, changes, faults>>

TimerRevokes ==
    /\ timer = "revoke"
    /\ mode' = "empty" /\ hold' = Hold
    /\ timer' = "drop"
    /\ UNCHANGED <<backend, wire, store, loop, sessions, changes, faults>>

TimerDrops ==
    /\ timer = "drop"
    /\ AbortWhen(Registered /\ ~Matches(conn, None))
    /\ timer' = "idle"
    /\ UNCHANGED <<backend, wire, control, loop, changes, faults>>

TimerStep == TimerFires \/ TimerClears \/ TimerRevokes \/ TimerDrops

-----------------------------------------------------------------------------
(* The session's handler.  It runs in a task of its own and goes on for a   *)
(* while after an abort.                                                    *)

rest == <<backend, wire, control, loop, timer, changes, faults>>

PauseRejecting == ~Admits /\ store # None

Accept ==
    /\ conn.at = "none" /\ Admits
    /\ conn' = [NoConn EXCEPT !.at = "accepted"]
    /\ UNCHANGED <<rest, chan>>

Register ==
    /\ conn.at = "accepted"
    /\ conn' = IF Fresh THEN [conn EXCEPT !.at = "pre"] ELSE NoConn
    /\ UNCHANGED <<rest, chan>>

\* auth_verified_key: a login that names a container of the user pins its route.
Verify ==
    /\ conn.at = "pre"
    /\ \/ PauseRejecting /\ conn' = [conn EXCEPT !.at = "accept"]
       \/ /\ Admits /\ Fresh /\ store.view # {}
          /\ \E p \in {{}} \cup {{r} : r \in store.view}:
               conn' = [conn EXCEPT !.at = "verified", !.pin = p]
    /\ UNCHANGED <<rest, chan>>

SetAuthenticated ==
    /\ conn.at = "verified"
    /\ conn' = [conn EXCEPT !.at = "accept", !.login = TRUE]
    /\ UNCHANGED <<rest, chan>>

\* What auth_succeeded looks at again.
StillAuthorized == ~PauseRejecting /\ Matches(conn, store)

AuthSucceeded ==
    /\ conn.at = "accept"
    /\ conn' = IF StillAuthorized THEN [conn EXCEPT !.at = "open"] ELSE NoConn
    /\ UNCHANGED <<rest, chan>>

\* authorized_route_for_target
Authorized(r) == conn.login /\ Fresh /\ r \in store.view

\* channel_open_direct_tcpip up to the connect, with its child task reserved.
OpenChannel ==
    /\ conn.at = "open" /\ chan.at = "none" /\ ~conn.revoked
    /\ ~PauseRejecting
    /\ \E r \in Routes: Authorized(r) /\ chan' = [at |-> "connecting", to |-> {r}, alive |-> TRUE]
    /\ UNCHANGED <<rest, conn>>

BindRoute ==
    /\ chan.at = "connecting"
    /\ chan' \in {[chan EXCEPT !.at = "bound"], NoChan}
    /\ UNCHANGED <<rest, conn>>

\* Mutant: the bridge is opened without looking again.
NoRecheck == TRUE

\* The check after bind_route.
Rechecked == \A r \in chan.to: Authorized(r)

Recheck ==
    /\ chan.at = "bound"
    /\ chan' = IF Rechecked THEN [chan EXCEPT !.at = "checked"] ELSE NoChan
    /\ UNCHANGED <<rest, conn>>

\* spawn_tcp_bridge: an aborted registration ends the bridge before it runs.
Spawn ==
    /\ chan.at = "checked"
    /\ chan' = IF chan.alive THEN [chan EXCEPT !.at = "open"] ELSE NoChan
    /\ UNCHANGED <<rest, conn>>

ChannelEnds ==
    /\ chan.at = "open"
    /\ chan' = NoChan
    /\ UNCHANGED <<rest, conn>>

\* The session ends on its own, or after an abort; its children end with it.
ConnectionEnds ==
    /\ conn.at # "none"
    /\ conn' = NoConn /\ chan' = NoChan
    /\ UNCHANGED rest

SessionStep ==
    \/ Accept \/ Register \/ Verify \/ SetAuthenticated \/ AuthSucceeded
    \/ OpenChannel \/ BindRoute \/ Recheck \/ Spawn \/ ChannelEnds \/ ConnectionEnds

-----------------------------------------------------------------------------
Less(n) == IF n = 0 THEN 0 ELSE n - 1
Aged(b) == [b EXCEPT !.left = Less(b.left)]

\* Timers fire when they are due and what runs without waiting takes no time.
\* Time that passes while a change, a build or a frame is under way is a fault;
\* an initial build or a frame that is late already may become later.
Punctual ==
    \/ hook \/ cast.at # "idle"
    \/ init.at # "idle" /\ init.left = Lease
    \/ \E i \in 1 .. Len(wire): wire[i].kind = "snapshot" => wire[i].left = Lease

Tick ==
    /\ ~renew /\ ~TimerDue /\ timer = "idle"
    /\ loop.at \in {"up", "down"}
    /\ IF Punctual THEN Faulty ELSE UNCHANGED faults
    /\ since' = [r \in Routes |-> IF r \in granted \/ since[r] > Lease THEN since[r] ELSE since[r] + 1]
    /\ renew' = up
    /\ cast' = Aged(cast) /\ init' = Aged(init)
    /\ wire' = [i \in 1 .. Len(wire) |-> IF wire[i].kind = "snapshot" THEN Aged(wire[i]) ELSE wire[i]]
    /\ store' = IF store = None THEN None ELSE Aged(store)
    /\ hold' = IF mode = "paused" THEN Less(hold) ELSE hold
    /\ UNCHANGED <<granted, hook, up, dirty, link, mode, loop, timer, sessions, changes>>

Init ==
    /\ granted = Before
    /\ since = [r \in Routes |-> IF r \in Before THEN 0 ELSE Lease + 1]
    /\ hook = FALSE /\ up = TRUE /\ cast = NoBuild /\ dirty = FALSE /\ renew = FALSE
    /\ link = "down" /\ init = NoBuild /\ wire = <<>>
    /\ store = None /\ mode = "empty" /\ hold = Hold
    /\ loop = [at |-> "down", cur |-> None] /\ timer = "idle"
    /\ conn = NoConn /\ chan = NoChan
    /\ changes = 0 /\ faults = 0

CastStep == CastNumbered \/ CastSend
InitStep == InitNumbered \/ Admit

Next ==
    \/ Change \/ Invalidate \/ Renew \/ CastStep \/ CastFails \/ InitStep
    \/ LinkLost \/ BackendStops \/ BackendStarts
    \/ LoopStep \/ TimerStep \/ SessionStep \/ Tick

\* Every thread of the Backend and of the proxy goes on, and the renewal timer
\* keeps coming.  Nothing is assumed of clients, changes or faults.
Spec ==
    /\ Init /\ [][Next]_vars
    /\ WF_vars(Invalidate) /\ WF_vars(Renew) /\ WF_vars(CastStep) /\ WF_vars(InitStep)
    /\ WF_vars(BackendStarts) /\ WF_vars(LoopStep) /\ WF_vars(TimerStep) /\ WF_vars(Tick)

-----------------------------------------------------------------------------
TypeOK ==
    /\ granted \subseteq Routes /\ since \in [Routes -> 0 .. Lease + 1]
    /\ hook \in BOOLEAN /\ up \in BOOLEAN /\ dirty \in BOOLEAN /\ renew \in BOOLEAN
    /\ link \in {"down", "init", "up"}
    /\ store = None \/ (store.view \subseteq Routes /\ store.left \in 0 .. Lease /\ store.epoch \in BOOLEAN)
    /\ mode \in {"empty", "authoritative", "paused"} /\ hold \in 0 .. Hold
    /\ Admits => loop.at # "down"
    /\ link = "init" <=> init.at # "idle"

\* What passes is authorized by the installed snapshot whenever neither thread
\* is in the middle of installing or revoking: an open bridge leads to one of
\* its routes, and a connection that is logged in still matches it.  Without a
\* snapshot nothing passes.  The races are a login or a connect that started
\* under the snapshot before (session.rs, "Bind first, re-check second"), and
\* the timer that revokes while the loop installs.
OpenIsAuthorized ==
    timer = "idle" /\ loop.at \in {"up", "down", "abort", "abortLast"} =>
      /\ chan.at = "open" => store # None /\ chan.to \subseteq store.view
      /\ conn.at = "open" /\ ~conn.revoked => Matches(conn, store)

\* Nobody passes by what is not installed.
AccessIsSafe == TypeOK /\ OpenIsAuthorized

\* A revoked route carries no bridge for longer than a lease, whatever became
\* of the notification, the link and the Backend: "the lease is the upper bound
\* on revocation" (control.rs).
RevokedWithinLease ==
    chan.at = "open" => \A r \in chan.to: since[r] <= Lease

\* A snapshot that was being built while a change was committed and announced
\* is not sent any more: what the gateway sends while nothing is waiting to be
\* announced is what the database authorizes.
SentIsCurrent ==
    [][Len(wire') > Len(wire) /\ ~hook /\ wire'[Len(wire')].kind = "snapshot" =>
         wire'[Len(wire')].view = granted]_vars

\* In the end the proxy admits, by a snapshot that says what the database
\* says: through failed builds, a Backend that starts its generations anew,
\* revisions that move during a build, and a timer that revokes beside an install.
Converges == <>[](Admits /\ Fresh /\ store.view = granted)
=============================================================================
