-------------------------- MODULE VolumeLifecycle --------------------------
(***************************************************************************)
(* One volume, the attachments of one container per server, and what Incus *)
(* holds of it.  A volume is local (one server) or shared (a CephFS        *)
(* directory that the Incus daemon of every server may hold a catalog of). *)
(* Three kinds of passes work on it at the same time: the volume's pass on *)
(* each server (ensure, resize), the container's pass on each server       *)
(* (which creates the catalogs it mounts), and the destroy, whose claim    *)
(* excludes the volume's passes and not the containers'.                   *)
(*                                                                         *)
(* The rows are vol, place, att; intent, drive and destroy are the pending *)
(* intents; catalog, dir and device are the servers' side; vpass, cpass    *)
(* and dpass hold the local variables of the passes.  The guests fill and  *)
(* empty the volume at will, so a usage is any value the moment it is read *)
(* and the check of an earlier moment says nothing about it.               *)
(***************************************************************************)
EXTENDS Integers, FiniteSets

CONSTANTS
    Servers,
    Kinds,        \* which of "local", "block" (local, block-backed), "shared"
    MaxSize,      \* sizes are 1..MaxSize
    MaxEvents     \* bound on requests, crashes, outages and imports together

ASSUME VolumeConstants ==
    /\ IsFiniteSet(Servers) /\ Servers # {}
    /\ 0 \notin Servers     \* 0 stands for a null server id: see NoSize
    /\ Kinds \subseteq {"local", "block", "shared"}
    /\ MaxSize \in Nat \ {0}
    /\ MaxEvents \in Nat

VARIABLES
    kind,     \* of the volume, fixed
    vol,      \* control.volumes row, or Gone
    place,    \* control.volume_placements: per server, or NoPlacement
    att,      \* bind_state of the attachment per server, or "none"
    intent,   \* target revision of the volume's pending intent per server, 0 for none
    drive,    \* servers whose container has a pending intent
    destroy,  \* a destroy intent is pending
    catalog,  \* size in the daemon's catalog, 0 for none, Recovered without one
    dir,      \* the volume's data exists
    device,   \* servers whose instance carries the device
    online,   \* servers that answer
    late,     \* POST left behind by a crashed pass per server: its size, or 0
    vpass,    \* the volume's pass per server
    cpass,    \* the container's pass per server
    dpass,    \* the destroy pass
    failed,   \* size of the last resize intent that failed, 0 for none
    excused,  \* what has happened that sizes are not accounted for: see WithinCommitted
    events    \* requests and faults so far

rows == <<vol, place, att>>
queue == <<intent, drive, destroy, failed>>
incus == <<catalog, dir, device>>
world == <<online, late, excused, events>>
passes == <<vpass, cpass, dpass>>
vars == <<kind, rows, queue, incus, world, passes>>

Home == CHOOSE s \in Servers : TRUE
shared == kind = "shared"
Sites == IF shared THEN Servers ELSE {Home}

Recovered == -1     \* a catalog that `incus admin recover` imported: no size, not shifted
NoSize == 0         \* shrink_reserved_bytes, remove_all_server_id ... is null
Gone == [phase |-> "gone", size |-> 0, reserved |-> NoSize, rev |-> 0, obs |-> 0,
         attention |-> FALSE, dirEnsured |-> FALSE, removed |-> FALSE, pin |-> NoSize]
NoPlacement == [state |-> "none", obs |-> 0]
IdleV == [at |-> "idle", rev |-> 0, size |-> 0, reserved |-> 0, state |-> "none", actual |-> 0,
          attached |-> FALSE, lagging |-> FALSE]
IdleC == [at |-> "idle", size |-> 0, posted |-> FALSE]
IdleD == [at |-> "idle", catalogs |-> {}, up |-> {}, ensured |-> FALSE, exec |-> NoSize,
          repicked |-> FALSE]

Maximum(a, b) == IF a >= b THEN a ELSE b
\* committedVolumeBytesSql: what the row counts against grants and capacity
Committed(v) == Maximum(v.size, v.reserved)
Live == vol.phase \in {"provisioning", "active"}

(***************************************************************************)
(* releaseSettledShrinkReservations, on the rows as a step leaves them     *)
(***************************************************************************)
\* Mutant: attachments do not hold the reservation.
CaughtUpOnSight(v, p, a, s) == p[s].obs = v.rev
CaughtUp(v, p, a, s) ==
    /\ p[s].obs = v.rev
    /\ shared /\ p[s].state # "present" => a[s] = "none"
Settled(v, p, a) ==
    \A s \in Servers : p[s] # NoPlacement => CaughtUp(v, p, a, s)
Released(v, p, a) ==
    IF Settled(v, p, a) THEN [v EXCEPT !.reserved = NoSize] ELSE v

\* upsertPlacement: an existing placement keeps its state and observed revision
Upserted(p, s) ==
    IF p[s] = NoPlacement THEN [p EXCEPT ![s] = [state |-> "ensuring", obs |-> 0]] ELSE p

\* markCatalogPresent: a catalog not known present before loses its observed revision
MarkedPresent(p, s) ==
    IF p[s] = NoPlacement THEN p
    ELSE [p EXCEPT ![s] = [state |-> "present",
                           obs |-> IF p[s].state = "present" THEN p[s].obs ELSE 0]]

\* a placement that has not verified the revision
Lagging(p, rev) ==
    \E s \in Servers : p[s] # NoPlacement /\ (p[s].state # "present" \/ p[s].obs # rev)

TypeOK ==
    /\ kind \in Kinds
    /\ vol \in [phase : {"gone", "provisioning", "active", "deleting"}, size : 0..MaxSize,
                reserved : 0..MaxSize, rev : 0..MaxEvents + 1, obs : 0..MaxEvents + 1,
                attention : BOOLEAN, dirEnsured : BOOLEAN, removed : BOOLEAN,
                pin : Servers \cup {NoSize}]
    /\ place \in [Servers -> [state : {"none", "ensuring", "present"}, obs : 0..MaxEvents + 1]]
    /\ att \in [Servers -> {"none", "attaching", "attached", "detaching"}]
    /\ intent \in [Servers -> 0..MaxEvents + 1] /\ drive \subseteq Servers /\ destroy \in BOOLEAN
    /\ catalog \in [Servers -> {Recovered} \cup 0..MaxSize] /\ dir \in BOOLEAN
    /\ device \subseteq Servers /\ online \subseteq Servers
    /\ late \in [Servers -> 0..MaxSize]
    /\ \A s \in Servers :
        /\ vpass[s].at \in {"idle", "get", "missing", "align", "put", "record", "mark", "settle"}
        /\ cpass[s].at \in {"idle", "ensure", "mark", "requeue", "plug", "bind"}
    /\ dpass.at \in {"idle", "choose", "remove", "commit", "purge", "drop", "finish"}
    /\ failed \in 0..MaxSize
    /\ excused \subseteq {"crash", "retry", "revert"} /\ events \in 0..MaxEvents

\* The row has just been created: a local volume with the placement and the intent
\* of its create, a shared one with neither, or already attached by one request.
Init ==
    /\ kind \in Kinds
    /\ \E n \in 1..MaxSize :
        vol = [Gone EXCEPT !.phase = IF shared THEN "active" ELSE "provisioning",
                           !.size = n, !.rev = 1]
    /\ \E asked \in IF shared THEN {{}, {Home}} ELSE {{}} :
        /\ att = [s \in Servers |-> IF s \in asked THEN "attaching" ELSE "none"]
        /\ drive = asked
        /\ place = [s \in Servers |->
                     IF (~shared /\ s = Home) \/ s \in asked
                     THEN [state |-> "ensuring", obs |-> 0] ELSE NoPlacement]
    /\ intent = [s \in Servers |-> IF ~shared /\ s = Home THEN 1 ELSE 0]
    /\ destroy = FALSE
    /\ catalog = [s \in Servers |-> 0] /\ dir = FALSE /\ device = {}
    /\ online = Servers /\ late = [s \in Servers |-> 0]
    /\ vpass = [s \in Servers |-> IdleV]
    /\ cpass = [s \in Servers |-> IdleC]
    /\ dpass = IdleD
    /\ failed = 0 /\ excused = {} /\ events = 0

-----------------------------------------------------------------------------
(* Requests: each is one serializable transaction *)

\* attach: bindAttachmentRow after lockAttachableVolume and placementPoolFor
Attach(s) ==
    /\ s \in Sites /\ Live /\ att[s] = "none"
    /\ att' = [att EXCEPT ![s] = "attaching"]
    /\ place' = Upserted(place, s)
    /\ drive' = drive \cup {s}
    /\ UNCHANGED <<kind, vol, intent, destroy, failed, incus, online, late, excused, passes>>

\* detach and forceDetach (beginDetach).  A mounted attachment is detached from a
\* stopped container or by force, so the power state does not hold it up here.
Detach(s) ==
    /\ att[s] # "none"
    /\ att' = [att EXCEPT ![s] = "detaching"]
    /\ drive' = drive \cup {s}
    /\ UNCHANGED <<kind, vol, place, intent, destroy, failed, incus, online, late, excused, passes>>

\* shrinkReservation: what the row had committed stays reserved
ReservedAfter(v, n) == IF Committed(v) > n THEN Committed(v) ELSE NoSize

\* checkVolumeResize: a shrink needs a usage below it, which the guests may
\* give it or not, and a block-backed one no attachment
ResizeAdmissible(n) ==
    n < vol.size /\ kind = "block" => \A s \in Servers : att[s] = "none"

\* resizeInTransaction and applyResize; capacity and quota admit what the row
\* commits on top of its former commitment
Resize(n) ==
    /\ Live /\ n # vol.size
    /\ ResizeAdmissible(n)
    /\ LET v == [vol EXCEPT !.size = n, !.reserved = ReservedAfter(vol, n),
                            !.rev = @ + 1, !.attention = FALSE]
       IN /\ vol' = Released(v, place, att)
          /\ intent' = [s \in Servers |-> IF place[s] # NoPlacement THEN v.rev ELSE intent[s]]
    /\ UNCHANGED <<kind, place, att, drive, destroy, failed, incus, online, late, excused, passes>>

\* destroyUntrackedVolume and finishEmptyTracking settle what is pending and drop the row
DropRow ==
    /\ vol' = Gone
    /\ intent' = [s \in Servers |-> 0]
    /\ destroy' = FALSE /\ failed' = 0

\* beginVolumeDestroy and the purge's beginDestroy
BeginDestroy ==
    /\ vol' = [vol EXCEPT !.phase = "deleting", !.rev = @ + 1, !.attention = FALSE]
    /\ destroy' = TRUE /\ failed' = 0
    /\ UNCHANGED intent

Unplaced == \A s \in Servers : place[s] = NoPlacement

\* delete of a local or shared volume
Delete ==
    /\ Live /\ \A s \in Servers : att[s] = "none"
    /\ \/ Unplaced /\ (shared => ~vol.dirEnsured) /\ DropRow
       \/ ~(Unplaced /\ (shared => ~vol.dirEnsured)) /\ Sites \cap online # {} /\ BeginDestroy
    /\ UNCHANGED <<kind, place, att, drive, incus, online, late, excused, passes>>

\* destroyVolumes of the lapse purge: attachments do not hold it up, a running destroy does
PurgeVolume ==
    /\ Live /\ dpass.at = "idle"
    /\ \/ Unplaced /\ ~vol.dirEnsured /\ (\A s \in Servers : att[s] = "none") /\ DropRow
       \/ ~(Unplaced /\ ~vol.dirEnsured /\ \A s \in Servers : att[s] = "none") /\ BeginDestroy
    /\ UNCHANGED <<kind, place, att, drive, incus, online, late, excused, passes>>

\* retry of a failed intent, at any time later: it releases the volume, and a
\* resize takes the size down again (restoreVolumeResizeSize), at the revision
\* the row has
Retry(s) ==
    /\ Live /\ failed # 0 /\ place[s] # NoPlacement
    /\ \E resize \in BOOLEAN :
        LET again == resize /\ vol.size > failed
        IN /\ vol' = [vol EXCEPT !.attention = FALSE,
                                 !.size = IF again THEN failed ELSE @,
                                 !.reserved = IF again THEN Committed(vol) ELSE @]
           /\ excused' = IF again THEN excused \cup {"retry"} ELSE excused
    /\ intent' = [intent EXCEPT ![s] = vol.rev]
    /\ UNCHANGED <<kind, place, att, drive, destroy, failed, incus, online, late, passes>>

\* The container is deleted: its pass removes the instance and the rows go with it
ContainerGone(s) ==
    /\ att[s] # "none" /\ cpass[s].at = "idle" /\ s \in online
    /\ att' = [att EXCEPT ![s] = "none"]
    /\ device' = device \ {s}
    /\ drive' = drive \ {s}
    /\ UNCHANGED <<kind, vol, place, intent, destroy, failed, catalog, dir, online, late, excused, passes>>

-----------------------------------------------------------------------------
(* Incus, as the passes use it (external) *)

\* POST: creates the catalog, and the directory or adopts it; an existing one stays
PostCatalog(s, size) ==
    /\ catalog' = IF catalog[s] = 0 THEN [catalog EXCEPT ![s] = size] ELSE catalog
    /\ dir' = TRUE
    /\ UNCHANGED device

\* DELETE on one daemon removes its catalog and the data behind it (RemoveAll)
DeleteCatalog(s) ==
    /\ catalog' = [catalog EXCEPT ![s] = 0]
    /\ dir' = FALSE
    /\ UNCHANGED device

-----------------------------------------------------------------------------
(* The container's pass: beforeAttachments, readyAttachments, the PUT, settleVolumeBinds *)

\* beforeAttachments: a detaching device is unplugged and its row settled before
\* anything else; then rereadDesired
CStart(s) ==
    /\ s \in drive \cap online /\ cpass[s].at = "idle"
    /\ drive' = drive \ {s}
    /\ \/ /\ att[s] = "detaching"
          /\ att' = [att EXCEPT ![s] = "none"]
          /\ device' = device \ {s}
          /\ UNCHANGED cpass
       \/ /\ att[s] = "none"
          /\ UNCHANGED <<att, device, cpass>>
       \/ /\ att[s] \in {"attaching", "attached"}
          /\ cpass' = [cpass EXCEPT ![s] = [IdleC EXCEPT !.at = "ensure", !.size = IF shared THEN vol.size ELSE 0]]
          /\ UNCHANGED <<att, device>>
    /\ UNCHANGED <<kind, vol, place, intent, destroy, failed, catalog, dir, world, vpass, dpass>>

\* The container's intent is tried again
CRetry(s) ==
    /\ cpass' = [cpass EXCEPT ![s] = IdleC]
    /\ drive' = drive \cup {s}

\* ensureDesiredCatalogs: the shared catalog is created at the size read before; an
\* imported one waits for a volume pass; a local volume must already be there
CEnsure(s) ==
    /\ cpass[s].at = "ensure" /\ s \in online
    /\ \/ /\ catalog[s] = Recovered
          /\ CRetry(s)
          /\ intent' = IF Live /\ place[s] # NoPlacement
                       THEN [intent EXCEPT ![s] = vol.rev] ELSE intent
          /\ UNCHANGED incus
       \/ /\ catalog[s] = 0 /\ ~shared
          /\ CRetry(s)
          /\ UNCHANGED <<intent, incus>>
       \/ /\ catalog[s] > 0 \/ (catalog[s] = 0 /\ shared)
          /\ IF catalog[s] = 0 THEN PostCatalog(s, cpass[s].size) ELSE UNCHANGED incus
          /\ cpass' = [cpass EXCEPT ![s].at = "mark", ![s].posted = catalog[s] = 0,
                                   ![s].size = IF catalog[s] = 0 THEN @ ELSE 0]
          /\ UNCHANGED <<intent, drive>>
    /\ UNCHANGED <<kind, rows, destroy, failed, world, vpass, dpass>>

\* markCatalogPresent
CMark(s) ==
    /\ cpass[s].at = "mark"
    /\ place' = MarkedPresent(place, s)
    /\ vol' = IF vol = Gone THEN Gone ELSE [vol EXCEPT !.dirEnsured = TRUE]
    /\ cpass' = [cpass EXCEPT ![s].at = IF cpass[s].posted THEN "requeue" ELSE "plug"]
    /\ UNCHANGED <<kind, att, queue, incus, world, vpass, dpass>>

\* requeueResizeAfterCatalogPost
CRequeue(s) ==
    /\ cpass[s].at = "requeue"
    /\ intent' = IF /\ Live /\ place[s] # NoPlacement /\ ~vol.attention
                    /\ vol.size # cpass[s].size \/ vol.reserved # NoSize
                 THEN [intent EXCEPT ![s] = vol.rev] ELSE intent
    /\ cpass' = [cpass EXCEPT ![s] = [IdleC EXCEPT !.at = "plug"]]
    /\ UNCHANGED <<kind, rows, drive, destroy, failed, incus, world, vpass, dpass>>

\* The attachments are read again, and the PUT gives the instance exactly these
CPlug(s) ==
    /\ cpass[s].at = "plug" /\ s \in online
    /\ device' = IF att[s] \in {"attaching", "attached"} THEN device \cup {s} ELSE device \ {s}
    /\ cpass' = [cpass EXCEPT ![s].at = "bind"]
    /\ UNCHANGED <<kind, rows, queue, catalog, dir, world, vpass, dpass>>

\* settleVolumeBinds on the verified document
CBind(s) ==
    /\ cpass[s].at = "bind"
    /\ att' = [att EXCEPT ![s] =
                CASE att[s] = "attaching" /\ s \in device -> "attached"
                  [] att[s] = "detaching" /\ s \notin device -> "none"
                  [] OTHER -> att[s]]
    /\ cpass' = [cpass EXCEPT ![s] = IdleC]
    /\ UNCHANGED <<kind, vol, place, queue, incus, world, vpass, dpass>>

-----------------------------------------------------------------------------
(* The volume's pass on a server: reconcile, alignSizeAndShifted, recordVerified *)

VStart(s) ==
    /\ intent[s] # 0 /\ Live /\ ~vol.attention /\ s \in online
    /\ vpass[s].at = "idle" /\ dpass.at = "idle"
    /\ place[s] # NoPlacement
    /\ vpass' = [vpass EXCEPT ![s] = [IdleV EXCEPT !.at = "get", !.rev = vol.rev, !.size = vol.size,
                                                   !.reserved = vol.reserved, !.state = place[s].state,
                                                   !.attached = kind = "block" /\ att[s] # "none"]]
    /\ UNCHANGED <<kind, rows, queue, incus, world, cpass, dpass>>

\* GET; a local volume's catalog is created, a shared one's is left to the containers
VGet(s) ==
    /\ vpass[s].at = "get" /\ s \in online
    /\ \/ /\ catalog[s] = 0 /\ shared
          /\ vpass' = [vpass EXCEPT ![s] = [IdleV EXCEPT !.at = "missing", !.rev = vpass[s].rev,
                                                         !.state = vpass[s].state]]
          /\ UNCHANGED incus
       \/ /\ catalog[s] = 0 /\ ~shared
          /\ PostCatalog(s, vpass[s].size)
          /\ vpass' = [vpass EXCEPT ![s].at = "align", ![s].actual = vpass[s].size, ![s].state = "none"]
       \/ /\ catalog[s] # 0
          /\ vpass' = [vpass EXCEPT ![s].at = "align", ![s].actual = catalog[s], ![s].state = "none"]
          /\ UNCHANGED incus
    /\ UNCHANGED <<kind, rows, queue, world, cpass, dpass>>

\* The pass ends: the intents of its placement up to its revision are settled
EndPass(s) ==
    /\ vpass' = [vpass EXCEPT ![s] = IdleV]
    /\ intent' = [intent EXCEPT ![s] = IF intent[s] <= vpass[s].rev THEN 0 ELSE intent[s]]

\* markSucceeded: the volume is observed when this is its revision and all placements hold it
Succeeded(v, p, a, rev) ==
    IF v.rev = rev /\ v.phase \in {"provisioning", "active"} /\ ~Lagging(p, rev)
    THEN [Released(v, p, a) EXCEPT !.obs = rev, !.attention = FALSE]
    ELSE Released(v, p, a)

\* markFailure: a live volume is parked
Parked(v) == IF v.phase \in {"provisioning", "active"} THEN [v EXCEPT !.attention = TRUE] ELSE v

\* recordCatalogMissing, unless a container's pass marked the catalog present meanwhile
VMissing(s) ==
    /\ vpass[s].at = "missing"
    /\ \/ /\ place[s].state = vpass[s].state
          /\ place' = [place EXCEPT ![s] = [state |-> "ensuring", obs |-> vpass[s].rev]]
          /\ vol' = Released(vol, place', att)
          /\ vpass' = [vpass EXCEPT ![s].at = "settle", ![s].state = "none"]
       \/ /\ place[s].state # vpass[s].state
          /\ vpass' = [vpass EXCEPT ![s] = IdleV]
          /\ UNCHANGED <<place, vol>>
    /\ UNCHANGED <<kind, att, queue, incus, world, cpass, dpass>>

\* catalogSize: an imported catalog holds what the row the pass read commits
CatalogSize(s) ==
    IF vpass[s].actual = Recovered THEN Maximum(vpass[s].size, vpass[s].reserved) ELSE vpass[s].actual

\* decideVolumeResize: a usage above the size, or one that cannot be read, blocks
\* a shrink; so does an attachment of a block-backed volume
Shrinks(s) == vpass[s].size < CatalogSize(s)
AttachmentBlocks(s) == Shrinks(s) /\ kind = "block" /\ vpass[s].attached

\* revertImpossibleShrink: back to what Incus holds, never past what is committed
Reverted(v, s) ==
    IF v.rev = vpass[s].rev /\ v.phase \in {"provisioning", "active"} /\ Committed(v) >= CatalogSize(s)
    THEN [v EXCEPT !.size = CatalogSize(s), !.reserved = NoSize, !.attention = TRUE]
    ELSE v

\* A pass whose revision is no longer current fails without parking the volume
VFailed(s, v) ==
    /\ vol' = IF v.rev = vpass[s].rev THEN Parked(v) ELSE v
    /\ failed' = IF Live THEN vpass[s].size ELSE failed
    /\ EndPass(s)

\* An imported catalog that an instance uses cannot be given its idmap
IdmapPinned(s) == vpass[s].actual = Recovered /\ s \in device

VAlign(s) ==
    /\ vpass[s].at = "align" /\ s \in online
    /\ \/ IdmapPinned(s) /\ VFailed(s, vol) /\ UNCHANGED excused
       \/ /\ ~IdmapPinned(s) /\ Shrinks(s)                     \* usage_floor, usage_unknown
          /\ VFailed(s, Reverted(vol, s))
          /\ excused' = IF \E o \in Servers \ {s} : place[o] # NoPlacement
                        THEN excused \cup {"revert"} ELSE excused
       \/ ~IdmapPinned(s) /\ AttachmentBlocks(s) /\ VFailed(s, vol) /\ UNCHANGED excused
       \/ /\ ~IdmapPinned(s) /\ ~AttachmentBlocks(s)
          /\ vpass' = [vpass EXCEPT ![s] = [IdleV EXCEPT !.at = "put", !.rev = vpass[s].rev,
                                                         !.size = vpass[s].size]]
          /\ UNCHANGED <<vol, intent, failed, excused>>
    /\ UNCHANGED <<kind, place, att, drive, destroy, incus, online, late, events, cpass, dpass>>

\* updateCustomVolume and verifyCustomVolume
VPut(s) ==
    /\ vpass[s].at = "put" /\ s \in online
    /\ \/ /\ catalog[s] # 0
          /\ catalog' = [catalog EXCEPT ![s] = vpass[s].size]
          /\ vpass' = [vpass EXCEPT ![s].at = "record", ![s].size = 0]
       \/ /\ catalog[s] = 0                                     \* 404: tried again
          /\ vpass' = [vpass EXCEPT ![s] = IdleV]
          /\ UNCHANGED catalog
    /\ UNCHANGED <<kind, rows, queue, dir, device, world, cpass, dpass>>

\* recordVerified: the placement, dir_ensured and the look for a lagging placement;
\* then, on what that look saw, the volume itself and the reservation
VRecord(s) ==
    /\ vpass[s].at = "record"
    /\ place' = IF place[s] = NoPlacement THEN place
                ELSE [place EXCEPT ![s] = [state |-> "present", obs |-> vpass[s].rev]]
    /\ vol' = IF vol = Gone THEN Gone ELSE [vol EXCEPT !.dirEnsured = TRUE]
    /\ vpass' = [vpass EXCEPT ![s].at = "mark", ![s].lagging = Lagging(place', vpass[s].rev)]
    /\ UNCHANGED <<kind, att, queue, incus, world, cpass, dpass>>

VMark(s) ==
    /\ vpass[s].at = "mark"
    /\ vol' = LET v == IF ~vpass[s].lagging /\ vol.rev = vpass[s].rev /\ Live
                       THEN [vol EXCEPT !.obs = vpass[s].rev, !.phase = "active", !.attention = FALSE]
                       ELSE vol
              IN Released(v, place, att)
    /\ vpass' = [vpass EXCEPT ![s].at = "settle", ![s].lagging = FALSE]
    /\ UNCHANGED <<kind, place, att, queue, incus, world, cpass, dpass>>

VSettle(s) ==
    /\ vpass[s].at = "settle"
    /\ vol' = Succeeded(vol, place, att, vpass[s].rev)
    /\ EndPass(s)
    /\ UNCHANGED <<kind, place, att, drive, destroy, failed, incus, world, cpass, dpass>>

-----------------------------------------------------------------------------
(* The destroy: reconcileDestroy *)

\* Mutant: attachments do not hold the destroy up.
NoPassRuns == \A s \in Servers : vpass[s].at = "idle"
\* hasAnyAttachments, and the claim that excludes the volume's passes
Quiet == \A s \in Servers : vpass[s].at = "idle" /\ att[s] = "none"

\* The destroy waits for attachments and for an executor that is online.  Nothing
\* but its own row is read again later.
DStart ==
    /\ destroy /\ dpass.at = "idle" /\ vol.phase = "deleting"
    /\ Quiet
    /\ LET catalogs == {s \in Servers : place[s] # NoPlacement}
           start == [IdleD EXCEPT !.catalogs = catalogs, !.up = online, !.ensured = vol.dirEnsured]
       IN \/ /\ ~vol.dirEnsured /\ catalogs = {}
             /\ dpass' = [start EXCEPT !.at = "finish"]
          \/ /\ vol.dirEnsured \/ catalogs # {}
             /\ Sites \cap online # {}
             /\ dpass' = [start EXCEPT !.at = IF vol.removed THEN "purge" ELSE "choose"]
    /\ UNCHANGED <<kind, rows, queue, incus, world, vpass, cpass>>

DRetry == dpass' = IdleD /\ UNCHANGED <<vol, incus>>

\* pickExecutorFromCatalogs: the catalogs that were online are asked again
Pick(repicked) ==
    LET seen == dpass.catalogs \cap dpass.up
        found == {s \in seen : catalog[s] # 0}
    IN \/ ~(seen \subseteq online) /\ DRetry
       \/ /\ seen \subseteq online /\ found = {}
          /\ dpass' = [dpass EXCEPT !.at = "commit", !.exec = NoSize]
          /\ UNCHANGED <<vol, incus>>
       \/ /\ seen \subseteq online
          /\ \E s \in found :
              /\ vol' = [vol EXCEPT !.pin = s]
              /\ dpass' = [dpass EXCEPT !.at = "remove", !.exec = s, !.repicked = repicked]
          /\ UNCHANGED incus

\* chooseExecutor
DChoose ==
    /\ dpass.at = "choose"
    /\ \/ /\ vol.pin \in Servers
          /\ IF vol.pin \in dpass.up
             THEN /\ dpass' = [dpass EXCEPT !.at = "remove", !.exec = vol.pin]
                  /\ UNCHANGED <<vol, incus>>
             ELSE DRetry
       \/ /\ vol.pin = NoSize /\ ~dpass.ensured /\ dpass.catalogs # {}
          /\ Pick(FALSE)
       \/ /\ vol.pin = NoSize /\ (dpass.ensured \/ dpass.catalogs = {})
          /\ \E s \in Sites \cap dpass.up :
              /\ vol' = [vol EXCEPT !.pin = s]
              /\ dpass' = [dpass EXCEPT !.at = "remove", !.exec = s]
          /\ UNCHANGED incus
    /\ UNCHANGED <<kind, place, att, queue, world, vpass, cpass>>

\* A local catalog that is not there has been deleted before
AnsweredByMissing(s) == catalog[s] = 0 /\ ~shared

\* removeAllOnExecutor.  A missing shared catalog is adopted first (the POST that
\* makes the DELETE reach the directory); a missing local one is the answer.
DRemove ==
    /\ dpass.at = "remove"
    /\ LET s == dpass.exec
           missing == catalog[s] = 0
       IN \/ s \notin online /\ DRetry
          \/ /\ s \in online /\ missing /\ ~AnsweredByMissing(s) /\ ~(shared /\ dpass.ensured)
             /\ IF dpass.repicked THEN DRetry ELSE Pick(TRUE)
          \/ /\ s \in online /\ (~missing \/ (shared /\ dpass.ensured))
             /\ DeleteCatalog(s)
             /\ dpass' = [dpass EXCEPT !.at = "commit"]
             /\ UNCHANGED vol
          \/ /\ s \in online /\ AnsweredByMissing(s)
             /\ dpass' = [dpass EXCEPT !.at = "commit"]
             /\ UNCHANGED <<vol, incus>>
    /\ UNCHANGED <<kind, place, att, queue, world, vpass, cpass>>

\* markRemoveAllCommitted
DCommit ==
    /\ dpass.at = "commit"
    /\ vol' = [vol EXCEPT !.removed = TRUE, !.pin = dpass.exec]
    /\ dpass' = [dpass EXCEPT !.at = "purge"]
    /\ UNCHANGED <<kind, place, att, queue, incus, world, vpass, cpass>>

\* purgeStaleCatalogs: those that were offline are skipped
DPurge ==
    /\ dpass.at = "purge"
    /\ \/ /\ dpass.catalogs \cap dpass.up = {}
          /\ dpass' = [dpass EXCEPT !.at = "drop"]
          /\ UNCHANGED <<vol, incus>>
       \/ \E s \in dpass.catalogs \cap dpass.up :
           \/ s \notin online /\ DRetry
           \/ /\ s \in online
              /\ IF catalog[s] # 0 THEN DeleteCatalog(s) ELSE UNCHANGED incus
              /\ dpass' = [dpass EXCEPT !.catalogs = @ \ {s}]
              /\ UNCHANGED vol
    /\ UNCHANGED <<kind, place, att, queue, world, vpass, cpass>>

\* dropAllPlacements, then finishEmptyTracking unless a placement appeared
DDrop ==
    /\ dpass.at = "drop"
    /\ place' = [s \in Servers |-> NoPlacement]
    /\ dpass' = [dpass EXCEPT !.at = "finish"]
    /\ UNCHANGED <<kind, vol, att, queue, incus, world, vpass, cpass>>

DFinish ==
    /\ dpass.at = "finish"
    /\ dpass' = IdleD
    /\ IF Unplaced THEN DropRow ELSE destroy' = FALSE /\ UNCHANGED <<vol, intent, failed>>
    /\ UNCHANGED <<kind, place, att, drive, incus, world, vpass, cpass>>

-----------------------------------------------------------------------------
(* The full scan of one server *)

\* scanNeedsEnsure
NeedsEnsure(s) ==
    \/ catalog[s] = 0
    \/ catalog[s] = Recovered
    \/ catalog[s] > 0 /\ catalog[s] # vol.size

HoldsReservation(p, s) == vol.reserved # NoSize /\ p[s].obs # vol.rev

\* Mutant: the scan leaves reservations alone.
KeptByScan(v, p, a) == v
\* releaseSettledShrinkReservations of the volumes that still hold one
ReleasedByScan(v, p, a) == Released(v, p, a)

\* converge: adopt a listed shared catalog, queue the destroy, a resize or an ensure
Converge(s) ==
    /\ s \in online \cap Sites /\ vol # Gone
    /\ LET adopts == shared /\ catalog[s] # 0 /\ place[s] = NoPlacement
           placed == IF adopts THEN Upserted(place, s) ELSE place
           holds == HoldsReservation(placed, s)
           wants == /\ Live /\ ~vol.attention /\ placed[s] # NoPlacement
                    /\ IF shared THEN IF catalog[s] = 0 THEN holds
                                      ELSE adopts \/ holds \/ NeedsEnsure(s)
                       ELSE holds \/ NeedsEnsure(s)
       IN /\ place' = placed
          /\ vol' = ReleasedByScan(vol, place, att)
          /\ destroy' = (destroy \/ vol.phase = "deleting")
          /\ intent' = IF wants THEN [intent EXCEPT ![s] = vol.rev] ELSE intent
    /\ UNCHANGED <<kind, att, drive, failed, incus, world, passes>>

\* Mutant: local pools are not looked through for orphans.
OrphanOnSharedPools(s) == shared /\ catalog[s] > 0 /\ s \notin device
Orphan(s) == catalog[s] > 0 /\ s \notin device
\* quarantineOrphans: a labelled catalog without a row, unused, after the quarantine
OrphanDeleted(s) ==
    /\ s \in online \cap Sites /\ vol = Gone
    /\ Orphan(s)
    /\ DeleteCatalog(s)
    /\ UNCHANGED <<kind, rows, queue, world, passes>>

-----------------------------------------------------------------------------
(* Faults *)

Happens == events < MaxEvents /\ events' = events + 1

\* A process ends; its POST may land later.  The intents stay.
CrashContainerPass(s) ==
    /\ Happens /\ cpass[s].at # "idle" /\ excused' = excused \cup {"crash"}
    /\ late' = IF cpass[s].at = "ensure" /\ catalog[s] = 0 /\ shared
               THEN [late EXCEPT ![s] = cpass[s].size] ELSE late
    /\ CRetry(s)
    /\ UNCHANGED <<kind, rows, intent, destroy, failed, incus, online, vpass, dpass>>

CrashVolumePass(s) ==
    /\ Happens /\ vpass[s].at # "idle" /\ excused' = excused \cup {"crash"}
    /\ late' = IF vpass[s].at = "get" /\ catalog[s] = 0 /\ ~shared
               THEN [late EXCEPT ![s] = vpass[s].size] ELSE late
    /\ vpass' = [vpass EXCEPT ![s] = IdleV]
    /\ UNCHANGED <<kind, rows, queue, incus, online, cpass, dpass>>

CrashDestroy ==
    /\ Happens /\ dpass.at # "idle" /\ excused' = excused \cup {"crash"}
    /\ dpass' = IdleD
    /\ UNCHANGED <<kind, rows, queue, incus, online, late, vpass, cpass>>

LatePost(s) ==
    /\ late[s] # 0
    /\ PostCatalog(s, late[s])
    /\ late' = [late EXCEPT ![s] = 0]
    /\ UNCHANGED <<kind, rows, queue, online, excused, events, passes>>

\* A server stops answering: the passes that need it give up, and their intents stay
Outage(s) ==
    /\ Happens /\ s \in online
    /\ online' = online \ {s}
    /\ UNCHANGED <<kind, rows, queue, incus, late, excused, passes>>
Return(s) ==
    /\ s \notin online
    /\ online' = online \cup {s}
    /\ UNCHANGED <<kind, rows, queue, incus, late, excused, events, passes>>
GiveUp(s) ==
    /\ s \notin online
    /\ \/ /\ vpass[s].at \in {"get", "align", "put"}
          /\ vpass' = [vpass EXCEPT ![s] = IdleV]
          /\ UNCHANGED <<cpass, drive>>
       \/ /\ cpass[s].at \in {"ensure", "plug"}
          /\ CRetry(s)
          /\ UNCHANGED vpass
    /\ UNCHANGED <<kind, rows, intent, destroy, failed, incus, world, dpass>>

\* `incus admin recover` imports the directory into a daemon's catalog
Recover(s) ==
    /\ Happens /\ shared /\ dir /\ catalog[s] = 0 /\ vol # Gone
    /\ catalog' = [catalog EXCEPT ![s] = Recovered]
    /\ UNCHANGED <<kind, rows, queue, dir, device, online, late, excused, passes>>

-----------------------------------------------------------------------------
Request ==
    /\ Happens
    /\ \/ \E s \in Servers : Attach(s) \/ Detach(s) \/ ContainerGone(s) \/ Retry(s)
       \/ \E n \in 1..MaxSize : Resize(n)
       \/ Delete \/ PurgeVolume
CStep(s) == CEnsure(s) \/ CMark(s) \/ CRequeue(s) \/ CPlug(s) \/ CBind(s)
VStep(s) == \/ VGet(s) \/ VMissing(s) \/ VAlign(s) \/ VPut(s) \/ VRecord(s) \/ VMark(s) \/ VSettle(s)
DStep == DChoose \/ DRemove \/ DCommit \/ DPurge \/ DDrop \/ DFinish
Faulty(s) == CrashContainerPass(s) \/ CrashVolumePass(s) \/ Outage(s) \/ Recover(s)

Next ==
    \/ Request
    \/ \E s \in Servers :
        \/ CStart(s) \/ CStep(s) \/ VStart(s) \/ VStep(s)
        \/ Converge(s) \/ OrphanDeleted(s)
        \/ LatePost(s) \/ Return(s) \/ GiveUp(s) \/ Faulty(s)
    \/ DStart \/ DStep \/ CrashDestroy

\* A pending intent is taken up once nothing stands against it and its pass goes
\* on, requests in flight land, servers return, and the full scan comes round.
\* Users, guests and faults owe nothing.
Fairness ==
    /\ WF_vars(DStart \/ DStep)
    /\ \A s \in Servers :
        /\ WF_vars(CStart(s) \/ CStep(s))
        /\ WF_vars(VStart(s) \/ VStep(s))
        /\ WF_vars(Converge(s) \/ OrphanDeleted(s))
        /\ WF_vars(LatePost(s)) /\ WF_vars(Return(s))

SafetySpec == Init /\ [][Next]_vars
Spec == SafetySpec /\ Fairness

-----------------------------------------------------------------------------
\* What a live volume commits against grants and pool capacity covers what every
\* daemon's catalog of it holds, however its passes, the containers' passes and
\* resizes interleave: a reservation is only let go when no placement can still
\* hold the larger size.  Three things excuse it: a pass cut off after its POST
\* (revertImpossibleShrink names this one), the retry of an old shrink, which
\* moves no revision, and the undoing of a shrink on one
\* of several servers.
WithinCommitted ==
    Live /\ excused = {} => \A s \in Servers : catalog[s] <= Committed(vol)

\* The accounting of the volume is sound.
SizesAreSafe == TypeOK /\ WithinCommitted

\* The row of a destroyed volume goes after its data: no container pass that read
\* the attachment before can create the directory again behind the destroy.
RowOutlivesData ==
    [][vol # Gone /\ vol' = Gone /\ "crash" \notin excused => ~dir]_vars

\* A shrink that was admitted is applied everywhere and its reservation let go, or
\* the volume is parked for its owner, also when the attachment that held the
\* reservation goes without ever creating a catalog.
ShrinkSettles ==
    vol.reserved # NoSize ~> vol.reserved = NoSize \/ vol.attention \/ ~Live

\* What holds of the volume once requests and faults come to rest.
DetachIsOver == \A s \in Servers : att[s] # "detaching"
DestroyIsOver == vol.phase = "deleting" => \E s \in Servers : att[s] # "none"
NothingLeftBehind == vol = Gone => ~dir /\ \A s \in Servers : catalog[s] = 0

\* What is to go goes: an accepted detach, whatever pass was running; a destroy
\* with nothing attached, also one cut off between the DELETE and its mark or
\* whose pinned executor was away; and with the row every server's data and
\* catalog, that of one that was away during the destroy or that a late POST of
\* a crashed pass created too.
WhatGoesIsGone == <>[](DetachIsOver /\ DestroyIsOver /\ NothingLeftBehind)
=============================================================================
