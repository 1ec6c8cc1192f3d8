---------------------------- MODULE SshAccessProofs ----------------------------
(***************************************************************************)
(* Safety of SSH access, for any set of routes, any lease and hold, and any  *)
(* number of changes and faults: nobody passes the proxy by what is not       *)
(* installed, what is sent is current, and a revoked route carries no bridge   *)
(* for longer than a lease.                                                  *)
(***************************************************************************)
EXTENDS SshAccess, SequenceTheorems, TLAPS

--------------------------------------------------------------------------------
(***************************************************************************)
(* The inductive invariant                                                  *)
(***************************************************************************)

Builds == [at : {"idle", "read", "numbered"}, view : SUBSET Routes, left : 0 .. Lease,
           live : BOOLEAN, overtaken : BOOLEAN]
Frames == [kind : {"snapshot"}, view : SUBSET Routes, left : 0 .. Lease, late : BOOLEAN]
          \cup [kind : {"pauseAdmit"}]
Stores == [kind : {"snapshot"}, view : SUBSET Routes, left : 0 .. Lease, epoch : BOOLEAN]
          \cup {None}
ConnPoints == {"none", "accepted", "pre", "verified", "accept", "open"}
Connections == [at : ConnPoints, login : BOOLEAN, pin : SUBSET Routes, revoked : BOOLEAN]
Channels == [at : {"none", "connecting", "bound", "checked", "open"},
             to : SUBSET Routes, alive : BOOLEAN]
LoopPoints == {"down", "up", "scan", "bridges", "resume", "abort", "abortLast", "clear", "revoke", "drop"}

BackendTyped ==
    /\ granted \subseteq Routes /\ since \in [Routes -> 0 .. Lease + 1]
    /\ hook \in BOOLEAN /\ up \in BOOLEAN /\ dirty \in BOOLEAN /\ renew \in BOOLEAN
    /\ link \in {"down", "init", "up"}
    /\ wire \in Seq(Frames)

ProxyTyped ==
    /\ store \in Stores
    /\ mode \in {"empty", "authoritative", "paused"} /\ hold \in 0 .. Hold
    /\ loop \in [at : LoopPoints, cur : Stores]
    /\ timer \in {"idle", "clear", "revoke", "drop"}
    /\ conn \in Connections /\ chan \in Channels

\* A link that is not admitted is one whose initial snapshot is being built.
InitIsBuilt == link = "init" <=> init.at # "idle"

\* A broken link pauses the proxy before its loop stands at "down".
DownIsPaused == Admits => loop.at \notin {"down", "abortLast"}

\* A build that may still be published shows what the database authorizes,
\* unless a committed change is about to outdate it.
Current(b) == b.at # "idle" /\ b.live /\ ~hook => b.view = granted

\* The time left of what was read and the time since a route was revoked fit
\* into one lease.
Within(view, left) == left = 0 \/ \A r \in view : since[r] + left <= Lease

GoodBuild(b) == b \in Builds /\ Current(b) /\ Within(b.view, b.left)
GoodFrame(f) == f.kind = "snapshot" => Within(f.view, f.left)
GoodWire(w) == \A n \in 1 .. Len(w) : GoodFrame(w[n])

\* A route that is authorized is not being revoked.
NoneRevoked == \A r \in granted : since[r] = 0

StoreLeased == store # None => Within(store.view, store.left)

\* A snapshot being installed is fresh, or the timer has taken it away.
InstallsFresh == loop.at \in {"scan", "bridges", "resume"} => store = None \/ store.left > 0

\* A channel belongs to an open session that is logged in; an abort leaves it
\* without a live child; an open bridge is a live one.
Children ==
    /\ chan.at # "none" => conn.at = "open" /\ conn.login /\ chan.to # {}
    /\ chan.alive => chan.at # "none" /\ ~conn.revoked
    /\ chan.at = "open" => chan.alive
    /\ conn.login => conn.at \in {"accept", "open"}

\* Neither thread is between taking a snapshot away and dropping the sessions.
Calm == timer = "idle" /\ loop.at \notin {"revoke", "drop"}

Passing == chan.at \in {"checked", "open"} /\ chan.alive

ConnsMatch ==
    Calm /\ loop.at # "scan" /\ conn.at = "open" /\ ~conn.revoked => Matches(conn, store)

\* What passes, or is about to, is in the installed snapshot, or the loop is
\* about to close it by that very snapshot.
ChansMatch ==
    Calm /\ loop.at # "scan" /\ Passing =>
        store # None /\ (chan.to \subseteq store.view \/ (loop.at = "bridges" /\ loop.cur = store))

\* A proxy that gave up has no live child.
EmptyIsDead == mode = "empty" /\ timer = "idle" /\ loop.at # "drop" => ~chan.alive

PassingIsRecent == Passing => \A r \in chan.to : since[r] <= Lease

BackendInv ==
    /\ BackendTyped /\ InitIsBuilt /\ NoneRevoked
    /\ GoodBuild(cast) /\ GoodBuild(init) /\ GoodWire(wire)

ProxyInv ==
    /\ ProxyTyped /\ DownIsPaused /\ StoreLeased /\ InstallsFresh
    /\ Children /\ ConnsMatch /\ ChansMatch /\ EmptyIsDead /\ PassingIsRecent

SInv == BackendInv /\ ProxyInv

--------------------------------------------------------------------------------
(***************************************************************************)
(* Builds                                                                   *)
(***************************************************************************)

\* No build, and one that was just read: it shows what is authorized, for a whole
\* lease.
LEMMA NewBuilds ==
    ASSUME granted \subseteq Routes
    PROVE  /\ NoBuild \in Builds /\ NoBuild.at = "idle" /\ NoBuild.left = 0
           /\ Build \in Builds /\ Build.at = "read" /\ Build.view = granted
           /\ Build.left = Lease /\ Build.live = TRUE
BY AccessConstants DEF NoBuild, Build, Builds

\* Outdating a build only makes it unpublishable; time only shortens its lease.
LEMMA ChangedBuilds ==
    ASSUME NEW b \in Builds
    PROVE  /\ Outdated(b) \in Builds /\ Outdated(b).at = b.at /\ Outdated(b).live = FALSE
           /\ Outdated(b).view = b.view /\ Outdated(b).left = b.left
           /\ Aged(b) \in Builds /\ Aged(b).at = b.at /\ Aged(b).live = b.live
           /\ Aged(b).view = b.view /\ Aged(b).left = Less(b.left)
<1>1. Less(b.left) \in 0 .. Lease
    BY AccessConstants DEF Builds, Less
<1>2. /\ Outdated(b) \in Builds /\ Outdated(b).at = b.at /\ Outdated(b).live = FALSE
      /\ Outdated(b).view = b.view /\ Outdated(b).left = b.left
    BY DEF Builds, Outdated
<1>3. /\ Aged(b) \in Builds /\ Aged(b).at = b.at /\ Aged(b).live = b.live
      /\ Aged(b).view = b.view /\ Aged(b).left = Less(b.left)
    BY <1>1 DEF Builds, Aged
<1> QED
    BY <1>2, <1>3

\* While a route is not revoked again, ageing a snapshot by as much as the
\* revocations keeps both within one lease.
LEMMA WithinAges ==
    ASSUME since \in [Routes -> 0 .. Lease + 1], NEW view \in SUBSET Routes, NEW left \in 0 .. Lease,
           Within(view, left), \A r \in Routes : since'[r] \in {since[r], since[r] + 1}
    PROVE  Within(view, Less(left))'
BY AccessConstants DEF Within, Less

\* A revocation that is not older than it was stays within the lease.
LEMMA WithinStays ==
    ASSUME since \in [Routes -> 0 .. Lease + 1], since' \in [Routes -> 0 .. Lease + 1],
           NEW view \in SUBSET Routes, NEW left \in 0 .. Lease,
           Within(view, left), \A r \in Routes : since'[r] <= since[r]
    PROVE  Within(view, left)'
BY AccessConstants DEF Within

\* What is authorized may be shown for a whole lease.
LEMMA WithinAtFirst ==
    ASSUME since \in [Routes -> 0 .. Lease + 1], NEW view \in SUBSET Routes,
           \A r \in view : since[r] = 0
    PROVE  \A left \in 0 .. Lease : Within(view, left)
BY AccessConstants DEF Within

--------------------------------------------------------------------------------
(***************************************************************************)
(* Frames on their way                                                      *)
(***************************************************************************)

\* Frames are taken off the wire and appended to it.
LEMMA WireChanges ==
    ASSUME NEW w \in Seq(Frames), GoodWire(w)
    PROVE  /\ <<>> \in Seq(Frames) /\ GoodWire(<<>>)
           /\ w # <<>> => Head(w) \in Frames /\ GoodFrame(Head(w)) /\ Tail(w) \in Seq(Frames) /\ GoodWire(Tail(w))
           /\ \A f \in Frames : GoodFrame(f) => Append(w, f) \in Seq(Frames) /\ GoodWire(Append(w, f))
<1>1. <<>> \in Seq(Frames) /\ GoodWire(<<>>)
    BY EmptySeq DEF GoodWire
<1>2. ASSUME w # <<>>
      PROVE  Head(w) \in Frames /\ GoodFrame(Head(w)) /\ Tail(w) \in Seq(Frames) /\ GoodWire(Tail(w))
    <2>1. /\ Head(w) \in Frames /\ Tail(w) \in Seq(Frames) /\ Len(Tail(w)) = Len(w) - 1
          /\ \A n \in 1 .. Len(Tail(w)) : Tail(w)[n] = w[n + 1]
        BY <1>2, HeadTailProperties
    <2>2. Len(w) \in Nat \ {0} /\ Head(w) = w[1]
        BY <1>2, EmptySeq
    <2>3. \A n \in 1 .. Len(Tail(w)) : n + 1 \in 1 .. Len(w)
        BY <2>1, <2>2
    <2>4. 1 \in 1 .. Len(w)
        BY <2>2
    <2> QED
        BY <2>1, <2>2, <2>3, <2>4 DEF GoodWire
<1>3. ASSUME NEW f \in Frames, GoodFrame(f)
      PROVE  Append(w, f) \in Seq(Frames) /\ GoodWire(Append(w, f))
    <2> DEFINE a == Append(w, f)
    <2>1. Len(w) \in Nat
        BY LenProperties
    <2>2. /\ a \in Seq(Frames) /\ Len(a) = Len(w) + 1 /\ a[Len(w) + 1] = f
          /\ \A n \in 1 .. Len(w) : a[n] = w[n]
        BY <2>1
    <2>3. \A n \in 1 .. Len(a) : n \in 1 .. Len(w) \/ n = Len(w) + 1
        BY <2>1, <2>2
    <2> QED
        BY <1>3, <2>2, <2>3 DEF GoodWire
<1> QED
    BY <1>1, <1>2, <1>3

--------------------------------------------------------------------------------
(***************************************************************************)
(* The steps, seen from the Backend                                         *)
(***************************************************************************)

\* What was sent stays within its lease while no revocation grows older.
LEMMA GoodWireStays ==
    ASSUME UNCHANGED since, NEW w, GoodWire(w)
    PROVE  GoodWire(w)'
BY DEF GoodWire, GoodFrame, Within

\* A new build, or none, is good; so is one that is outdated, or whose course
\* goes on.
LEMMA GoodBuilds ==
    ASSUME BackendInv, UNCHANGED <<granted, since>>
    PROVE  /\ cast' \in {Build, NoBuild} => GoodBuild(cast)'
           /\ init' \in {Build, NoBuild} => GoodBuild(init)'
           /\ cast' = Outdated(cast) => GoodBuild(cast)'
           /\ init' = Outdated(init) => GoodBuild(init)'
           /\ UNCHANGED <<hook, cast>> => GoodBuild(cast)'
           /\ UNCHANGED <<hook, init>> => GoodBuild(init)'
<1>0. /\ BackendTyped /\ NoneRevoked /\ GoodBuild(cast) /\ GoodBuild(init)
      /\ granted \subseteq Routes /\ since \in [Routes -> 0 .. Lease + 1]
    BY DEF BackendInv, BackendTyped
<1>1. /\ NoBuild \in Builds /\ NoBuild.at = "idle" /\ NoBuild.left = 0
      /\ Build \in Builds /\ Build.at = "read" /\ Build.view = granted /\ Build.left = Lease
    BY <1>0, NewBuilds
<1>2. Lease \in 0 .. Lease
    BY AccessConstants
<1>3. Within(granted, Lease)
    BY <1>0, <1>2, WithinAtFirst DEF NoneRevoked
<1>4. /\ cast' \in {Build, NoBuild} => GoodBuild(cast)'
      /\ init' \in {Build, NoBuild} => GoodBuild(init)'
    BY <1>1, <1>3 DEF GoodBuild, Current, Within
<1>5. cast' = Outdated(cast) => GoodBuild(cast)'
    <2>1. /\ Outdated(cast) \in Builds /\ Outdated(cast).live = FALSE
          /\ Outdated(cast).view = cast.view /\ Outdated(cast).left = cast.left
        BY <1>0, ChangedBuilds DEF GoodBuild
    <2> QED
        BY <1>0, <2>1 DEF GoodBuild, Current, Within
<1>6. init' = Outdated(init) => GoodBuild(init)'
    <2>1. /\ Outdated(init) \in Builds /\ Outdated(init).live = FALSE
          /\ Outdated(init).view = init.view /\ Outdated(init).left = init.left
        BY <1>0, ChangedBuilds DEF GoodBuild
    <2> QED
        BY <1>0, <2>1 DEF GoodBuild, Current, Within
<1>7. /\ UNCHANGED <<hook, cast>> => GoodBuild(cast)'
      /\ UNCHANGED <<hook, init>> => GoodBuild(init)'
    BY <1>0 DEF GoodBuild, Current, Within
<1> QED
    BY <1>4, <1>5, <1>6, <1>7

\* A step that changes neither the authorization nor the clock, and whose
\* builds and frames are good.
LEMMA BackendStep ==
    ASSUME BackendInv, UNCHANGED <<granted, since>>,
           hook' \in BOOLEAN, up' \in BOOLEAN, dirty' \in BOOLEAN, renew' \in BOOLEAN,
           link' \in {"down", "init", "up"}, InitIsBuilt',
           GoodBuild(cast)', GoodBuild(init)',
           wire' \in Seq(Frames), GoodWire(wire')
    PROVE  BackendInv'
<1>1. GoodWire(wire)'
    BY GoodWireStays DEF GoodWire, GoodFrame, Within
<1>2. BackendTyped' /\ NoneRevoked'
    BY DEF BackendInv, BackendTyped, NoneRevoked
<1> QED
    BY <1>1, <1>2 DEF BackendInv

\* The steps of the proxy alone: a frame is read, or none.
LEMMA ProxyAlone ==
    ASSUME BackendInv, UNCHANGED backend, wire' = wire \/ (wire # <<>> /\ wire' = Tail(wire))
    PROVE  BackendInv'
<1>1. UNCHANGED <<granted, since, hook, up, cast, dirty, renew, link, init>>
    BY DEF backend
<1>2. wire' \in Seq(Frames) /\ GoodWire(wire')
    BY WireChanges DEF BackendInv, BackendTyped
<1>3. InitIsBuilt' /\ BackendTyped /\ GoodBuild(cast)' /\ GoodBuild(init)'
    BY <1>1, GoodBuilds DEF BackendInv, InitIsBuilt
<1> QED
    BY <1>1, <1>2, <1>3, BackendStep DEF BackendTyped

\* A change of the authorization is announced later: until then nothing is
\* claimed of the builds, and a revoked route starts to count.
LEMMA ChangeKeepsBackend ==
    ASSUME BackendInv, Change
    PROVE  BackendInv' /\ \A r \in Routes : since'[r] <= since[r]
<1>0. /\ BackendTyped /\ InitIsBuilt /\ NoneRevoked
      /\ GoodBuild(cast) /\ GoodBuild(init) /\ GoodWire(wire)
    BY DEF BackendInv
<1>1. PICK g \in SUBSET Routes \ {granted} :
        /\ granted' = g
        /\ since' = [r \in Routes |-> IF r \in g \/ r \in granted THEN 0 ELSE since[r]]
    BY DEF Change
<1>2. hook' = TRUE /\ UNCHANGED <<up, cast, dirty, renew, link, init, wire>>
    BY DEF Change
<1>3. /\ since \in [Routes -> 0 .. Lease + 1] /\ since' \in [Routes -> 0 .. Lease + 1]
      /\ \A r \in Routes : since'[r] <= since[r]
      /\ \A r \in granted' : since'[r] = 0
    BY <1>0, <1>1, AccessConstants DEF BackendTyped
<1>4. BackendTyped' /\ InitIsBuilt' /\ NoneRevoked'
    BY <1>0, <1>1, <1>2, <1>3 DEF BackendTyped, InitIsBuilt, NoneRevoked
<1>5. \A view \in SUBSET Routes : \A left \in 0 .. Lease : Within(view, left) => Within(view, left)'
    BY <1>3, WithinStays
<1>6. GoodBuild(cast)' /\ GoodBuild(init)'
    BY <1>0, <1>2, <1>5 DEF GoodBuild, Current, Builds
<1>7. GoodWire(wire)'
    <2> SUFFICES ASSUME NEW n \in 1 .. Len(wire)
                 PROVE  GoodFrame(wire[n])'
        BY <1>2 DEF GoodWire
    <2>1. wire[n] \in Frames /\ GoodFrame(wire[n])
        BY <1>0, ElementOfSeq DEF BackendTyped, GoodWire
    <2> QED
        BY <1>2, <1>5, <2>1 DEF GoodFrame, Frames
<1> QED
    BY <1>3, <1>4, <1>6, <1>7 DEF BackendInv

\* The build of a flush, and the initial one of a new link.
LEMMA BuildsKeepBackend ==
    ASSUME BackendInv,
           \/ Invalidate \/ Renew \/ CastNumbered \/ CastFails \/ InitNumbered
           \/ BackendStarts \/ Connect \/ DropAll
    PROVE  BackendInv' /\ UNCHANGED since
<1>0. /\ BackendTyped /\ InitIsBuilt /\ NoneRevoked
      /\ GoodBuild(cast) /\ GoodBuild(init) /\ GoodWire(wire)
    BY DEF BackendInv
<1>1. ASSUME Flush
      PROVE  cast' \in {Build, NoBuild} /\ dirty' = FALSE
    BY <1>1 DEF Flush
<1>2. cast \in Builds /\ init \in Builds
    BY <1>0 DEF GoodBuild
<1>3. NoBuild.at = "idle" /\ Build.at = "read"
    BY <1>0, NewBuilds DEF BackendTyped
<1>4. ASSUME Invalidate
      PROVE  BackendInv' /\ UNCHANGED since
    <2>1. /\ hook' = FALSE /\ renew' = FALSE /\ init' = Outdated(init)
          /\ UNCHANGED <<granted, since, up, link, wire>>
        BY <1>4 DEF Invalidate
    <2>2. \/ cast' \in {Build, NoBuild} /\ dirty' = FALSE
          \/ cast' = Outdated(cast) /\ dirty' = TRUE
        BY <1>1, <1>4 DEF Invalidate
    <2>3. GoodBuild(cast)' /\ GoodBuild(init)'
        BY <2>1, <2>2, GoodBuilds
    <2>4. InitIsBuilt'
        BY <1>0, <1>2, <2>1, ChangedBuilds DEF InitIsBuilt
    <2> QED
        BY <1>0, <2>1, <2>2, <2>3, <2>4, BackendStep DEF BackendTyped
<1>5. ASSUME Renew
      PROVE  BackendInv' /\ UNCHANGED since
    <2>1. /\ renew' = FALSE /\ UNCHANGED <<granted, since, hook, up, link, init, wire>>
        BY <1>5 DEF Renew
    <2>2. (cast' \in {Build, NoBuild} /\ dirty' = FALSE) \/ UNCHANGED <<cast, dirty>>
        BY <1>1, <1>5 DEF Renew
    <2>3. GoodBuild(cast)' /\ GoodBuild(init)' /\ InitIsBuilt'
        BY <1>0, <2>1, <2>2, GoodBuilds DEF InitIsBuilt
    <2> QED
        BY <1>0, <2>1, <2>2, <2>3, BackendStep DEF BackendTyped
<1>6. ASSUME CastNumbered
      PROVE  BackendInv' /\ UNCHANGED since
    <2>1. /\ cast.at = "read" /\ cast' = [cast EXCEPT !.at = "numbered"]
          /\ UNCHANGED <<granted, since, hook, up, dirty, renew, link, init, wire>>
        BY <1>6 DEF CastNumbered
    <2>2. cast' \in Builds /\ cast'.view = cast.view /\ cast'.left = cast.left /\ cast'.live = cast.live
        BY <1>2, <2>1 DEF Builds
    <2>3. GoodBuild(cast)' /\ GoodBuild(init)' /\ InitIsBuilt'
        BY <1>0, <2>1, <2>2 DEF InitIsBuilt, GoodBuild, Current, Within
    <2> QED
        BY <1>0, <2>1, <2>3, BackendStep DEF BackendTyped
<1>7. ASSUME CastFails
      PROVE  BackendInv' /\ UNCHANGED since
    <2>1. /\ cast' = NoBuild /\ dirty' = TRUE
          /\ UNCHANGED <<granted, since, hook, up, renew, link, init, wire>>
        BY <1>7 DEF CastFails
    <2>2. GoodBuild(cast)' /\ GoodBuild(init)' /\ InitIsBuilt'
        BY <1>0, <2>1, GoodBuilds DEF InitIsBuilt
    <2> QED
        BY <1>0, <2>1, <2>2, BackendStep DEF BackendTyped
<1>8. ASSUME InitNumbered
      PROVE  BackendInv' /\ UNCHANGED since
    <2>1. /\ init.at = "read" /\ init' = [init EXCEPT !.at = "numbered"]
          /\ cast' = [cast EXCEPT !.overtaken = cast.at = "numbered"]
          /\ UNCHANGED <<granted, since, hook, up, dirty, renew, link, wire>>
        BY <1>8 DEF InitNumbered
    <2>2. /\ cast' \in Builds /\ cast'.view = cast.view /\ cast'.left = cast.left
          /\ cast'.live = cast.live /\ cast'.at = cast.at
        BY <1>2, <2>1 DEF Builds
    <2>3. /\ init' \in Builds /\ init'.view = init.view /\ init'.left = init.left
          /\ init'.live = init.live /\ init'.at # "idle"
        BY <1>2, <2>1 DEF Builds
    <2>4. GoodBuild(cast)' /\ GoodBuild(init)' /\ InitIsBuilt'
        BY <1>0, <2>1, <2>2, <2>3 DEF InitIsBuilt, GoodBuild, Current, Within
    <2> QED
        BY <1>0, <2>1, <2>4, BackendStep DEF BackendTyped
<1>9. ASSUME BackendStarts
      PROVE  BackendInv' /\ UNCHANGED since
    <2>1. /\ up' = TRUE
          /\ UNCHANGED <<granted, since, hook, cast, dirty, renew, link, init, wire>>
        BY <1>9 DEF BackendStarts
    <2>2. GoodBuild(cast)' /\ GoodBuild(init)' /\ InitIsBuilt'
        BY <1>0, <2>1, GoodBuilds DEF InitIsBuilt
    <2> QED
        BY <1>0, <2>1, <2>2, BackendStep DEF BackendTyped
<1>10. ASSUME Connect \/ DropAll
       PROVE  BackendInv' /\ UNCHANGED since
    <2>1. /\ (link' = "init" /\ init' = Build) \/ (link' = "down" /\ init' = NoBuild)
          /\ wire' = <<>>
          /\ UNCHANGED <<granted, since, hook, up, cast, dirty, renew>>
        BY <1>10 DEF Connect, DropAll
    <2>2. GoodBuild(cast)' /\ GoodBuild(init)' /\ InitIsBuilt'
        BY <1>3, <2>1, GoodBuilds DEF InitIsBuilt
    <2>3. wire' \in Seq(Frames) /\ GoodWire(wire')
        BY <1>0, <2>1, WireChanges DEF BackendTyped
    <2> QED
        BY <1>0, <2>1, <2>2, <2>3, BackendStep DEF BackendTyped
<1> QED
    BY <1>4, <1>5, <1>6, <1>7, <1>8, <1>9, <1>10

\* What is sent is good, and current while no change waits to be announced.
SendsCurrent ==
    Len(wire') > Len(wire) /\ ~hook /\ wire'[Len(wire')].kind = "snapshot" =>
        wire'[Len(wire')].view = granted

\* A frame that is appended is the last of the wire.
LEMMA AppendedIsLast ==
    ASSUME BackendInv, NEW f, wire' = Append(wire, f)
    PROVE  wire'[Len(wire')] = f
<1>1. wire \in Seq(Frames) /\ Len(wire) \in Nat
    BY LenProperties DEF BackendInv, BackendTyped
<1> QED
    BY <1>1

\* The frame made of a build carries its view and what is left of its lease.
LEMMA SnapshotFrame ==
    ASSUME NEW v \in SUBSET Routes, NEW n \in 0 .. Lease, NEW l \in BOOLEAN
    PROVE  /\ Snapshot(v, n, l) \in Frames
           /\ Snapshot(v, n, l).view = v /\ Snapshot(v, n, l).left = n
BY DEF Snapshot, Frames

\* The broadcast goes out: it is the view of its build, and no younger.
LEMMA CastSendKeepsBackend ==
    ASSUME BackendInv, CastSend
    PROVE  BackendInv' /\ UNCHANGED since /\ SendsCurrent
<1>0. /\ BackendTyped /\ InitIsBuilt /\ NoneRevoked
      /\ GoodBuild(cast) /\ GoodBuild(init) /\ GoodWire(wire)
    BY DEF BackendInv
<1> DEFINE f == Snapshot(cast.view, cast.left, cast.overtaken)
<1>1. /\ cast.at = "numbered"
      /\ wire' = IF cast.live /\ link = "up" THEN Append(wire, f) ELSE wire
      /\ UNCHANGED <<granted, since, hook, up, renew, link, init>>
    BY DEF CastSend
<1>2. cast' \in {Build, NoBuild} /\ dirty' \in BOOLEAN
    <2>1. CASE dirty \/ ~cast.live
        BY <2>1 DEF CastSend, Flush
    <2>2. CASE ~(dirty \/ ~cast.live)
        BY <1>0, <2>2 DEF CastSend, BackendTyped
    <2> QED
        BY <2>1, <2>2
<1>3. f \in Frames /\ f.view = cast.view /\ f.left = cast.left
    BY <1>0, SnapshotFrame DEF GoodBuild, Builds
<1> HIDE DEF f
<1>4. GoodFrame(f)
    BY <1>0, <1>3 DEF GoodFrame, GoodBuild
<1>5. wire' \in Seq(Frames) /\ GoodWire(wire')
    BY <1>0, <1>1, <1>3, <1>4, WireChanges DEF BackendTyped
<1>6. GoodBuild(cast)' /\ GoodBuild(init)' /\ InitIsBuilt'
    BY <1>0, <1>1, <1>2, GoodBuilds DEF InitIsBuilt
<1>7. BackendInv'
    BY <1>0, <1>1, <1>2, <1>5, <1>6, BackendStep DEF BackendTyped
<1>8. SendsCurrent
    <2>1. CASE cast.live /\ link = "up"
        <3>1. wire'[Len(wire')] = f
            BY <1>1, <2>1, AppendedIsLast
        <3>2. ~hook => cast.view = granted
            BY <1>0, <1>1, <2>1 DEF GoodBuild, Current
        <3> QED
            BY <1>3, <3>1, <3>2 DEF SendsCurrent
    <2>2. CASE ~(cast.live /\ link = "up")
        <3>1. wire' = wire
            BY <1>1, <2>2
        <3>2. Len(wire) \in Nat
            BY <1>0, LenProperties DEF BackendTyped
        <3> QED
            BY <3>1, <3>2 DEF SendsCurrent
    <2> QED
        BY <2>1, <2>2
<1> QED
    BY <1>1, <1>7, <1>8

\* The initial snapshot of a link goes out, and the link is admitted.
LEMMA AdmitKeepsBackend ==
    ASSUME BackendInv, Admit
    PROVE  BackendInv' /\ UNCHANGED since /\ SendsCurrent
<1>0. /\ BackendTyped /\ InitIsBuilt /\ NoneRevoked
      /\ GoodBuild(cast) /\ GoodBuild(init) /\ GoodWire(wire)
    BY DEF BackendInv
<1> DEFINE f == Snapshot(init.view, init.left, FALSE)
<1>1. init.at = "numbered" /\ UNCHANGED <<granted, since, hook, up, cast, dirty, renew>>
    BY DEF Admit
<1>2. NoBuild.at = "idle" /\ Build.at = "read"
    BY <1>0, NewBuilds DEF BackendTyped
<1>3. f \in Frames /\ f.view = init.view /\ f.left = init.left
    <2>1. init.view \in SUBSET Routes /\ init.left \in 0 .. Lease
        BY <1>0 DEF GoodBuild, Builds
    <2> QED
        BY <2>1, SnapshotFrame
<1>4. CASE init.live
    <2>1. init' = NoBuild /\ link' = "up" /\ wire' = Append(wire, f)
        BY <1>4 DEF Admit
    <2> HIDE DEF f
    <2>2. GoodFrame(f)
        BY <1>0, <1>3 DEF GoodFrame, GoodBuild
    <2>3. wire' \in Seq(Frames) /\ GoodWire(wire')
        BY <1>0, <1>3, <2>1, <2>2, WireChanges DEF BackendTyped
    <2>4. GoodBuild(cast)' /\ GoodBuild(init)' /\ InitIsBuilt'
        BY <1>1, <1>2, <2>1, GoodBuilds DEF InitIsBuilt
    <2>5. BackendInv'
        BY <1>0, <1>1, <2>1, <2>3, <2>4, BackendStep DEF BackendTyped
    <2>6. wire'[Len(wire')] = f
        BY <2>1, AppendedIsLast
    <2>7. ~hook => init.view = granted
        BY <1>0, <1>1, <1>4 DEF GoodBuild, Current
    <2> QED
        BY <1>1, <1>3, <2>5, <2>6, <2>7 DEF SendsCurrent
<1>5. CASE ~init.live
    <2>1. init' = Build /\ UNCHANGED <<link, wire>>
        BY <1>5 DEF Admit
    <2>2. GoodBuild(cast)' /\ GoodBuild(init)' /\ InitIsBuilt'
        BY <1>0, <1>1, <1>2, <2>1, GoodBuilds DEF InitIsBuilt
    <2>3. BackendInv'
        BY <1>0, <1>1, <2>1, <2>2, BackendStep DEF BackendTyped
    <2>4. Len(wire) \in Nat
        BY <1>0, LenProperties DEF BackendTyped
    <2> QED
        BY <1>1, <2>1, <2>3, <2>4 DEF SendsCurrent
<1> QED
    BY <1>4, <1>5

\* A lost link empties the wire, a Backend that stops only says so.
LEMMA LossesKeepBackend ==
    ASSUME BackendInv, LinkLost \/ BackendStops
    PROVE  BackendInv' /\ UNCHANGED since /\ SendsCurrent
<1>0. /\ BackendTyped /\ InitIsBuilt /\ NoneRevoked
      /\ GoodBuild(cast) /\ GoodBuild(init) /\ GoodWire(wire)
    BY DEF BackendInv
<1> DEFINE f == [kind |-> "pauseAdmit"]
<1>1. /\ wire' \in {wire, <<>>, Append(wire, f)}
      /\ link' = "down" /\ init' = NoBuild
      /\ UNCHANGED <<granted, since>>
      /\ \/ UNCHANGED <<hook, up, cast, dirty, renew>>
         \/ hook' = FALSE /\ up' = FALSE /\ cast' = NoBuild /\ dirty' = FALSE /\ renew' = FALSE
    BY DEF LinkLost, BackendStops
<1>2. f \in Frames /\ f.kind = "pauseAdmit"
    BY DEF Frames
<1> HIDE DEF f
<1>3. wire' \in Seq(Frames) /\ GoodWire(wire')
    <2>1. GoodFrame(f)
        BY <1>2 DEF GoodFrame
    <2> QED
        BY <1>0, <1>1, <1>2, <2>1, WireChanges DEF BackendTyped
<1>4. NoBuild.at = "idle"
    BY <1>0, NewBuilds DEF BackendTyped
<1>5. GoodBuild(cast)' /\ GoodBuild(init)' /\ InitIsBuilt'
    BY <1>1, <1>4, GoodBuilds DEF InitIsBuilt
<1>6. BackendInv'
    BY <1>0, <1>1, <1>3, <1>5, BackendStep DEF BackendTyped
<1>7. SendsCurrent
    <2>1. CASE wire' = Append(wire, f)
        <3>1. wire'[Len(wire')] = f
            BY <2>1, AppendedIsLast
        <3> QED
            BY <1>2, <3>1 DEF SendsCurrent
    <2>2. CASE wire' \in {wire, <<>>}
        <3>1. Len(wire) \in Nat /\ Len(<<>>) = 0
            BY <1>0, LenProperties, EmptySeq DEF BackendTyped
        <3> QED
            BY <2>2, <3>1 DEF SendsCurrent
    <2> QED
        BY <1>1, <2>1, <2>2
<1> QED
    BY <1>1, <1>6, <1>7

\* Time passes for everything that was read and for everything that was revoked.
LEMMA TickKeepsBackend ==
    ASSUME BackendInv, Tick
    PROVE  /\ BackendInv' /\ SendsCurrent
           /\ \A r \in Routes : since'[r] \in {since[r], since[r] + 1}
<1>0. /\ BackendTyped /\ InitIsBuilt /\ NoneRevoked
      /\ GoodBuild(cast) /\ GoodBuild(init) /\ GoodWire(wire)
    BY DEF BackendInv
<1>1. /\ since' = [r \in Routes |-> IF r \in granted \/ since[r] > Lease THEN since[r] ELSE since[r] + 1]
      /\ renew' = up /\ cast' = Aged(cast) /\ init' = Aged(init)
      /\ wire' = [i \in 1 .. Len(wire) |-> IF wire[i].kind = "snapshot" THEN Aged(wire[i]) ELSE wire[i]]
      /\ UNCHANGED <<granted, hook, up, dirty, link>>
    BY DEF Tick
<1>2. /\ since \in [Routes -> 0 .. Lease + 1] /\ since' \in [Routes -> 0 .. Lease + 1]
      /\ \A r \in Routes : since'[r] \in {since[r], since[r] + 1}
    BY <1>0, <1>1, AccessConstants DEF BackendTyped
<1>3. NoneRevoked'
    BY <1>0, <1>1 DEF NoneRevoked, BackendTyped
<1>4. /\ cast' \in Builds /\ cast'.at = cast.at /\ cast'.live = cast.live
      /\ cast'.view = cast.view /\ cast'.left = Less(cast.left)
      /\ init' \in Builds /\ init'.at = init.at /\ init'.live = init.live
      /\ init'.view = init.view /\ init'.left = Less(init.left)
    BY <1>0, <1>1, ChangedBuilds DEF GoodBuild
<1>5. /\ cast.view \in SUBSET Routes /\ cast.left \in 0 .. Lease
      /\ init.view \in SUBSET Routes /\ init.left \in 0 .. Lease
    BY <1>0 DEF GoodBuild, Builds
<1>6. GoodBuild(cast)' /\ GoodBuild(init)'
    <2>1. cast'.left = 0 \/ \A r \in cast'.view : since'[r] + cast'.left <= Lease
        BY <1>0, <1>2, <1>4, <1>5, AccessConstants DEF GoodBuild, Within, Less
    <2>2. init'.left = 0 \/ \A r \in init'.view : since'[r] + init'.left <= Lease
        BY <1>0, <1>2, <1>4, <1>5, AccessConstants DEF GoodBuild, Within, Less
    <2> QED
        BY <1>0, <1>1, <1>4, <2>1, <2>2 DEF GoodBuild, Current, Within
<1>7. Len(wire) \in Nat /\ DOMAIN wire' = 1 .. Len(wire)
    BY <1>0, <1>1, LenProperties DEF BackendTyped
<1>8. ASSUME NEW n \in 1 .. Len(wire)
      PROVE  wire'[n] \in Frames /\ GoodFrame(wire[n])'
    <2>1. wire[n] \in Frames /\ GoodFrame(wire[n])
        BY <1>0, ElementOfSeq DEF BackendTyped, GoodWire
    <2>2. CASE wire[n].kind = "snapshot"
        <3>1. wire[n].view \in SUBSET Routes /\ wire[n].left \in 0 .. Lease /\ wire[n].late \in BOOLEAN
            BY <2>1, <2>2 DEF Frames
        <3>2. wire'[n] = Aged(wire[n])
            BY <1>1, <2>2
        <3>3. Less(wire[n].left) \in 0 .. Lease
            BY <3>1, AccessConstants DEF Less
        <3>4. /\ wire'[n] \in Frames /\ wire'[n].kind = "snapshot"
              /\ wire'[n].view = wire[n].view /\ wire'[n].left = Less(wire[n].left)
            BY <2>1, <2>2, <3>2, <3>3 DEF Aged, Frames
        <3>5. Within(wire[n].view, wire[n].left)
            BY <2>1, <2>2 DEF GoodFrame
        <3>6. \A v \in SUBSET Routes : \A k \in 0 .. Lease :
                Within(v, k) => (Less(k) = 0 \/ \A r \in v : since'[r] + Less(k) <= Lease)
            BY <1>2, AccessConstants DEF Within, Less
        <3>7. Less(wire[n].left) = 0 \/ \A r \in wire[n].view : since'[r] + Less(wire[n].left) <= Lease
            BY <3>1, <3>5, <3>6
        <3> QED
            BY <3>4, <3>7 DEF GoodFrame, Within
    <2>3. CASE wire[n].kind # "snapshot"
        <3>1. wire'[n] = wire[n]
            BY <1>1, <2>3
        <3> QED
            BY <2>1, <2>3, <3>1 DEF GoodFrame
    <2> QED
        BY <2>2, <2>3
<1>9. wire' \in Seq(Frames) /\ Len(wire') = Len(wire)
    <2>1. wire' \in [1 .. Len(wire) -> Frames]
        BY <1>1, <1>8
    <2> QED
        BY <1>7, <2>1
<1>10. GoodWire(wire)'
    BY <1>8, <1>9 DEF GoodWire, GoodFrame, Within
<1>11. BackendTyped' /\ InitIsBuilt'
    BY <1>0, <1>1, <1>2, <1>4, <1>9 DEF BackendTyped, InitIsBuilt
<1>12. SendsCurrent
    BY <1>7, <1>9 DEF SendsCurrent
<1> QED
    BY <1>2, <1>3, <1>6, <1>10, <1>11, <1>12 DEF BackendInv

--------------------------------------------------------------------------------
(***************************************************************************)
(* The steps, seen from the proxy: the Backend and the session's handler    *)
(***************************************************************************)

\* A step of the Backend alone, no revocation growing older.
LEMMA BackendAlone ==
    ASSUME BackendInv, BackendInv', ProxyInv, UNCHANGED <<control, loop, timer, sessions>>,
           \A r \in Routes : since'[r] <= since[r]
    PROVE  ProxyInv'
<1>1. UNCHANGED <<store, mode, hold, loop, timer, conn, chan>>
    BY DEF control, sessions
<1>2. since \in [Routes -> 0 .. Lease + 1] /\ since' \in [Routes -> 0 .. Lease + 1]
    BY DEF BackendInv, BackendTyped
<1>3. ProxyTyped' /\ DownIsPaused' /\ InstallsFresh' /\ Children'
    BY <1>1 DEF ProxyInv, ProxyTyped, DownIsPaused, InstallsFresh, Children, Admits
<1>4. ConnsMatch' /\ ChansMatch' /\ EmptyIsDead'
    BY <1>1 DEF ProxyInv, ConnsMatch, ChansMatch, EmptyIsDead, Calm, Passing, Matches
<1>5. StoreLeased'
    <2>1. store # None => store.view \in SUBSET Routes /\ store.left \in 0 .. Lease
        BY DEF ProxyInv, ProxyTyped, Stores
    <2> QED
        BY <1>1, <1>2, <2>1, WithinStays DEF ProxyInv, StoreLeased
<1>6. PassingIsRecent'
    <2>1. chan.to \subseteq Routes
        BY DEF ProxyInv, ProxyTyped, Channels
    <2> QED
        BY <1>1, <1>2, <2>1, AccessConstants DEF ProxyInv, PassingIsRecent, Passing
<1> QED
    BY <1>3, <1>4, <1>5, <1>6 DEF ProxyInv

\* A step of the handler that leaves the snapshot and the control plane alone.
LEMMA HandlerStep ==
    ASSUME ProxyInv, UNCHANGED rest, conn' \in Connections, chan' \in Channels,
           Children', ConnsMatch', ChansMatch', EmptyIsDead', PassingIsRecent'
    PROVE  ProxyInv'
<1>1. UNCHANGED <<store, mode, hold, loop, timer, since>>
    BY DEF rest, control, backend
<1>2. ProxyTyped'
    BY <1>1 DEF ProxyInv, ProxyTyped
<1>3. DownIsPaused' /\ InstallsFresh' /\ StoreLeased'
    BY <1>1 DEF ProxyInv, DownIsPaused, InstallsFresh, StoreLeased, Admits, Within
<1> QED
    BY <1>2, <1>3 DEF ProxyInv

\* The session before it is open has no channel.
LEMMA LoginStep ==
    ASSUME ProxyInv, UNCHANGED <<rest, chan>>, conn.at # "open", conn' \in Connections,
           conn'.login => conn'.at \in {"accept", "open"},
           conn'.at = "open" => Matches(conn', store)
    PROVE  ProxyInv'
<1>1. UNCHANGED rest /\ UNCHANGED <<store, mode, hold, loop, timer, since>>
    BY DEF rest, control, backend
<1>2. chan.at = "none" /\ ~chan.alive /\ chan \in Channels
    BY DEF ProxyInv, Children, ProxyTyped
<1>3. Children'
    BY <1>2 DEF Children
<1>4. ConnsMatch'
    BY <1>1 DEF ConnsMatch, Matches
<1>5. ChansMatch' /\ EmptyIsDead' /\ PassingIsRecent'
    BY <1>2 DEF ChansMatch, EmptyIsDead, PassingIsRecent, Passing
<1> QED
    BY <1>1, <1>2, <1>3, <1>4, <1>5, HandlerStep

\* The session up to its login.
LEMMA LoginKeepsProxy ==
    ASSUME ProxyInv, Accept \/ Register \/ Verify \/ SetAuthenticated \/ AuthSucceeded
    PROVE  ProxyInv'
<1>0. conn \in Connections /\ (conn.login => conn.at \in {"accept", "open"}) /\ store \in Stores
    BY DEF ProxyInv, ProxyTyped, Children
<1>1. NoConn \in Connections /\ NoConn.at = "none" /\ NoConn.login = FALSE
    BY DEF NoConn, Connections, ConnPoints
<1>2. ASSUME NEW p \in ConnPoints
      PROVE  /\ [conn EXCEPT !.at = p] \in Connections
             /\ [conn EXCEPT !.at = p].at = p
             /\ [conn EXCEPT !.at = p].login = conn.login
             /\ [conn EXCEPT !.at = p].pin = conn.pin
    BY <1>0 DEF Connections
<1>3. ASSUME Accept
      PROVE  ProxyInv'
    <2>1. conn.at = "none" /\ conn' = [NoConn EXCEPT !.at = "accepted"] /\ UNCHANGED <<rest, chan>>
        BY <1>3 DEF Accept
    <2>2. conn' \in Connections /\ conn'.at = "accepted" /\ conn'.login = FALSE
        BY <2>1 DEF NoConn, Connections, ConnPoints
    <2> QED
        BY <2>1, <2>2, LoginStep
<1>4. ASSUME Register
      PROVE  ProxyInv'
    <2>1. /\ conn.at = "accepted" /\ UNCHANGED <<rest, chan>>
          /\ conn' = NoConn \/ conn' = [conn EXCEPT !.at = "pre"]
        BY <1>4 DEF Register
    <2>2. "pre" \in ConnPoints
        BY DEF ConnPoints
    <2>3. conn' \in Connections /\ conn'.at \in {"none", "pre"} /\ conn'.login = FALSE
        BY <1>0, <1>1, <1>2, <2>1, <2>2 DEF Connections
    <2> QED
        BY <2>1, <2>3, LoginStep
<1>5. ASSUME Verify
      PROVE  ProxyInv'
    <2>1. /\ conn.at = "pre" /\ UNCHANGED <<rest, chan>>
        BY <1>5 DEF Verify
    <2>2. CASE conn' = [conn EXCEPT !.at = "accept"]
        <3>1. conn' \in Connections /\ conn'.at = "accept"
            BY <1>2, <2>2 DEF ConnPoints
        <3> QED
            BY <2>1, <3>1, LoginStep
    <2>3. CASE /\ Admits /\ Fresh /\ store.view # {}
               /\ \E p \in {{}} \cup {{r} : r \in store.view}:
                    conn' = [conn EXCEPT !.at = "verified", !.pin = p]
        <3>1. store.view \subseteq Routes
            BY <1>0, <2>3 DEF Stores, Fresh
        <3>2. PICK p \in SUBSET Routes : conn' = [conn EXCEPT !.at = "verified", !.pin = p]
            BY <2>3, <3>1
        <3>3. conn' \in Connections /\ conn'.at = "verified" /\ conn'.login = conn.login
            BY <1>0, <3>2 DEF Connections, ConnPoints
        <3> QED
            BY <1>0, <2>1, <3>3, LoginStep
    <2> QED
        BY <1>5, <2>2, <2>3 DEF Verify
<1>6. ASSUME SetAuthenticated
      PROVE  ProxyInv'
    <2>1. /\ conn.at = "verified" /\ conn' = [conn EXCEPT !.at = "accept", !.login = TRUE]
          /\ UNCHANGED <<rest, chan>>
        BY <1>6 DEF SetAuthenticated
    <2>2. conn' \in Connections /\ conn'.at = "accept"
        BY <1>0, <2>1 DEF Connections, ConnPoints
    <2> QED
        BY <2>1, <2>2, LoginStep
<1>7. ASSUME AuthSucceeded
      PROVE  ProxyInv'
    <2>1. /\ conn.at = "accept" /\ UNCHANGED <<rest, chan>>
          /\ conn' = IF StillAuthorized THEN [conn EXCEPT !.at = "open"] ELSE NoConn
        BY <1>7 DEF AuthSucceeded
    <2>2. CASE StillAuthorized
        <3>1. conn' \in Connections /\ conn'.at = "open" /\ conn'.login = conn.login /\ conn'.pin = conn.pin
            BY <1>2, <2>1, <2>2 DEF ConnPoints
        <3>2. Matches(conn', store)
            BY <2>2, <3>1 DEF StillAuthorized, Matches
        <3> QED
            BY <2>1, <3>1, <3>2, LoginStep
    <2>3. CASE ~StillAuthorized
        BY <1>1, <2>1, <2>3, LoginStep
    <2> QED
        BY <2>2, <2>3
<1> QED
    BY <1>3, <1>4, <1>5, <1>6, <1>7

\* A channel of the session, from its request to its end.
LEMMA ChannelKeepsProxy ==
    ASSUME BackendInv, ProxyInv, OpenChannel \/ BindRoute \/ Recheck \/ Spawn \/ ChannelEnds \/ ConnectionEnds
    PROVE  ProxyInv'
<1>0. /\ conn \in Connections /\ chan \in Channels /\ store \in Stores
      /\ Children /\ ConnsMatch /\ ChansMatch /\ EmptyIsDead /\ PassingIsRecent /\ StoreLeased
    BY DEF ProxyInv, ProxyTyped
<1>1. NoConn \in Connections /\ NoConn.at = "none" /\ NoConn.login = FALSE
    BY DEF NoConn, Connections, ConnPoints
<1>2. NoChan \in Channels /\ NoChan.at = "none" /\ NoChan.alive = FALSE
    BY DEF NoChan, Channels
<1>3. /\ UNCHANGED rest /\ UNCHANGED <<store, mode, loop, timer, since>>
    BY DEF OpenChannel, BindRoute, Recheck, Spawn, ChannelEnds, ConnectionEnds, rest, control, backend
<1>4. ASSUME ConnectionEnds
      PROVE  ProxyInv'
    <2>1. conn' = NoConn /\ chan' = NoChan
        BY <1>4 DEF ConnectionEnds
    <2>2. Children' /\ ConnsMatch' /\ ChansMatch' /\ EmptyIsDead' /\ PassingIsRecent'
        BY <1>1, <1>2, <2>1 DEF Children, ConnsMatch, ChansMatch, EmptyIsDead, PassingIsRecent, Passing
    <2> QED
        BY <1>1, <1>2, <1>3, <2>1, <2>2, HandlerStep
\* A channel of the same session, dead or with the same life, that passes only
\* where it passed before.
<1>5. ASSUME UNCHANGED conn, chan' \in Channels,
             chan' = NoChan \/ (chan'.to = chan.to /\ chan'.alive = chan.alive /\ chan.at # "none" /\ chan'.at # "none"),
             chan'.at = "open" => chan'.alive,
             Passing' => Passing
      PROVE  ProxyInv'
    <2>1. Children'
        BY <1>0, <1>2, <1>5 DEF Children
    <2>2. ConnsMatch' /\ EmptyIsDead'
        BY <1>0, <1>2, <1>3, <1>5 DEF ConnsMatch, EmptyIsDead, Matches, Calm
    <2>3. ~Passing' \/ (Passing /\ chan'.to = chan.to)
        BY <1>2, <1>5 DEF Passing
    <2>4. ChansMatch' /\ PassingIsRecent'
        BY <1>0, <1>3, <2>3 DEF ChansMatch, PassingIsRecent, Calm
    <2> QED
        BY <1>0, <1>3, <1>5, <2>1, <2>2, <2>4, HandlerStep
<1>6. ASSUME OpenChannel
      PROVE  ProxyInv'
    <2>1. PICK r \in Routes : Authorized(r) /\ chan' = [at |-> "connecting", to |-> {r}, alive |-> TRUE]
        BY <1>6 DEF OpenChannel
    <2>2. /\ conn.at = "open" /\ ~conn.revoked /\ ~PauseRejecting /\ UNCHANGED conn
        BY <1>6 DEF OpenChannel
    <2>3. chan' \in Channels /\ chan'.at = "connecting" /\ chan'.to # {} /\ ~Passing'
        BY <2>1 DEF Channels, Passing
    <2>4. conn.login /\ Admits
        BY <2>1, <2>2 DEF Authorized, PauseRejecting, Fresh
    <2>5. Children' /\ ConnsMatch'
        BY <1>0, <1>3, <2>2, <2>3, <2>4 DEF Children, ConnsMatch, Matches, Calm
    <2>6. ChansMatch' /\ PassingIsRecent'
        BY <2>3 DEF ChansMatch, PassingIsRecent
    <2>7. EmptyIsDead'
        BY <1>3, <2>4 DEF EmptyIsDead, Admits
    <2> QED
        BY <1>0, <1>3, <2>2, <2>3, <2>5, <2>6, <2>7, HandlerStep
<1>7. ASSUME BindRoute
      PROVE  ProxyInv'
    <2>1. chan.at = "connecting" /\ chan' \in {[chan EXCEPT !.at = "bound"], NoChan} /\ UNCHANGED conn
        BY <1>7 DEF BindRoute
    <2>2. chan' \in Channels /\ (chan' = NoChan \/ (chan'.to = chan.to /\ chan'.alive = chan.alive /\ chan'.at = "bound"))
        BY <1>0, <1>2, <2>1 DEF Channels
    <2> QED
        BY <1>2, <1>5, <2>1, <2>2 DEF Passing
<1>8. ASSUME Recheck
      PROVE  ProxyInv'
    <2>1. chan.at = "bound" /\ UNCHANGED conn
        BY <1>8 DEF Recheck
    <2>2. CASE ~Rechecked
        <3>1. chan' = NoChan
            BY <1>8, <2>2 DEF Recheck
        <3> QED
            BY <1>2, <1>5, <2>1, <3>1 DEF Passing
    <2>3. CASE Rechecked
        <3>1. chan' = [chan EXCEPT !.at = "checked"]
            BY <1>8, <2>3 DEF Recheck
        <3>2. chan' \in Channels /\ chan'.at = "checked" /\ chan'.to = chan.to /\ chan'.alive = chan.alive
            BY <1>0, <3>1 DEF Channels
        <3>3. chan.to # {} /\ chan.to \subseteq Routes
            BY <1>0, <2>1 DEF Children, Channels
        <3>4. store # None /\ store.left > 0 /\ chan.to \subseteq store.view
            BY <2>3, <3>3 DEF Rechecked, Authorized, Fresh
        <3>5. \A r \in chan.to : since[r] <= Lease
            <4>1. store.left \in 0 .. Lease /\ Within(store.view, store.left)
                BY <1>0, <3>4 DEF Stores, StoreLeased
            <4>2. \A r \in chan.to : since[r] + store.left <= Lease
                BY <3>4, <4>1, AccessConstants DEF Within
            <4>3. \A r \in chan.to : since[r] \in Int
                BY <3>3 DEF BackendInv, BackendTyped
            <4> QED
                BY <3>4, <4>1, <4>2, <4>3, AccessConstants
        <3>6. Children' /\ ConnsMatch' /\ EmptyIsDead'
            BY <1>0, <1>3, <2>1, <3>2 DEF Children, ConnsMatch, EmptyIsDead, Matches, Calm
        <3>7. ChansMatch' /\ PassingIsRecent'
            BY <1>3, <3>2, <3>4, <3>5 DEF ChansMatch, PassingIsRecent
        <3> QED
            BY <1>0, <1>3, <2>1, <3>2, <3>6, <3>7, HandlerStep
    <2> QED
        BY <2>2, <2>3
<1>9. ASSUME Spawn
      PROVE  ProxyInv'
    <2>1. /\ chan.at = "checked" /\ UNCHANGED conn
          /\ chan' = IF chan.alive THEN [chan EXCEPT !.at = "open"] ELSE NoChan
        BY <1>9 DEF Spawn
    <2>2. CASE chan.alive
        <3>1. chan' \in Channels /\ chan'.to = chan.to /\ chan'.alive = chan.alive /\ chan'.at = "open"
            BY <1>0, <2>1, <2>2 DEF Channels
        <3> QED
            BY <1>5, <2>1, <2>2, <3>1 DEF Passing
    <2>3. CASE ~chan.alive
        BY <1>2, <1>5, <2>1, <2>3 DEF Passing
    <2> QED
        BY <2>2, <2>3
<1>10. ASSUME ChannelEnds
       PROVE  ProxyInv'
    <2>1. chan' = NoChan /\ UNCHANGED conn
        BY <1>10 DEF ChannelEnds
    <2> QED
        BY <1>2, <1>5, <2>1 DEF Passing
<1> QED
    BY <1>4, <1>6, <1>7, <1>8, <1>9, <1>10

--------------------------------------------------------------------------------
(***************************************************************************)
(* The steps, seen from the proxy: its loop, its timer, and time            *)
(***************************************************************************)

\* An abort revokes the session and leaves it without a live child; otherwise
\* nothing changes for it.
LEMMA AbortEffect ==
    ASSUME ProxyInv, NEW gone \in BOOLEAN, AbortWhen(gone)
    PROVE  /\ conn' \in Connections /\ chan' \in Channels /\ Children'
           /\ conn'.at = conn.at /\ conn'.login = conn.login /\ conn'.pin = conn.pin
           /\ conn.revoked => conn'.revoked
           /\ gone /\ conn.at # "none" => conn'.revoked /\ ~chan'.alive
           /\ chan'.alive => chan' = chan
<1>0. conn \in Connections /\ chan \in Channels /\ Children
    BY DEF ProxyInv, ProxyTyped
<1>1. NoChan \in Channels /\ NoChan.at = "none" /\ NoChan.alive = FALSE
    BY DEF NoChan, Channels
<1>2. CASE gone /\ conn.at # "none" /\ ~conn.revoked
    <2>1. /\ conn' = [conn EXCEPT !.revoked = TRUE]
          /\ chan' = NoChan \/ (chan' = [chan EXCEPT !.alive = FALSE] /\ chan.at # "open")
        BY <1>2 DEF AbortWhen
    <2>2. /\ conn' \in Connections /\ conn'.at = conn.at /\ conn'.login = conn.login
          /\ conn'.pin = conn.pin /\ conn'.revoked
        BY <1>0, <2>1 DEF Connections
    <2>3. /\ chan' \in Channels /\ ~chan'.alive
          /\ chan'.at = "none" \/ (chan'.at = chan.at /\ chan'.to = chan.to /\ chan.at # "open")
        BY <1>0, <1>1, <2>1 DEF Channels
    <2>4. Children'
        BY <1>0, <2>2, <2>3 DEF Children
    <2> QED
        BY <2>2, <2>3, <2>4
<1>3. CASE ~(gone /\ conn.at # "none" /\ ~conn.revoked)
    <2>1. conn' = conn /\ chan' = chan
        BY <1>3 DEF AbortWhen, sessions
    <2>2. conn.revoked => ~chan.alive
        BY <1>0 DEF Children
    <2> QED
        BY <1>0, <1>3, <2>1, <2>2 DEF Children
<1> QED
    BY <1>2, <1>3

\* A step of the control loop that moves on.
LEMMA LoopGoes ==
    ASSUME ProxyInv, NEW p \in LoopPoints, To(p)
    PROVE  loop' \in [at : LoopPoints, cur : Stores] /\ loop'.at = p /\ loop'.cur = loop.cur
BY DEF To, ProxyInv, ProxyTyped

\* A drop: every session that is logged in is aborted.
LEMMA DropEffect ==
    ASSUME ProxyInv, AbortWhen(Registered /\ ~Matches(conn, None))
    PROVE  /\ conn' \in Connections /\ chan' \in Channels /\ Children'
           /\ ~conn'.login \/ conn'.revoked
           /\ ~chan'.alive
<1>0. Children /\ (Registered /\ ~Matches(conn, None)) \in BOOLEAN
    BY DEF ProxyInv, Registered, Matches
<1>1. /\ conn' \in Connections /\ chan' \in Channels /\ Children'
      /\ conn'.at = conn.at /\ conn'.login = conn.login
      /\ conn.revoked => conn'.revoked
      /\ Registered /\ ~Matches(conn, None) /\ conn.at # "none" => conn'.revoked /\ ~chan'.alive
      /\ chan'.alive => chan' = chan
    BY <1>0, AbortEffect
<1>2. conn.login => Registered /\ ~Matches(conn, None) /\ conn.at # "none"
    BY <1>0 DEF Children, Registered, Matches
<1>3. chan.alive => conn.login
    BY <1>0 DEF Children
<1> QED
    BY <1>1, <1>2, <1>3

\* The lease and hold timers: clear, revoke and drop, beside the loop.
LEMMA TimerKeepsProxy ==
    ASSUME ProxyInv, TimerStep
    PROVE  ProxyInv'
<1>0. /\ ProxyTyped /\ DownIsPaused /\ StoreLeased /\ InstallsFresh
      /\ Children /\ PassingIsRecent
    BY DEF ProxyInv
<1>1. None \in Stores /\ Hold \in 0 .. Hold
    BY AccessConstants DEF Stores
<1>2. UNCHANGED <<loop, since>>
    BY DEF TimerStep, TimerFires, TimerClears, TimerRevokes, TimerDrops, backend
<1>3. CASE TimerFires \/ TimerClears \/ TimerRevokes
    <2>1. /\ timer' \in {"clear", "revoke", "drop"} /\ UNCHANGED <<conn, chan>>
          /\ store' = store \/ store' = None
          /\ UNCHANGED <<mode, hold>> \/ (mode' = "empty" /\ hold' = Hold)
        BY <1>3 DEF TimerFires, TimerClears, TimerRevokes, sessions
    <2>2. ProxyTyped' /\ DownIsPaused'
        BY <1>0, <1>1, <1>2, <2>1 DEF ProxyTyped, DownIsPaused, Admits
    <2>3. StoreLeased' /\ InstallsFresh'
        BY <1>0, <1>2, <2>1 DEF StoreLeased, InstallsFresh, Within
    <2>4. Children' /\ PassingIsRecent'
        BY <1>0, <1>2, <2>1 DEF Children, PassingIsRecent, Passing
    <2>5. ConnsMatch' /\ ChansMatch' /\ EmptyIsDead'
        BY <2>1 DEF ConnsMatch, ChansMatch, EmptyIsDead, Calm
    <2> QED
        BY <2>2, <2>3, <2>4, <2>5 DEF ProxyInv
<1>4. CASE TimerDrops
    <2>1. /\ AbortWhen(Registered /\ ~Matches(conn, None)) /\ timer' = "idle"
          /\ UNCHANGED <<store, mode, hold>>
        BY <1>4 DEF TimerDrops, control
    <2>2. /\ conn' \in Connections /\ chan' \in Channels /\ Children'
          /\ ~conn'.login \/ conn'.revoked
          /\ ~chan'.alive
        BY <2>1, DropEffect
    <2>3. ProxyTyped' /\ DownIsPaused' /\ StoreLeased' /\ InstallsFresh'
        BY <1>0, <1>2, <2>1, <2>2
        DEF ProxyTyped, DownIsPaused, StoreLeased, InstallsFresh, Admits, Within
    <2>4. ConnsMatch' /\ ChansMatch' /\ EmptyIsDead' /\ PassingIsRecent'
        BY <2>2 DEF ConnsMatch, ChansMatch, EmptyIsDead, PassingIsRecent, Passing, Matches
    <2> QED
        BY <2>2, <2>3, <2>4 DEF ProxyInv
<1> QED
    BY <1>3, <1>4 DEF TimerStep

\* Installing: the new snapshot is fresh, and within its lease.
LEMMA InstallKeepsProxy ==
    ASSUME BackendInv, ProxyInv, Install
    PROVE  ProxyInv'
<1>0. /\ ProxyTyped /\ DownIsPaused /\ StoreLeased /\ InstallsFresh
      /\ Children /\ ConnsMatch /\ ChansMatch /\ EmptyIsDead /\ PassingIsRecent
    BY DEF ProxyInv
<1> DEFINE m == Head(wire)
<1>1. /\ loop.at = "up" /\ wire # <<>> /\ m.kind = "snapshot"
      /\ UNCHANGED <<mode, hold, timer, conn, chan, since>>
    BY DEF Install, backend, sessions
<1>2. m \in Frames /\ GoodFrame(m)
    BY <1>1, WireChanges DEF BackendInv, BackendTyped
<1>3. m.view \in SUBSET Routes /\ m.left \in 0 .. Lease /\ Within(m.view, m.left)
    BY <1>1, <1>2 DEF Frames, GoodFrame
<1>4. \/ m.left = 0 /\ To("clear") /\ UNCHANGED store
      \/ UNCHANGED <<store, loop>>
      \/ /\ m.left # 0 /\ To("scan")
         /\ store' = [kind |-> "snapshot", view |-> m.view, left |-> m.left, epoch |-> TRUE]
    BY DEF Install
<1> HIDE DEF m
<1>5. Children' /\ PassingIsRecent'
    BY <1>0, <1>1 DEF Children, PassingIsRecent, Passing
<1>6. CASE UNCHANGED <<store, loop>> \/ (To("clear") /\ UNCHANGED store)
    <2>1. loop' \in [at : LoopPoints, cur : Stores] /\ loop'.at \in {"up", "clear"}
        BY <1>0, <1>1, <1>6, LoopGoes DEF LoopPoints, ProxyTyped
    <2>2. UNCHANGED store
        BY <1>6
    <2>3. ProxyTyped' /\ DownIsPaused' /\ StoreLeased' /\ InstallsFresh'
        BY <1>0, <1>1, <2>1, <2>2
        DEF ProxyTyped, DownIsPaused, StoreLeased, InstallsFresh, Admits, Within
    <2>4. ConnsMatch' /\ ChansMatch' /\ EmptyIsDead'
        BY <1>0, <1>1, <2>1, <2>2 DEF ConnsMatch, ChansMatch, EmptyIsDead, Calm, Passing, Matches
    <2> QED
        BY <1>5, <2>3, <2>4 DEF ProxyInv
<1>7. CASE /\ m.left # 0 /\ To("scan")
           /\ store' = [kind |-> "snapshot", view |-> m.view, left |-> m.left, epoch |-> TRUE]
    <2>1. loop' \in [at : LoopPoints, cur : Stores] /\ loop'.at = "scan"
        BY <1>7, LoopGoes DEF LoopPoints
    <2>2. /\ store' \in Stores /\ store'.view = m.view /\ store'.left = m.left
        BY <1>3, <1>7 DEF Stores
    <2>3. ProxyTyped' /\ DownIsPaused'
        BY <1>0, <1>1, <2>1, <2>2 DEF ProxyTyped, DownIsPaused, Admits
    <2>4. StoreLeased' /\ InstallsFresh'
        BY <1>1, <1>3, <1>7, <2>2, AccessConstants DEF StoreLeased, InstallsFresh, Within
    <2>5. ConnsMatch' /\ ChansMatch'
        BY <2>1 DEF ConnsMatch, ChansMatch
    <2>6. EmptyIsDead'
        BY <1>0, <1>1, <2>1 DEF EmptyIsDead
    <2> QED
        BY <1>5, <2>3, <2>4, <2>5, <2>6 DEF ProxyInv
<1> QED
    BY <1>4, <1>6, <1>7

\* The two scans that follow: what the snapshot does not authorize is aborted.
LEMMA ScansKeepProxy ==
    ASSUME ProxyInv, DisconnectInvalid \/ CloseBridges
    PROVE  ProxyInv'
<1>0. /\ ProxyTyped /\ DownIsPaused /\ StoreLeased /\ InstallsFresh
      /\ Children /\ ConnsMatch /\ ChansMatch /\ EmptyIsDead /\ PassingIsRecent
    BY DEF ProxyInv
<1>1. UNCHANGED <<store, mode, hold, timer, since>>
    BY DEF DisconnectInvalid, CloseBridges, backend, control
<1>2. CASE DisconnectInvalid
    <2> DEFINE gone == Registered /\ ~Matches(conn, store)
    <2>1. loop.at = "scan" /\ loop' = [at |-> "bridges", cur |-> store] /\ AbortWhen(gone)
        BY <1>2 DEF DisconnectInvalid
    <2>2. gone \in BOOLEAN
        BY DEF Registered, Matches
    <2>3. /\ conn' \in Connections /\ chan' \in Channels /\ Children'
          /\ conn'.at = conn.at /\ conn'.login = conn.login /\ conn'.pin = conn.pin
          /\ gone /\ conn.at # "none" => conn'.revoked /\ ~chan'.alive
          /\ chan'.alive => chan' = chan
        BY <2>1, <2>2, AbortEffect
    <2>4. /\ loop' \in [at : LoopPoints, cur : Stores] /\ loop'.at = "bridges" /\ loop'.cur = store
        BY <1>0, <2>1 DEF ProxyTyped, LoopPoints
    <2>5. ProxyTyped' /\ DownIsPaused' /\ StoreLeased'
        BY <1>0, <1>1, <2>3, <2>4 DEF ProxyTyped, DownIsPaused, StoreLeased, Admits, Within
    <2>6. InstallsFresh'
        BY <1>0, <1>1, <2>1 DEF InstallsFresh
    <2>7. ConnsMatch'
        BY <1>1, <2>3 DEF ConnsMatch, Matches, Registered
    <2>8. ChansMatch'
        <3>1. ASSUME chan'.alive
              PROVE  store # None
            <4>1. chan' = chan /\ conn.login /\ conn.at = "open"
                BY <1>0, <2>3, <3>1 DEF Children
            <4> QED
                BY <2>3, <3>1, <4>1 DEF Registered, Matches
        <3> QED
            BY <1>1, <2>4, <3>1 DEF ChansMatch, Passing
    <2>9. EmptyIsDead' /\ PassingIsRecent'
        BY <1>0, <1>1, <2>1, <2>3, <2>4 DEF EmptyIsDead, PassingIsRecent, Passing
    <2> QED
        BY <2>3, <2>5, <2>6, <2>7, <2>8, <2>9 DEF ProxyInv
<1>3. CASE CloseBridges
    <2>1. /\ loop.at = "bridges" /\ To("resume") /\ UNCHANGED conn
          /\ chan' = IF loop.cur # None /\ Bound /\ ~(chan.to \subseteq loop.cur.view)
                       THEN IF chan.at = "open" THEN NoChan ELSE [chan EXCEPT !.alive = FALSE]
                       ELSE chan
        BY <1>3 DEF CloseBridges
    <2>2. loop' \in [at : LoopPoints, cur : Stores] /\ loop'.at = "resume"
        BY <2>1, LoopGoes DEF LoopPoints
    <2>3. /\ chan' \in Channels
          /\ chan'.alive => chan' = chan
          /\ chan'.at = "none" \/ (chan'.at = chan.at /\ chan'.to = chan.to)
          /\ chan'.at = "open" => chan' = chan
        BY <1>0, <2>1 DEF ProxyTyped, Channels, NoChan
    <2>4. chan'.alive => loop.cur = None \/ ~Bound \/ chan.to \subseteq loop.cur.view
        BY <1>0, <2>1 DEF ProxyTyped, Channels, NoChan
    <2>5. ProxyTyped' /\ DownIsPaused' /\ StoreLeased' /\ InstallsFresh'
        BY <1>0, <1>1, <2>1, <2>2, <2>3
        DEF ProxyTyped, DownIsPaused, StoreLeased, InstallsFresh, Admits, Within
    <2>6. Children'
        BY <1>0, <2>1, <2>3 DEF Children
    <2>7. ConnsMatch' /\ EmptyIsDead' /\ PassingIsRecent'
        BY <1>0, <1>1, <2>1, <2>2, <2>3
        DEF ConnsMatch, EmptyIsDead, PassingIsRecent, Passing, Matches, Calm
    <2>8. ChansMatch'
        BY <1>0, <1>1, <2>1, <2>2, <2>3, <2>4 DEF ChansMatch, Passing, Calm, Bound
    <2> QED
        BY <2>5, <2>6, <2>7, <2>8 DEF ProxyInv
<1> QED
    BY <1>2, <1>3

\* Steps of the loop that leave the sessions and the routes of the snapshot alone.
LEMMA LoopAlone ==
    ASSUME ProxyInv, UNCHANGED <<timer, conn, chan, since>>,
           mode' \in {"empty", "authoritative", "paused"}, hold' \in 0 .. Hold,
           loop' \in [at : LoopPoints, cur : Stores], DownIsPaused',
           loop.at \notin {"scan", "bridges"}, loop'.at \notin {"scan", "bridges", "resume"},
           loop.at \in {"revoke", "drop"} => loop'.at \in {"revoke", "drop"},
           loop'.at = "drop" \/ (mode' = "empty" => mode = "empty" /\ loop.at # "drop"),
           store' \in Stores,
           \/ store' = store
           \/ store # None /\ store' # None /\ store'.view = store.view /\ store'.left = store.left
           \/ store' = None /\ loop'.at = "revoke"
    PROVE  ProxyInv'
<1>0. /\ ProxyTyped /\ StoreLeased /\ Children /\ ConnsMatch /\ ChansMatch
      /\ EmptyIsDead /\ PassingIsRecent
    BY DEF ProxyInv
<1>1. ProxyTyped'
    BY <1>0 DEF ProxyTyped
<1>2. StoreLeased' /\ InstallsFresh' /\ Children' /\ PassingIsRecent'
    BY <1>0 DEF StoreLeased, InstallsFresh, Children, PassingIsRecent, Passing, Within
<1>3. EmptyIsDead'
    BY <1>0 DEF EmptyIsDead
<1>4. ConnsMatch' /\ ChansMatch'
    BY <1>0 DEF ConnsMatch, ChansMatch, Calm, Passing, Matches
<1> QED
    BY <1>1, <1>2, <1>3, <1>4 DEF ProxyInv

\* The control loop: install, scan of sessions and bridges, resume, pause, abort.
LEMMA LoopKeepsProxy ==
    ASSUME BackendInv, ProxyInv, LoopStep
    PROVE  ProxyInv'
<1>0. /\ ProxyTyped /\ DownIsPaused /\ StoreLeased /\ InstallsFresh
      /\ Children /\ ConnsMatch /\ ChansMatch /\ EmptyIsDead /\ PassingIsRecent
      /\ Hold \in 0 .. Hold /\ None \in Stores
      /\ store \in Stores /\ loop \in [at : LoopPoints, cur : Stores] /\ hold \in 0 .. Hold
      /\ mode \in {"empty", "authoritative", "paused"}
    BY AccessConstants DEF ProxyInv, ProxyTyped, Stores
<1>1. ASSUME Connect
      PROVE  ProxyInv'
    <2>1. /\ loop.at = "down" /\ To("up") /\ UNCHANGED <<mode, hold, timer, conn, chan, since>>
          /\ store' = IF store = None THEN None ELSE [store EXCEPT !.epoch = FALSE]
        BY <1>1 DEF Connect, sessions
    <2>2. loop' \in [at : LoopPoints, cur : Stores] /\ loop'.at = "up"
        BY <2>1, LoopGoes DEF LoopPoints
    <2>3. \/ store' = store /\ store' \in Stores
          \/ /\ store # None /\ store' # None /\ store' \in Stores
             /\ store'.view = store.view /\ store'.left = store.left
        <3>1. CASE store = None
            BY <1>0, <2>1, <3>1
        <3>2. CASE store # None
            <4>1. store \in [kind : {"snapshot"}, view : SUBSET Routes, left : 0 .. Lease, epoch : BOOLEAN]
                BY <1>0, <3>2 DEF Stores
            <4>2. /\ store' \in [kind : {"snapshot"}, view : SUBSET Routes, left : 0 .. Lease, epoch : BOOLEAN]
                  /\ store'.view = store.view /\ store'.left = store.left /\ store'.kind = "snapshot"
                BY <2>1, <3>2, <4>1
            <4>3. store' # None
                BY <4>2 DEF None
            <4> QED
                BY <3>2, <4>2, <4>3 DEF Stores
        <3> QED
            BY <3>1, <3>2
    <2>4. DownIsPaused'
        BY <2>2 DEF DownIsPaused
    <2> QED
        BY <1>0, <2>1, <2>2, <2>3, <2>4, LoopAlone
<1>2. ASSUME Resume
      PROVE  ProxyInv'
    <2>1. /\ loop.at = "resume" /\ mode' = "authoritative" /\ hold' = Hold
          /\ loop' = [at |-> "up", cur |-> None]
          /\ UNCHANGED <<store, timer, conn, chan, since>>
        BY <1>2 DEF Resume, sessions, backend
    <2>2. loop' \in [at : LoopPoints, cur : Stores] /\ loop'.at = "up"
        BY <1>0, <2>1 DEF LoopPoints
    <2>3. DownIsPaused'
        BY <2>2 DEF DownIsPaused
    <2> QED
        BY <1>0, <2>1, <2>2, <2>3, LoopAlone
<1>3. ASSUME PauseAdmit \/ Disconnected
      PROVE  ProxyInv'
    <2>1. /\ loop.at = "up" /\ (To("abort") \/ To("abortLast"))
          /\ (mode' = "paused" /\ hold' = Hold) \/ (~Admits /\ UNCHANGED <<mode, hold>>)
          /\ UNCHANGED <<store, timer, conn, chan, since>>
        BY <1>3 DEF PauseAdmit, Disconnected, Pause, sessions, backend
    <2>2. loop' \in [at : LoopPoints, cur : Stores] /\ loop'.at \in {"abort", "abortLast"}
        BY <2>1, LoopGoes DEF LoopPoints
    <2>3. DownIsPaused'
        BY <2>1, <2>2 DEF DownIsPaused, Admits
    <2> QED
        BY <1>0, <2>1, <2>2, <2>3, LoopAlone
<1>4. ASSUME Clear
      PROVE  ProxyInv'
    <2>1. /\ loop.at = "clear" /\ To("revoke") /\ store' = None
          /\ UNCHANGED <<mode, hold, timer, conn, chan, since>>
        BY <1>4 DEF Clear, sessions, backend
    <2>2. loop' \in [at : LoopPoints, cur : Stores] /\ loop'.at = "revoke"
        BY <2>1, LoopGoes DEF LoopPoints
    <2>3. DownIsPaused'
        BY <2>2 DEF DownIsPaused
    <2> QED
        BY <1>0, <2>1, <2>2, <2>3, LoopAlone
<1>5. ASSUME Revoke
      PROVE  ProxyInv'
    <2>1. /\ loop.at = "revoke" /\ To("drop") /\ mode' = "empty" /\ hold' = Hold
          /\ UNCHANGED <<store, timer, conn, chan, since>>
        BY <1>5 DEF Revoke, sessions, backend
    <2>2. loop' \in [at : LoopPoints, cur : Stores] /\ loop'.at = "drop"
        BY <2>1, LoopGoes DEF LoopPoints
    <2>3. DownIsPaused'
        BY <2>2 DEF DownIsPaused
    <2> QED
        BY <1>0, <2>1, <2>2, <2>3, LoopAlone
<1>6. ASSUME AbortUnauthenticated
      PROVE  ProxyInv'
    <2> DEFINE gone == Registered /\ ~conn.login
    <2>1. /\ loop.at \in {"abort", "abortLast"} /\ AbortWhen(gone)
          /\ To(IF loop.at = "abort" THEN "up" ELSE "down")
          /\ UNCHANGED <<store, mode, hold, timer, since>>
        BY <1>6 DEF AbortUnauthenticated, backend, control
    <2>2. gone \in BOOLEAN
        BY <1>0 DEF Registered
    <2>3. /\ conn' \in Connections /\ chan' \in Channels /\ Children'
          /\ conn'.at = conn.at /\ conn'.login = conn.login /\ conn'.pin = conn.pin
          /\ conn.revoked => conn'.revoked
          /\ chan'.alive => chan' = chan
        BY <2>1, <2>2, AbortEffect
    <2>4. /\ loop' \in [at : LoopPoints, cur : Stores]
          /\ loop'.at = IF loop.at = "abort" THEN "up" ELSE "down"
        BY <2>1, LoopGoes DEF LoopPoints
    <2>5. ProxyTyped' /\ DownIsPaused' /\ StoreLeased' /\ InstallsFresh'
        BY <1>0, <2>1, <2>3, <2>4
        DEF ProxyTyped, DownIsPaused, StoreLeased, InstallsFresh, Admits, Within
    <2>6. ConnsMatch' /\ ChansMatch'
        BY <1>0, <2>1, <2>3, <2>4 DEF ConnsMatch, ChansMatch, Calm, Passing, Matches
    <2>7. EmptyIsDead' /\ PassingIsRecent'
        BY <1>0, <2>1, <2>3, <2>4 DEF EmptyIsDead, PassingIsRecent, Passing
    <2> QED
        BY <2>3, <2>5, <2>6, <2>7 DEF ProxyInv
<1>7. ASSUME DropAll
      PROVE  ProxyInv'
    <2>1. /\ loop.at = "drop" /\ AbortWhen(Registered /\ ~Matches(conn, None)) /\ To("up")
          /\ UNCHANGED <<store, mode, hold, timer, since>>
        BY <1>7 DEF DropAll, control
    <2>2. /\ conn' \in Connections /\ chan' \in Channels /\ Children'
          /\ ~conn'.login \/ conn'.revoked
          /\ ~chan'.alive
        BY <2>1, DropEffect
    <2>3. loop' \in [at : LoopPoints, cur : Stores] /\ loop'.at = "up"
        BY <2>1, LoopGoes DEF LoopPoints
    <2>4. ProxyTyped' /\ DownIsPaused' /\ StoreLeased' /\ InstallsFresh'
        BY <1>0, <2>1, <2>2, <2>3
        DEF ProxyTyped, DownIsPaused, StoreLeased, InstallsFresh, Admits, Within
    <2>5. ConnsMatch' /\ ChansMatch' /\ EmptyIsDead' /\ PassingIsRecent'
        BY <2>2 DEF ConnsMatch, ChansMatch, EmptyIsDead, PassingIsRecent, Passing, Matches
    <2> QED
        BY <2>2, <2>4, <2>5 DEF ProxyInv
<1> QED
    BY <1>1, <1>2, <1>3, <1>4, <1>5, <1>6, <1>7, InstallKeepsProxy, ScansKeepProxy DEF LoopStep

\* Time stands still while the proxy holds a snapshot that has run out, so
\* what passes is revoked for at most a lease.
LEMMA TickKeepsProxy ==
    ASSUME BackendInv, ProxyInv, Tick
    PROVE  ProxyInv'
<1>0. /\ ProxyTyped /\ DownIsPaused /\ StoreLeased /\ InstallsFresh
      /\ Children /\ ConnsMatch /\ ChansMatch /\ EmptyIsDead /\ PassingIsRecent
    BY DEF ProxyInv
<1>1. /\ ~TimerDue /\ timer = "idle" /\ loop.at \in {"up", "down"}
      /\ store' = IF store = None THEN None ELSE Aged(store)
      /\ hold' = IF mode = "paused" THEN Less(hold) ELSE hold
      /\ UNCHANGED <<mode, loop, timer, conn, chan>>
    BY DEF Tick, sessions
<1>2. /\ since \in [Routes -> 0 .. Lease + 1]
      /\ \A r \in Routes : since'[r] \in {since[r], since[r] + 1}
    BY TickKeepsBackend DEF BackendInv, BackendTyped
<1>3. hold' \in 0 .. Hold
    BY <1>0, <1>1, AccessConstants DEF ProxyTyped, Less
<1>4. CASE store = None
    <2>1. store' = None
        BY <1>1, <1>4
    <2>2. ~Passing
        BY <1>0, <1>1, <1>4 DEF ChansMatch, Calm
    <2>3. ProxyTyped' /\ DownIsPaused' /\ StoreLeased' /\ InstallsFresh' /\ Children'
        BY <1>0, <1>1, <1>3, <1>4, <2>1
        DEF ProxyTyped, DownIsPaused, StoreLeased, InstallsFresh, Children, Admits
    <2>4. ConnsMatch' /\ ChansMatch' /\ EmptyIsDead' /\ PassingIsRecent'
        BY <1>0, <1>1, <1>4, <2>1, <2>2
        DEF ConnsMatch, ChansMatch, EmptyIsDead, PassingIsRecent, Passing, Calm, Matches
    <2> QED
        BY <2>3, <2>4 DEF ProxyInv
<1>5. CASE store # None
    <2>1. store \in [kind : {"snapshot"}, view : SUBSET Routes, left : 0 .. Lease, epoch : BOOLEAN]
        BY <1>0, <1>5 DEF ProxyTyped, Stores
    <2>2. Less(store.left) \in 0 .. Lease /\ store.view \in SUBSET Routes /\ store.left \in 0 .. Lease
        BY <2>1, AccessConstants DEF Less
    <2>3. /\ store' \in [kind : {"snapshot"}, view : SUBSET Routes, left : 0 .. Lease, epoch : BOOLEAN]
          /\ store'.kind = "snapshot" /\ store'.view = store.view /\ store'.left = Less(store.left)
        BY <1>1, <1>5, <2>1, <2>2 DEF Aged
    <2>4. store' # None /\ store' \in Stores
        BY <2>3 DEF None, Stores
    <2>5. ProxyTyped' /\ DownIsPaused' /\ InstallsFresh' /\ Children'
        BY <1>0, <1>1, <1>3, <2>4 DEF ProxyTyped, DownIsPaused, InstallsFresh, Children, Admits
    <2>6. StoreLeased'
        <3>1. \A v \in SUBSET Routes : \A k \in 0 .. Lease :
                Within(v, k) => (Less(k) = 0 \/ \A r \in v : since'[r] + Less(k) <= Lease)
            BY <1>2, AccessConstants DEF Within, Less
        <3>2. Less(store.left) = 0 \/ \A r \in store.view : since'[r] + Less(store.left) <= Lease
            BY <1>0, <1>5, <2>2, <3>1 DEF StoreLeased
        <3> QED
            BY <2>3, <3>2 DEF StoreLeased, Within
    <2>7. ConnsMatch' /\ ChansMatch' /\ EmptyIsDead'
        BY <1>0, <1>1, <1>5, <2>3, <2>4
        DEF ConnsMatch, ChansMatch, EmptyIsDead, Passing, Calm, Matches
    <2>8. PassingIsRecent'
        <3> SUFFICES ASSUME Passing
                     PROVE  \A r \in chan.to : since'[r] <= Lease
            BY <1>1 DEF PassingIsRecent, Passing
        <3>1. chan.to \subseteq store.view
            BY <1>0, <1>1 DEF ChansMatch, Calm
        <3>2. mode # "empty"
            BY <1>0, <1>1 DEF EmptyIsDead, Passing
        <3>3. store.left > 0
            BY <1>0, <1>1, <1>5, <3>2 DEF TimerDue, PausedDue, Admits, Fresh, ProxyTyped
        <3>4. \A r \in store.view : since[r] + store.left <= Lease
            BY <1>0, <1>5, <2>2, <3>3 DEF StoreLeased, Within
        <3> QED
            BY <1>2, <2>2, <3>1, <3>3, <3>4, AccessConstants
    <2> QED
        BY <2>4, <2>5, <2>6, <2>7, <2>8 DEF ProxyInv
<1> QED
    BY <1>4, <1>5

--------------------------------------------------------------------------------
(***************************************************************************)
(* The theorems                                                             *)
(***************************************************************************)

\* Nothing is installed and nobody connected at first.
LEMMA SInvInitially ==
    Init => SInv
<1> SUFFICES ASSUME Init
             PROVE  SInv
    OBVIOUS
<1>0. granted = Before /\ granted \subseteq Routes
    BY AccessConstants DEF Init
<1>1. since \in [Routes -> 0 .. Lease + 1] /\ NoneRevoked
    <2>1. since = [r \in Routes |-> IF r \in Before THEN 0 ELSE Lease + 1]
        BY DEF Init
    <2>2. 0 \in 0 .. Lease + 1 /\ Lease + 1 \in 0 .. Lease + 1
        BY AccessConstants
    <2>3. \A r \in Before : r \in Routes
        BY <1>0
    <2> QED
        BY <1>0, <2>1, <2>2, <2>3 DEF NoneRevoked
<1>2. NoBuild \in Builds /\ NoBuild.at = "idle" /\ NoBuild.left = 0
    BY <1>0, NewBuilds
<1>3. GoodBuild(cast) /\ GoodBuild(init) /\ InitIsBuilt
    <2>1. cast = NoBuild /\ init = NoBuild /\ link = "down"
        BY DEF Init
    <2> QED
        BY <1>2, <2>1 DEF GoodBuild, Current, Within, InitIsBuilt
<1>4. wire \in Seq(Frames) /\ GoodWire(wire)
    BY EmptySeq DEF Init, GoodWire
<1>5. BackendInv
    BY <1>0, <1>1, <1>3, <1>4 DEF BackendInv, BackendTyped, Init
<1>6. /\ loop \in [at : LoopPoints, cur : Stores] /\ loop.at = "down"
      /\ Hold \in 0 .. Hold
    BY AccessConstants DEF Init, LoopPoints, Stores
<1>7. /\ conn \in Connections /\ chan \in Channels
      /\ conn.at = "none" /\ conn.login = FALSE /\ chan.at = "none" /\ chan.alive = FALSE
    BY DEF Init, NoConn, NoChan, Connections, ConnPoints, Channels
<1>8. ProxyTyped /\ DownIsPaused /\ StoreLeased /\ InstallsFresh
    BY <1>6, <1>7 DEF Init, ProxyTyped, Stores, DownIsPaused, StoreLeased, InstallsFresh, Admits
<1>9. Children /\ ConnsMatch /\ ChansMatch /\ EmptyIsDead /\ PassingIsRecent
    BY <1>7 DEF Children, ConnsMatch, ChansMatch, EmptyIsDead, PassingIsRecent, Passing
<1> QED
    BY <1>5, <1>8, <1>9 DEF SInv, ProxyInv

\* Every step keeps the invariant and sends only what is current.
LEMMA SInvKept ==
    SInv /\ [Next]_vars => SInv' /\ SendsCurrent
<1> SUFFICES ASSUME SInv, [Next]_vars
             PROVE  SInv' /\ SendsCurrent
    OBVIOUS
<1>0. BackendInv /\ ProxyInv /\ wire \in Seq(Frames) /\ Len(wire) \in Nat
    BY LenProperties DEF SInv, BackendInv, BackendTyped
<1>1. \A r \in Routes : since[r] <= since[r]
    BY <1>0 DEF BackendInv, BackendTyped
<1>2. ASSUME UNCHANGED wire \/ wire' = <<>> \/ (wire # <<>> /\ wire' = Tail(wire))
      PROVE  SendsCurrent
    <2>1. Len(wire') <= Len(wire)
        BY <1>0, <1>2, EmptySeq, HeadTailProperties
    <2>2. ~(Len(wire') > Len(wire))
        <3>1. Len(wire') \in Nat
            BY <1>0, <1>2, EmptySeq, HeadTailProperties, LenProperties
        <3> QED
            BY <1>0, <2>1, <3>1
    <2> QED
        BY <2>2 DEF SendsCurrent
<1>3. CASE Change
    <2>1. UNCHANGED <<control, loop, timer, sessions>> /\ UNCHANGED wire
        BY <1>3 DEF Change
    <2> QED
        BY <1>0, <1>2, <1>3, <2>1, ChangeKeepsBackend, BackendAlone DEF SInv
<1>4. CASE Invalidate \/ Renew \/ CastNumbered \/ CastFails \/ InitNumbered \/ BackendStarts
    <2>1. UNCHANGED <<control, loop, timer, sessions>> /\ UNCHANGED wire
        BY <1>4 DEF Invalidate, Renew, CastNumbered, CastFails, InitNumbered, BackendStarts
    <2>2. BackendInv' /\ UNCHANGED since
        BY <1>0, <1>4, BuildsKeepBackend
    <2> QED
        BY <1>0, <1>1, <1>2, <2>1, <2>2, BackendAlone DEF SInv
<1>5. CASE CastSend \/ Admit \/ LinkLost \/ BackendStops
    <2>1. UNCHANGED <<control, loop, timer, sessions>>
        BY <1>5 DEF CastSend, Admit, LinkLost, BackendStops
    <2>2. BackendInv' /\ UNCHANGED since /\ SendsCurrent
        BY <1>0, <1>5, CastSendKeepsBackend, AdmitKeepsBackend, LossesKeepBackend
    <2> QED
        BY <1>0, <1>1, <2>1, <2>2, BackendAlone DEF SInv
<1>6. CASE LoopStep
    <2>1. ProxyInv'
        BY <1>0, <1>6, LoopKeepsProxy
    <2>2. CASE Connect \/ DropAll
        <3>1. BackendInv' /\ wire' = <<>>
            BY <1>0, <2>2, BuildsKeepBackend DEF Connect, DropAll
        <3> QED
            BY <1>2, <2>1, <3>1 DEF SInv
    <2>3. CASE Install \/ PauseAdmit
        <3>1. UNCHANGED backend /\ wire # <<>> /\ wire' = Tail(wire)
            BY <2>3 DEF Install, PauseAdmit
        <3> QED
            BY <1>0, <1>2, <2>1, <3>1, ProxyAlone DEF SInv
    <2>4. CASE \/ DisconnectInvalid \/ CloseBridges \/ Resume \/ Disconnected
               \/ AbortUnauthenticated \/ Clear \/ Revoke
        <3>1. UNCHANGED backend /\ UNCHANGED wire
            BY <2>4 DEF DisconnectInvalid, CloseBridges, Resume, Disconnected,
                        AbortUnauthenticated, Clear, Revoke
        <3> QED
            BY <1>0, <1>2, <2>1, <3>1, ProxyAlone DEF SInv
    <2> QED
        BY <1>6, <2>2, <2>3, <2>4 DEF LoopStep
<1>7. CASE TimerStep
    <2>1. UNCHANGED backend /\ UNCHANGED wire
        BY <1>7 DEF TimerStep, TimerFires, TimerClears, TimerRevokes, TimerDrops
    <2> QED
        BY <1>0, <1>2, <1>7, <2>1, ProxyAlone, TimerKeepsProxy DEF SInv
<1>8. CASE SessionStep
    <2>1. UNCHANGED backend /\ UNCHANGED wire
        BY <1>8 DEF SessionStep, Accept, Register, Verify, SetAuthenticated, AuthSucceeded,
                    OpenChannel, BindRoute, Recheck, Spawn, ChannelEnds, ConnectionEnds, rest
    <2>2. ProxyInv'
        BY <1>0, <1>8, LoginKeepsProxy, ChannelKeepsProxy DEF SessionStep
    <2> QED
        BY <1>0, <1>2, <2>1, <2>2, ProxyAlone DEF SInv
<1>9. CASE Tick
    BY <1>0, <1>9, TickKeepsBackend, TickKeepsProxy DEF SInv
<1>10. CASE UNCHANGED vars
    <2>1. /\ UNCHANGED <<control, loop, timer, sessions>> /\ UNCHANGED backend /\ UNCHANGED wire
          /\ UNCHANGED since
        BY <1>10 DEF vars, backend
    <2>2. BackendInv'
        BY <1>0, <2>1, ProxyAlone
    <2> QED
        BY <1>0, <1>1, <1>2, <2>1, <2>2, BackendAlone DEF SInv
<1> QED
    BY <1>3, <1>4, <1>5, <1>6, <1>7, <1>8, <1>9, <1>10 DEF Next, CastStep, InitStep

\* The invariant of the SSH access path, Backend and proxy, in every reachable
\* state, whatever changes, lost links, crashes and late frames there are.
THEOREM Inductive == Spec => []SInv
<1>1. Spec => Init /\ [][Next]_vars
    BY PTL DEF Spec
<1> QED
    BY <1>1, SInvInitially, SInvKept, PTL

\* Nobody passes the proxy by what is not installed: an open bridge leads to a
\* route of the installed snapshot and an open session matches it whenever
\* neither the loop nor the timer is in the middle of installing or revoking.
THEOREM OnlyTheInstalledPasses == Spec => []AccessIsSafe
<1>1. SInv => AccessIsSafe
    <2> SUFFICES ASSUME SInv
                 PROVE  AccessIsSafe
        OBVIOUS
    <2>1. TypeOK
        <3>1. store = None \/ (store.view \subseteq Routes /\ store.left \in 0 .. Lease /\ store.epoch \in BOOLEAN)
            BY DEF SInv, ProxyInv, ProxyTyped, Stores
        <3>2. Admits => loop.at # "down"
            BY DEF SInv, ProxyInv, DownIsPaused
        <3> QED
            BY <3>1, <3>2 DEF TypeOK, SInv, BackendInv, BackendTyped, InitIsBuilt, ProxyInv, ProxyTyped
    <2>2. OpenIsAuthorized
        BY DEF OpenIsAuthorized, SInv, ProxyInv, Children, ConnsMatch, ChansMatch, Calm, Passing
    <2> QED
        BY <2>1, <2>2 DEF AccessIsSafe
<1> QED
    BY <1>1, Inductive, PTL

\* The lease bounds a revocation: no bridge leads to a route revoked longer ago,
\* even when the notification, the link or the Backend was lost.
THEOREM LeaseBoundsRevocation == Spec => []RevokedWithinLease
<1>1. SInv => RevokedWithinLease
    BY DEF RevokedWithinLease, SInv, ProxyInv, Children, PassingIsRecent, Passing
<1> QED
    BY <1>1, Inductive, PTL

\* A snapshot whose build a committed and announced change overtook is never
\* sent: what the gateway sends is what the database authorizes.
THEOREM SendsWhatIsAuthorized == Spec => SentIsCurrent
<1>1. SInv /\ [Next]_vars => [SendsCurrent]_vars
    BY SInvKept
<1>2. SentIsCurrent <=> [][SendsCurrent]_vars
    BY PTL DEF SentIsCurrent, SendsCurrent
<1>3. Spec => [][Next]_vars
    BY PTL DEF Spec
<1> QED
    BY <1>1, <1>2, <1>3, Inductive, PTL

================================================================================
