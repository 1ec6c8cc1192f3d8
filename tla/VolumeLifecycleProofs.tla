------------------------ MODULE VolumeLifecycleProofs ------------------------
(***************************************************************************)
(* Theorems about VolumeLifecycle, for any set of servers, any sizes and   *)
(* any number of requests and faults: what a live volume commits covers    *)
(* every catalog of it, and its row goes after its data.                   *)
(*                                                                         *)
(* The first rests on what each placement and each running pass hold of    *)
(* the row's revision and size (Holds): a reservation is let go only when  *)
(* every placement has caught up, and then no pass can hold a larger size. *)
(* The second rests on where the data is recorded (DataTracked): at least  *)
(* one of the placements, dir_ensured and a pass about to mark it.         *)
(***************************************************************************)
EXTENDS VolumeLifecycle, TLAPS

-----------------------------------------------------------------------------
(***************************************************************************)
(* The inductive invariant                                                 *)
(***************************************************************************)

Revs == 0 .. MaxEvents + 1
Sizes == 0 .. MaxSize
Phases == {"gone", "provisioning", "active", "deleting"}
PlaceStates == {"none", "ensuring", "present"}
VolRecords ==
    [phase : Phases, size : Sizes, reserved : Sizes, rev : Revs, obs : Revs,
     attention : BOOLEAN, dirEnsured : BOOLEAN, removed : BOOLEAN,
     pin : Servers \cup {NoSize}]
Placements == [state : PlaceStates, obs : Revs]
Binds == {"none", "attaching", "attached", "detaching"}
CatalogSizes == {Recovered} \cup Sizes
VSteps == {"idle", "get", "missing", "align", "put", "record", "mark", "settle"}
VPasses ==
    [at : VSteps, rev : Revs, size : Sizes, reserved : Sizes, state : PlaceStates,
     actual : CatalogSizes, attached : BOOLEAN, lagging : BOOLEAN]
CSteps == {"idle", "ensure", "mark", "requeue", "plug", "bind"}
CPasses == [at : CSteps, size : Sizes, posted : BOOLEAN]
DSteps == {"idle", "choose", "remove", "commit", "purge", "drop", "finish"}
DPasses ==
    [at : DSteps, catalogs : SUBSET Servers, up : SUBSET Servers, ensured : BOOLEAN,
     exec : Servers \cup {NoSize}, repicked : BOOLEAN]

\* TypeOK, with the local variables of the passes.
Types ==
    /\ kind \in Kinds /\ vol \in VolRecords
    /\ place \in [Servers -> Placements] /\ att \in [Servers -> Binds]
    /\ intent \in [Servers -> Revs] /\ drive \subseteq Servers /\ destroy \in BOOLEAN
    /\ catalog \in [Servers -> CatalogSizes] /\ dir \in BOOLEAN
    /\ device \subseteq Servers /\ online \subseteq Servers
    /\ late \in [Servers -> Sizes]
    /\ vpass \in [Servers -> VPasses] /\ cpass \in [Servers -> CPasses] /\ dpass \in DPasses
    /\ failed \in Sizes
    /\ excused \subseteq {"crash", "retry", "revert"} /\ events \in 0..MaxEvents

Exists == vol.phase # "gone"
Placed(s) == place[s].state # "none"
Working(s) == vpass[s].at # "idle"
Resizing(s) == vpass[s].at \in {"get", "align", "put"}

\* The row of a volume that exists has a size and a revision, and a request moves
\* the revision by one.
RowAgrees ==
    /\ vol.phase = "gone" => vol = Gone
    /\ Exists => vol.size > 0 /\ vol.rev > 0
    /\ vol.rev <= events + 1

\* What works on a server is recorded there: a container's pass by an attachment,
\* an attachment and a volume's pass by a placement, a placement by the row.
Agrees(s) ==
    /\ ~Placed(s) => place[s] = NoPlacement
    /\ Placed(s) => Exists /\ s \in Sites
    /\ att[s] # "none" => Placed(s)
    /\ cpass[s].at # "idle" => att[s] # "none"
    /\ Working(s) => Placed(s)
    /\ cpass[s].at = "ensure" /\ shared => cpass[s].size > 0
    /\ Resizing(s) => vpass[s].size > 0
    /\ vpass[s].at = "align" => vpass[s].actual # 0
    /\ vpass[s].at = "missing" => shared
    /\ late[s] # 0 => "crash" \in excused
RowsAgree == RowAgrees /\ \A s \in Servers : Agrees(s)

\* A destroy under way, or past its DELETE, has the volume to itself.
Nothing == \A s \in Servers : att[s] = "none" /\ vpass[s].at = "idle"
Destroying ==
    /\ dpass.at # "idle" => vol.phase = "deleting" /\ Nothing /\ dpass.ensured = vol.dirEnsured
    /\ vol.removed => vol.phase = "deleting" /\ Nothing

\* What a catalog may hold: no more than the row commits, and no more than its
\* size once the placement has caught up.
Covers(s) ==
    /\ catalog[s] <= Committed(vol)
    /\ ~Placed(s) => catalog[s] <= 0
    /\ Placed(s) /\ CaughtUp(vol, place, att, s) => catalog[s] <= vol.size
    /\ place[s].state = "present" => catalog[s] # 0
    /\ shared /\ catalog[s] > 0 /\ place[s].state # "present" =>
          cpass[s].at = "mark" \/ vpass[s].at = "record"
    /\ place[s].obs <= vol.rev

\* What a pass of the volume holds: a size of an earlier revision only while its
\* placement has not caught up.
VHolds(s) ==
    /\ Working(s) =>
          vpass[s].rev <= vol.rev /\ (vpass[s].rev < vol.rev => place[s].obs < vol.rev)
    /\ Resizing(s) => /\ vpass[s].size <= Committed(vol)
                      /\ vpass[s].rev = vol.rev => vpass[s].size = vol.size
    /\ vpass[s].at \in {"align", "put", "record"} => catalog[s] # 0
    /\ vpass[s].at = "align" => vpass[s].actual = catalog[s]
    /\ vpass[s].at = "record" /\ vpass[s].rev = vol.rev => catalog[s] <= vol.size
    /\ vpass[s].at = "get" /\ vpass[s].state = "present" => place[s].state = "present"
    /\ vpass[s].at = "missing" => vpass[s].state # "present"

\* What a container's pass holds: a size to create a catalog with.
CHolds(s) ==
    /\ cpass[s].at = "ensure" /\ shared /\ catalog[s] = 0 => cpass[s].size <= Committed(vol)
    /\ cpass[s].at = "mark" => catalog[s] # 0

Holds(s) == Covers(s) /\ VHolds(s) /\ CHolds(s)
Accounted == Live /\ excused = {} => \A s \in Servers : Holds(s)

\* Data is recorded in the rows or about to be, until the destroy has removed it.
Removing == {"commit", "purge", "drop", "finish"}
Tracked ==
    /\ dir /\ Live => \E s \in Servers : Placed(s)
    /\ dir /\ ~shared => catalog[Home] # 0
    /\ dir /\ shared /\ Exists => vol.dirEnsured \/ \E s \in Servers : cpass[s].at = "mark"
    /\ dpass.at \in Removing \/ vol.removed => ~dir
    /\ ~shared /\ Exists /\ dpass.at # "finish" => Placed(Home)
DataTracked == "crash" \notin excused => Tracked

\* The destroy of a local volume works on its one server.
LocalDestroy ==
    /\ ~shared =>
        /\ vol.pin \in {Home, NoSize} /\ dpass.exec \in {Home, NoSize}
        /\ dpass.catalogs \subseteq {Home}
        /\ dpass.at \in {"choose", "remove"} /\ "crash" \notin excused =>
              Home \in dpass.catalogs \cap dpass.up
    /\ dpass.at = "remove" => dpass.exec \in Servers

VInv == Types /\ RowsAgree /\ Destroying /\ Accounted /\ DataTracked /\ LocalDestroy

-----------------------------------------------------------------------------
(***************************************************************************)
(* The types of the variables                                              *)
(***************************************************************************)

\* The types of the invariant are those the run checks.
LEMMA TypesAgree == Types => TypeOK
  BY DEF Types, TypeOK, VolRecords, Phases, PlaceStates, Placements, Binds, CatalogSizes, VPasses,
         CPasses, DPasses, VSteps, CSteps, DSteps, Sizes, Revs

\* The ranges are numbers, and nothing is one of each.
LEMMA Ranges ==
    /\ Revs \subseteq Nat /\ Sizes \subseteq Nat /\ CatalogSizes \subseteq Int
    /\ 0 \in Revs /\ 0 \in Sizes /\ 1 \in Revs
    /\ Sizes \subseteq CatalogSizes /\ Recovered \in CatalogSizes
    /\ \A c \in CatalogSizes : c >= -1
    /\ \A n \in 1..MaxSize : n \in Sizes
    /\ Home \in Servers
  BY VolumeConstants DEF Revs, Sizes, CatalogSizes, Recovered, Home

\* The records that stand for nothing are of their types.
LEMMA Blank ==
    /\ Gone \in VolRecords /\ Gone.phase = "gone" /\ Gone.size = 0 /\ Gone.reserved = 0
    /\ Gone.rev = 0 /\ ~Gone.dirEnsured /\ ~Gone.removed /\ Gone.pin = NoSize
    /\ NoPlacement \in Placements /\ NoPlacement.state = "none" /\ NoPlacement.obs = 0
    /\ IdleV \in VPasses /\ IdleV.at = "idle" /\ IdleV.actual = 0
    /\ IdleC \in CPasses /\ IdleC.at = "idle" /\ IdleC.size = 0
    /\ IdleD \in DPasses /\ IdleD.at = "idle" /\ IdleD.catalogs = {} /\ IdleD.exec = NoSize
  BY Ranges DEF Gone, NoPlacement, IdleV, IdleC, IdleD, VolRecords, Placements, VPasses, CPasses,
     DPasses, NoSize, VSteps, CSteps, DSteps, Phases, PlaceStates

\* The numbers of a state.
LEMMA Numbers ==
    ASSUME Types, NEW s \in Servers
    PROVE  /\ vol.size \in Nat /\ vol.reserved \in Nat /\ vol.rev \in Nat /\ vol.obs \in Nat
           /\ place[s].obs \in Nat /\ catalog[s] \in Int /\ catalog[s] >= -1
           /\ vpass[s].rev \in Nat /\ vpass[s].size \in Nat /\ vpass[s].reserved \in Nat
           /\ vpass[s].actual \in Int /\ cpass[s].size \in Nat /\ late[s] \in Nat
           /\ failed \in Nat /\ events \in Nat
           /\ vpass[s] \in VPasses /\ cpass[s] \in CPasses /\ place[s] \in Placements
           /\ att[s] \in Binds /\ catalog[s] \in CatalogSizes
<1>1. /\ vpass[s] \in VPasses /\ cpass[s] \in CPasses /\ place[s] \in Placements
      /\ att[s] \in Binds /\ catalog[s] \in CatalogSizes /\ late[s] \in Sizes
      /\ vol \in VolRecords /\ failed \in Sizes /\ events \in 0..MaxEvents
  BY DEF Types
<1>2. QED
  <2>1. /\ vol.size \in Nat /\ vol.reserved \in Nat /\ vol.rev \in Nat /\ vol.obs \in Nat
    BY <1>1, Ranges DEF VolRecords
  <2>2. /\ vpass[s].rev \in Nat /\ vpass[s].size \in Nat /\ vpass[s].reserved \in Nat
        /\ vpass[s].actual \in Int
    BY <1>1, Ranges DEF VPasses
  <2>3. place[s].obs \in Nat /\ cpass[s].size \in Nat
    BY <1>1, Ranges DEF CPasses, Placements
  <2>4. /\ catalog[s] \in Int /\ catalog[s] >= -1 /\ late[s] \in Nat /\ failed \in Nat
    BY <1>1, Ranges
  <2>5. events \in Nat
    BY <1>1, VolumeConstants
  <2>6. QED
    BY <1>1, <2>1, <2>2, <2>3, <2>4, <2>5

\* The numbers of the next state.
LEMMA NumbersNext ==
    ASSUME Types', NEW s \in Servers
    PROVE  /\ vol'.size \in Nat /\ vol'.reserved \in Nat /\ vol'.rev \in Nat
           /\ place'[s].obs \in Nat /\ catalog'[s] \in Int /\ catalog'[s] >= -1
           /\ vpass'[s].rev \in Nat /\ vpass'[s].size \in Nat
           /\ vpass'[s].actual \in Int /\ cpass'[s].size \in Nat
<1>1. /\ vpass'[s] \in VPasses /\ cpass'[s] \in CPasses /\ place'[s] \in Placements
      /\ catalog'[s] \in CatalogSizes /\ vol' \in VolRecords
  BY DEF Types
<1>2. QED
  BY <1>1, Ranges, VolumeConstants DEF VPasses, CPasses, Placements, VolRecords

-----------------------------------------------------------------------------
(***************************************************************************)
(* The operators of the rows                                               *)
(***************************************************************************)

\* What a row commits is the larger of two numbers.
LEMMA CommittedIs ==
    ASSUME NEW v \in VolRecords
    PROVE  /\ Committed(v) \in Sizes /\ Committed(v) \in Nat
           /\ Committed(v) >= v.size /\ Committed(v) >= v.reserved
           /\ Committed(v) = v.size \/ Committed(v) = v.reserved
<1>1. v.size \in Sizes /\ v.reserved \in Sizes /\ v.size \in Nat /\ v.reserved \in Nat
  BY Ranges DEF VolRecords
<1>2. QED
  BY <1>1, Ranges DEF Committed, Maximum

\* Releasing a reservation changes nothing else of the row.
LEMMA ReleasedIs ==
    ASSUME NEW v \in VolRecords, NEW p, NEW a
    PROVE  /\ Released(v, p, a) \in VolRecords
           /\ Released(v, p, a).phase = v.phase /\ Released(v, p, a).size = v.size
           /\ Released(v, p, a).rev = v.rev /\ Released(v, p, a).pin = v.pin
           /\ Released(v, p, a).dirEnsured = v.dirEnsured
           /\ Released(v, p, a).removed = v.removed
           /\ \/ Released(v, p, a).reserved = v.reserved
              \/ Released(v, p, a).reserved = 0 /\ Settled(v, p, a)
<1>1. [v EXCEPT !.reserved = NoSize] \in VolRecords
  BY Ranges DEF VolRecords, NoSize
<1>2. CASE Settled(v, p, a)
  <2>1. Released(v, p, a) = [v EXCEPT !.reserved = NoSize]
    BY <1>2 DEF Released
  <2>2. QED
    BY <1>1, <1>2, <2>1 DEF VolRecords, NoSize
<1>3. CASE ~Settled(v, p, a)
  BY <1>3 DEF Released
<1>4. QED
  BY <1>2, <1>3

\* A placement is known by its state.
LEMMA PlacedIs ==
    ASSUME Types, NEW s \in Servers, Agrees(s)
    PROVE  Placed(s) <=> place[s] # NoPlacement
  BY Blank DEF Placed, Agrees

\* An upserted placement is there; what was there is as it was.
LEMMA UpsertedIs ==
    ASSUME Types, NEW s \in Servers, Agrees(s)
    PROVE  /\ Upserted(place, s) \in [Servers -> Placements]
           /\ \A o \in Servers \ {s} : Upserted(place, s)[o] = place[o]
           /\ Placed(s) => Upserted(place, s)[s] = place[s]
           /\ ~Placed(s) => /\ Upserted(place, s)[s].state = "ensuring"
                            /\ Upserted(place, s)[s].obs = 0
<1>1. [state |-> "ensuring", obs |-> 0] \in Placements
  BY Ranges DEF Placements, PlaceStates
<1>2. place \in [Servers -> Placements]
  BY DEF Types
<1>3. CASE Placed(s)
  BY <1>2, <1>3, PlacedIs DEF Upserted
<1>4. CASE ~Placed(s)
  <2>1. Upserted(place, s) = [place EXCEPT ![s] = [state |-> "ensuring", obs |-> 0]]
    BY <1>4, PlacedIs DEF Upserted
  <2>2. QED
    BY <1>1, <1>2, <1>4, <2>1
<1>5. QED
  BY <1>3, <1>4

-----------------------------------------------------------------------------
(***************************************************************************)
(* The forms of a step                                                     *)
(***************************************************************************)

SameAt(s) ==
    /\ place'[s] = place[s] /\ att'[s] = att[s] /\ catalog'[s] = catalog[s]
    /\ vpass'[s] = vpass[s] /\ cpass'[s] = cpass[s] /\ late'[s] = late[s]
Elsewhere(s) == \A o \in Servers \ {s} : SameAt(o)

\* The row gives its reservation up only when the placement has caught up.
ReservationStays(s) ==
    \/ vol'.reserved = vol.reserved
    \/ vol'.reserved = 0 /\ (Placed(s) => CaughtUp(vol, place, att, s))

\* A step of a pass or of a request that touches one server, and of the row no
\* more than the reservation and the flags.
StepAt(s) ==
    /\ kind' = kind /\ dpass' = dpass /\ excused \subseteq excused' /\ events <= events'
    /\ Elsewhere(s)
    /\ Exists /\ Exists' /\ (Live' => Live)
    /\ vol'.rev = vol.rev /\ vol'.pin = vol.pin /\ vol'.removed = vol.removed
    /\ vol.dirEnsured => vol'.dirEnsured
    /\ Placed(s) => Placed(s)'
    /\ cpass[s].at = "mark" => cpass'[s].at = "mark" \/ vol'.dirEnsured
    /\ catalog[s] # 0 => catalog'[s] # 0
    /\ dir' => dir \/ (catalog'[s] # 0 /\ Placed(s)' /\ (shared => cpass'[s].at = "mark"))
    /\ dpass.at = "idle" /\ ~vol.removed

\* A step that leaves the rows, the catalogs, the data and the passes alone.
Apart ==
    /\ kind' = kind /\ vol' = vol /\ place' = place /\ att' = att
    /\ catalog' = catalog /\ dir' = dir /\ late' = late
    /\ vpass' = vpass /\ cpass' = cpass /\ dpass' = dpass
    /\ excused \subseteq excused' /\ events <= events'

\* RowOutlivesData, of one step.
RowGoesLast == vol # Gone /\ vol' = Gone /\ "crash" \notin excused => ~dir

\* What holds of a server goes on holding while a step leaves it alone.
LEMMA AgreesElsewhere ==
    ASSUME NEW s \in Servers, Agrees(s), SameAt(s), kind' = kind, Exists => Exists',
           excused \subseteq excused'
    PROVE  Agrees(s)'
  BY DEF Agrees, SameAt, Placed, Working, Resizing, Sites, shared

\* Also when the reservation is let go: no pass of a server that has caught up
\* holds a larger size than the row.
LEMMA HoldsElsewhere ==
    ASSUME Types, Types', NEW s \in Servers, Agrees(s), Holds(s), SameAt(s), kind' = kind,
           vol'.size = vol.size, vol'.rev = vol.rev, ReservationStays(s)
    PROVE  Holds(s)'
<1> USE Numbers, NumbersNext
<1>n. /\ vol \in VolRecords /\ vol' \in VolRecords
  BY DEF Types
<1>c. /\ Committed(vol) \in Nat /\ Committed(vol)' \in Nat
      /\ Committed(vol) >= vol.size /\ Committed(vol)' >= vol.size
      /\ Committed(vol)' = Committed(vol) \/ (Placed(s) => CaughtUp(vol, place, att, s))
  <2>1. Committed(vol)' = Committed(vol')
    BY DEF Committed
  <2>2. CASE vol'.reserved = vol.reserved
    <3>1. Committed(vol') = Committed(vol)
      BY <2>2 DEF Committed
    <3>2. QED
      BY <3>1, <2>1, <1>n, CommittedIs
  <2>3. CASE Placed(s) => CaughtUp(vol, place, att, s)
    BY <2>1, <2>3, <1>n, CommittedIs
  <2>4. QED
    BY <2>2, <2>3 DEF ReservationStays
<1>p. Placed(s)' = Placed(s) /\ Working(s)' = Working(s) /\ Resizing(s)' = Resizing(s)
      /\ shared' = shared
      /\ CaughtUp(vol, place, att, s)' = CaughtUp(vol, place, att, s)
  BY DEF SameAt, Placed, Working, Resizing, shared, CaughtUp
<1>1. Covers(s)'
  BY <1>c, <1>p DEF Holds, Covers, SameAt, CHolds
<1>2. VHolds(s)'
  <2>1. Resizing(s) => vpass[s].size <= Committed(vol)'
    BY <1>c DEF Holds, VHolds, Agrees, CaughtUp, Working, Resizing
  <2>2. QED
    BY <1>p, <2>1 DEF Holds, VHolds, SameAt
<1>3. CHolds(s)'
  BY <1>c, <1>p DEF Holds, Covers, CHolds, SameAt, Agrees, CaughtUp
<1>4. QED
  BY <1>1, <1>2, <1>3 DEF Holds

\* What works on a server, and a live volume, keep the destroy out.
LEMMA KeepsDestroyOut ==
    ASSUME VInv, NEW s \in Servers,
           Live \/ att[s] # "none" \/ cpass[s].at # "idle" \/ Working(s)
    PROVE  dpass.at = "idle" /\ ~vol.removed
<1>1. Agrees(s) /\ Destroying
  BY DEF VInv, RowsAgree
<1>2. QED
  BY <1>1 DEF Agrees, Destroying, Nothing, Live, Working

\* What is left to show of a step at one server: the server itself agrees with the
\* rows and, as long as sizes are accounted for, all hold what they may.
LEMMA AtOneServerHolding ==
    ASSUME VInv, Types', NEW s \in Servers, StepAt(s), Agrees(s)', vol'.size > 0,
           Live /\ Live' /\ excused' = {} /\ (\A o \in Servers : Holds(o)) =>
              \A o \in Servers : Holds(o)'
    PROVE  VInv' /\ RowGoesLast
<1> USE DEF VInv
<1>1. RowsAgree'
  <2>1. RowAgrees'
    BY Numbers, NumbersNext DEF StepAt, RowsAgree, RowAgrees, Exists, Types
  <2>2. \A o \in Servers \ {s} : Agrees(o)'
    BY AgreesElsewhere DEF StepAt, Elsewhere, RowsAgree
  <2>3. QED
    BY <2>1, <2>2 DEF RowsAgree
<1>2. Destroying'
  BY DEF StepAt, Destroying
<1>3. Accounted'
  <2>1. SUFFICES ASSUME Live', excused' = {}
                 PROVE  \A o \in Servers : Holds(o)'
    BY DEF Accounted
  <2>2. Live /\ \A o \in Servers : Holds(o)
    BY <2>1 DEF StepAt, Accounted
  <2>3. QED
    BY <2>1, <2>2
<1>4. DataTracked'
  <2>1. SUFFICES ASSUME "crash" \notin excused'
                 PROVE  Tracked'
    BY DEF DataTracked
  <2>2. Tracked
    BY <2>1 DEF DataTracked, StepAt
  <2>3. \A o \in Servers : Placed(o) => Placed(o)'
    BY DEF StepAt, Elsewhere, SameAt, Placed
  <2>4. \A o \in Servers : cpass[o].at = "mark" => cpass'[o].at = "mark" \/ vol'.dirEnsured
    BY DEF StepAt, Elsewhere, SameAt
  <2>5. \A o \in Servers : catalog[o] # 0 => catalog'[o] # 0
    BY DEF StepAt, Elsewhere, SameAt
  <2>6. Home \in Servers /\ shared' = shared
    BY Ranges DEF StepAt, shared
  <2>7. /\ kind' = kind /\ dpass' = dpass /\ dpass.at = "idle" /\ ~vol'.removed
        /\ Exists /\ (Live' => Live) /\ (vol.dirEnsured => vol'.dirEnsured)
    BY DEF StepAt
  <2>8. CASE dir' => dir
    BY <2>2, <2>3, <2>4, <2>5, <2>6, <2>7, <2>8 DEF Tracked, Removing
  <2>9. CASE dir' /\ catalog'[s] # 0 /\ Placed(s)' /\ (shared => cpass'[s].at = "mark")
    <3>1. ~shared => s = Home
      BY <2>6, <2>9 DEF Agrees, Sites, shared
    <3>2. ~shared => Placed(Home)'
      BY <3>1, <2>9
    <3>3. QED
      BY <2>2, <2>3, <2>6, <2>7, <2>9, <3>1, <3>2 DEF Tracked, Removing
  <2>10. QED
    BY <2>8, <2>9 DEF StepAt
<1>5. LocalDestroy'
  BY DEF StepAt, LocalDestroy, shared
<1>6. RowGoesLast
  BY Blank DEF RowGoesLast, StepAt, Exists
<1>7. QED
  BY <1>1, <1>2, <1>3, <1>4, <1>5, <1>6

\* With the sizes of the row as they are, the other servers hold what they held.
LEMMA AtOneServer ==
    ASSUME VInv, Types', NEW s \in Servers, StepAt(s), Agrees(s)', vol'.size > 0,
           Live /\ Live' /\ excused' = {} /\ (\A o \in Servers : Holds(o)) =>
              /\ vol'.size = vol.size
              /\ \A o \in Servers \ {s} : ReservationStays(o)
              /\ Holds(s)'
    PROVE  VInv' /\ RowGoesLast
<1>1. ASSUME Live, Live', excused' = {}, \A o \in Servers : Holds(o)
      PROVE  \A o \in Servers : Holds(o)'
  <2>1. \A o \in Servers \ {s} : Holds(o)'
    BY <1>1, HoldsElsewhere DEF StepAt, Elsewhere, RowsAgree, VInv
  <2>2. QED
    BY <1>1, <2>1
<1>2. QED
  BY <1>1, AtOneServerHolding

\* A step that leaves all of it alone.
LEMMA ApartFromAll ==
    ASSUME VInv, Types', Apart
    PROVE  VInv' /\ RowGoesLast
<1> USE DEF VInv
<1>0. /\ kind' = kind /\ vol' = vol /\ place' = place /\ att' = att
      /\ catalog' = catalog /\ dir' = dir /\ late' = late
      /\ vpass' = vpass /\ cpass' = cpass /\ dpass' = dpass
      /\ excused \subseteq excused'
  BY DEF Apart
<1>1. RowsAgree'
  <2>1. RowAgrees'
    BY Ranges, Numbers, NumbersNext DEF Apart, RowsAgree, RowAgrees, Exists, Types
  <2>2. \A o \in Servers : Agrees(o)'
    BY <1>0 DEF RowsAgree, Agrees, Placed, Working, Resizing, Sites, shared, Exists
  <2>3. QED
    BY <2>1, <2>2 DEF RowsAgree
<1>2. Destroying'
  BY <1>0 DEF Destroying, Nothing
<1>3. Accounted'
  <2>1. \A s \in Servers : Holds(s)' = Holds(s)
    BY <1>0 DEF Holds, Covers, VHolds, CHolds, Placed, Working, Resizing, shared, CaughtUp,
                Committed, Maximum
  <2>2. Live' = Live /\ (excused' = {} => excused = {})
    BY <1>0 DEF Live
  <2>3. QED
    BY <2>1, <2>2 DEF Accounted
<1>4. DataTracked'
  <2>1. \A s \in Servers : Placed(s)' = Placed(s)
    BY <1>0 DEF Placed
  <2>2. Tracked' = Tracked
    BY <1>0, <2>1, Ranges DEF Tracked, Live, Exists, shared, Home
  <2>3. QED
    BY <1>0, <2>2 DEF DataTracked
<1>5. LocalDestroy'
  BY <1>0 DEF LocalDestroy, shared
<1>6. RowGoesLast
  BY <1>0 DEF RowGoesLast
<1>7. QED
  BY <1>1, <1>2, <1>3, <1>4, <1>5, <1>6

-----------------------------------------------------------------------------
(***************************************************************************)
(* Requests                                                                *)
(***************************************************************************)

\* Attach keeps the invariant: a placement it adds has observed no revision and
\* has no catalog of a size.
LEMMA AttachKeeps ==
    ASSUME VInv, Happens, NEW s \in Servers, Attach(s)
    PROVE  VInv' /\ RowGoesLast
<1> USE Numbers DEF VInv
<1>0. Agrees(s) /\ RowAgrees /\ dpass.at = "idle" /\ ~vol.removed
  BY KeepsDestroyOut DEF RowsAgree, Attach
<1>1. Types'
  <2>1. att' \in [Servers -> Binds]
    BY DEF Types, Attach, Binds
  <2>2. place' \in [Servers -> Placements]
    BY <1>0, UpsertedIs DEF Attach
  <2>3. events' \in 0..MaxEvents
    BY VolumeConstants DEF Types, Happens
  <2>4. QED
    BY <2>1, <2>2, <2>3 DEF Types, Attach, incus, passes
<1>2. /\ kind' = kind /\ vol' = vol /\ catalog' = catalog /\ dir' = dir /\ late' = late
      /\ vpass' = vpass /\ cpass' = cpass /\ dpass' = dpass /\ excused' = excused
      /\ events <= events'
  BY DEF Attach, incus, passes, Happens
<1>3. /\ att[s] = "none" /\ att'[s] = "attaching" /\ Live /\ s \in Sites
      /\ \A o \in Servers \ {s} : att'[o] = att[o]
  BY DEF Attach, Types
<1>4. /\ \A o \in Servers \ {s} : place'[o] = place[o]
      /\ Placed(s) => place'[s] = place[s]
      /\ ~Placed(s) => place'[s].state = "ensuring" /\ place'[s].obs = 0
  BY <1>0, UpsertedIs DEF Attach
<1>5. Placed(s)' /\ Exists /\ Exists'
  BY <1>2, <1>3, <1>4 DEF Placed, Live, Exists
<1>6. StepAt(s)
  BY <1>0, <1>2, <1>3, <1>4, <1>5 DEF StepAt, Elsewhere, SameAt, Live
<1>7. Agrees(s)'
  BY <1>0, <1>2, <1>3, <1>5 DEF Agrees, Placed, Working, Resizing, Sites, shared
<1>8. ASSUME Holds(s)
      PROVE  Holds(s)'
  <2>1. vol' = vol /\ shared' = shared /\ Committed(vol)' = Committed(vol)
    BY <1>2 DEF shared, Committed
  <2>2. Covers(s)'
    BY <1>0, <1>2, <1>3, <1>4, <1>5, <1>8, <2>1 DEF Holds, Covers, Placed, CaughtUp, RowAgrees,
       Agrees
  <2>3. VHolds(s)'
    BY <1>0, <1>2, <1>4, <1>8, <2>1 DEF Holds, VHolds, Agrees, Working, Resizing
  <2>4. CHolds(s)'
    BY <1>2, <1>8, <2>1 DEF Holds, CHolds
  <2>5. QED
    BY <2>2, <2>3, <2>4 DEF Holds
<1>9. QED
  BY <1>0, <1>1, <1>2, <1>5, <1>6, <1>7, <1>8, AtOneServer DEF ReservationStays, RowAgrees

\* Detach keeps the invariant: it changes how an attachment stands, not that there
\* is one.
LEMMA DetachKeeps ==
    ASSUME VInv, Happens, NEW s \in Servers, Detach(s)
    PROVE  VInv' /\ RowGoesLast
<1> USE Numbers DEF VInv
<1>0. Agrees(s) /\ RowAgrees /\ dpass.at = "idle" /\ ~vol.removed
  BY KeepsDestroyOut DEF RowsAgree, Detach
<1>1. Types'
  <2>1. att' \in [Servers -> Binds]
    BY DEF Types, Detach, Binds
  <2>2. events' \in 0..MaxEvents
    BY VolumeConstants DEF Types, Happens
  <2>3. QED
    BY <2>1, <2>2 DEF Types, Detach, incus, passes
<1>2. /\ kind' = kind /\ vol' = vol /\ catalog' = catalog /\ dir' = dir /\ late' = late
      /\ vpass' = vpass /\ cpass' = cpass /\ dpass' = dpass /\ excused' = excused
      /\ events <= events' /\ place' = place
  BY DEF Detach, incus, passes, Happens
<1>3. /\ att[s] # "none" /\ att'[s] = "detaching"
      /\ \A o \in Servers \ {s} : att'[o] = att[o]
  BY DEF Detach, Types
<1>4. Placed(s) /\ Exists /\ Exists'
  BY <1>0, <1>2, <1>3 DEF Agrees, Exists
<1>5. StepAt(s)
  BY <1>0, <1>2, <1>3, <1>4 DEF StepAt, Elsewhere, SameAt, Live, Placed
<1>6. Agrees(s)'
  BY <1>0, <1>2, <1>3 DEF Agrees, Placed, Working, Resizing, Sites, shared, Exists
<1>7. ASSUME Holds(s)
      PROVE  Holds(s)'
  BY <1>2, <1>3, <1>7 DEF Holds, Covers, VHolds, CHolds, Placed, CaughtUp, Working, Resizing,
     shared, Committed
<1>8. QED
  BY <1>0, <1>1, <1>2, <1>4, <1>5, <1>6, <1>7, AtOneServer DEF ReservationStays, RowAgrees

\* An attachment that goes leaves a placement without a catalog, or one of a size
\* that the row has: nothing else has observed its revision.
LEMMA HoldsUnbound ==
    ASSUME Types, NEW s \in Servers, Holds(s), place' = place, catalog' = catalog,
           kind' = kind, vpass' = vpass, vol' = vol,
           cpass[s].at # "mark", cpass'[s].at \notin {"ensure", "mark"}
    PROVE  Holds(s)'
<1> USE Numbers
<1>1. shared' = shared /\ Committed(vol)' = Committed(vol)
  BY DEF shared, Committed
<1>2. Covers(s)'
  BY <1>1 DEF Holds, Covers, Placed, CaughtUp, VHolds, Working
<1>3. VHolds(s)' /\ CHolds(s)'
  BY <1>1 DEF Holds, VHolds, CHolds, Working, Resizing
<1>4. QED
  BY <1>2, <1>3 DEF Holds

\* A container's pass moves on with its catalog dealt with, or an attachment goes.
CMoves(s) ==
    /\ kind' = kind /\ vol' = vol /\ place' = place /\ catalog' = catalog /\ dir' = dir
    /\ late' = late /\ vpass' = vpass /\ dpass' = dpass /\ excused' = excused /\ events <= events'
    /\ \A o \in Servers \ {s} : att'[o] = att[o] /\ cpass'[o] = cpass[o]
    /\ att[s] # "none" /\ cpass[s].at # "mark" /\ cpass'[s].at \notin {"ensure", "mark"}
    /\ att'[s] = "none" => cpass'[s].at = "idle"

\* Such a move keeps the invariant.
LEMMA CMovesKeeps ==
    ASSUME VInv, Types', NEW s \in Servers, CMoves(s)
    PROVE  VInv' /\ RowGoesLast
<1> USE Numbers DEF VInv
<1>0. Agrees(s) /\ RowAgrees /\ dpass.at = "idle" /\ ~vol.removed
  BY KeepsDestroyOut DEF RowsAgree, CMoves
<1>2. /\ kind' = kind /\ vol' = vol /\ place' = place /\ catalog' = catalog /\ dir' = dir
      /\ late' = late /\ vpass' = vpass /\ dpass' = dpass /\ excused' = excused
      /\ events <= events'
  BY DEF CMoves
<1>3. Placed(s) /\ Exists /\ Exists'
  BY <1>0, <1>2 DEF Agrees, Exists, CMoves
<1>4. StepAt(s)
  BY <1>0, <1>2, <1>3 DEF StepAt, Elsewhere, SameAt, Live, Placed, CMoves
<1>5. Agrees(s)'
  BY <1>0, <1>2, <1>3 DEF Agrees, Placed, Working, Resizing, Sites, shared, Exists, CMoves
<1>6. ASSUME Holds(s)
      PROVE  Holds(s)'
  BY <1>2, <1>6, HoldsUnbound DEF CMoves
<1>7. QED
  BY <1>0, <1>2, <1>3, <1>4, <1>5, <1>6, AtOneServer DEF ReservationStays, RowAgrees

\* The end of a container keeps the invariant.
LEMMA ContainerGoneKeeps ==
    ASSUME VInv, Happens, NEW s \in Servers, ContainerGone(s)
    PROVE  VInv' /\ RowGoesLast
<1> USE DEF VInv
<1>1. att' \in [Servers -> Binds]
  BY DEF Types, ContainerGone, Binds
<1>2. events' \in 0..MaxEvents /\ events <= events'
  BY VolumeConstants DEF Types, Happens
<1>3. Types'
  BY <1>1, <1>2 DEF Types, ContainerGone, passes
<1>4. CMoves(s)
  BY <1>2 DEF ContainerGone, CMoves, passes, Types
<1>5. QED
  BY <1>3, <1>4, CMovesKeeps

\* A request that changes a live row and its intents only, or drops a row without
\* a placement.
RowStep ==
    /\ kind' = kind /\ place' = place /\ att' = att /\ catalog' = catalog /\ dir' = dir
    /\ late' = late /\ vpass' = vpass /\ cpass' = cpass /\ dpass' = dpass
    /\ excused \subseteq excused' /\ events <= events'
    /\ Live /\ ~vol'.removed /\ vol'.pin \in {vol.pin, NoSize}
    /\ Exists' => vol'.size > 0 /\ vol'.rev > 0 /\ vol'.dirEnsured = vol.dirEnsured
    /\ ~Exists' => vol' = Gone /\ \A s \in Servers : ~Placed(s)
    /\ vol'.rev <= events' + 1

\* What is left to show of such a request: what the servers hold fits the new row.
LEMMA InTheRow ==
    ASSUME VInv, Types', RowStep,
           Live' /\ excused' = {} /\ (\A s \in Servers : Holds(s)) =>
              \A s \in Servers : Holds(s)'
    PROVE  VInv' /\ RowGoesLast
<1> USE DEF VInv
<1>0. dpass.at = "idle" /\ Home \in Servers
  BY KeepsDestroyOut, Ranges DEF RowStep
<1>1. RowsAgree'
  <2>1. RowAgrees'
    BY DEF RowStep, RowAgrees, Exists
  <2>2. \A o \in Servers : Agrees(o)'
    BY DEF RowStep, RowsAgree, Agrees, Placed, Working, Resizing, Sites, shared
  <2>3. QED
    BY <2>1, <2>2 DEF RowsAgree
<1>2. Destroying'
  BY <1>0 DEF RowStep, Destroying
<1>3. Accounted'
  BY DEF RowStep, Accounted
<1>4. Live => Exists
  BY DEF Live, Exists
<1>5. DataTracked'
  <2>1. SUFFICES ASSUME "crash" \notin excused'
                 PROVE  Tracked'
    BY DEF DataTracked
  <2>2. Tracked
    BY <2>1 DEF DataTracked, RowStep
  <2>3. \A s \in Servers : Placed(s)' = Placed(s)
    BY DEF RowStep, Placed
  <2>4. /\ shared' = shared /\ dir' = dir /\ catalog' = catalog /\ cpass' = cpass
        /\ dpass' = dpass /\ ~vol'.removed /\ Live /\ Exists
        /\ Exists' => vol'.dirEnsured = vol.dirEnsured
    BY <1>4 DEF RowStep, shared
  <2>5. QED
    BY <1>0, <2>2, <2>3, <2>4 DEF Tracked, Removing
<1>6. LocalDestroy'
  BY DEF RowStep, LocalDestroy, shared
<1>7. RowGoesLast
  <2>1. SUFFICES ASSUME vol' = Gone, "crash" \notin excused, dir
                 PROVE  FALSE
    BY DEF RowGoesLast
  <2>2. \E s \in Servers : Placed(s)
    BY <2>1 DEF DataTracked, Tracked, RowStep
  <2>3. ~Exists'
    BY <2>1, Blank DEF Exists
  <2>4. QED
    BY <2>2, <2>3 DEF RowStep
<1>8. QED
  BY <1>1, <1>2, <1>3, <1>5, <1>6, <1>7

\* Resize keeps the invariant: it commits no less than before, and at the revision
\* it moves to no placement has caught up.
LEMMA ResizeKeeps ==
    ASSUME VInv, Happens, NEW n \in 1..MaxSize, Resize(n)
    PROVE  VInv' /\ RowGoesLast
<1> USE DEF VInv
<1> DEFINE r == ReservedAfter(vol, n)
           v == [vol EXCEPT !.size = n, !.reserved = r, !.rev = @ + 1, !.attention = FALSE]
<1>0. RowAgrees /\ Home \in Servers /\ n \in Sizes /\ n \in Nat /\ n > 0 /\ vol \in VolRecords
  BY Ranges DEF RowsAgree, Types
<1>1. dpass.at = "idle" /\ ~vol.removed
  BY <1>0, KeepsDestroyOut DEF Resize
<1>2. /\ r \in Sizes
      /\ (r = Committed(vol) /\ Committed(vol) > n) \/ (r = 0 /\ Committed(vol) <= n)
  BY <1>0, CommittedIs, Ranges DEF ReservedAfter, NoSize
<1>3. events' \in 0..MaxEvents /\ events \in Nat /\ events' = events + 1 /\ vol.rev \in Nat
      /\ vol.rev + 1 \in Revs
  BY <1>0, VolumeConstants, Numbers DEF Types, Happens, RowAgrees, Revs
<1> HIDE DEF r
<1>4. /\ v \in VolRecords /\ v.size = n /\ v.reserved = r /\ v.rev = vol.rev + 1
      /\ v.phase = vol.phase /\ v.removed = vol.removed /\ v.pin = vol.pin
      /\ v.dirEnsured = vol.dirEnsured
  BY <1>0, <1>2, <1>3 DEF VolRecords
<1>5. /\ vol' = Released(v, place, att) /\ Live
      /\ intent' = [s \in Servers |-> IF place[s] # NoPlacement THEN v.rev ELSE intent[s]]
      /\ kind' = kind /\ place' = place /\ att' = att /\ catalog' = catalog /\ dir' = dir
      /\ late' = late /\ vpass' = vpass /\ cpass' = cpass /\ dpass' = dpass
      /\ excused' = excused /\ device' = device /\ online' = online
      /\ failed' = failed /\ drive' = drive /\ destroy' = destroy
  BY DEF Resize, r, incus, passes
<1> HIDE DEF v
<1>6. /\ vol' \in VolRecords /\ vol'.size = n /\ vol'.rev = vol.rev + 1
      /\ vol'.phase = vol.phase /\ vol'.removed = vol.removed /\ vol'.pin = vol.pin
      /\ vol'.dirEnsured = vol.dirEnsured
      /\ vol'.reserved = r \/ (vol'.reserved = 0 /\ Settled(v, place, att))
  BY <1>4, <1>5, ReleasedIs
<1>7. Types'
  <2>1. intent' \in [Servers -> Revs]
    BY <1>3, <1>4, <1>5 DEF Types
  <2>2. QED
    BY <1>3, <1>5, <1>6, <2>1 DEF Types
<1>8. RowStep
  BY <1>0, <1>1, <1>3, <1>5, <1>6 DEF RowStep, RowAgrees, Live, Exists
<1>9. ASSUME Live', excused' = {}, \A s \in Servers : Holds(s), NEW s \in Servers
      PROVE  Holds(s)'
  <2> USE Numbers, NumbersNext
  <2>1. /\ shared' = shared /\ Committed(vol)' = Committed(vol') /\ Agrees(s)
        /\ Placed(s)' = Placed(s) /\ Working(s)' = Working(s) /\ Resizing(s)' = Resizing(s)
        /\ Holds(s) /\ place'[s] = place[s] /\ vpass'[s] = vpass[s] /\ cpass'[s] = cpass[s]
        /\ catalog'[s] = catalog[s] /\ att'[s] = att[s]
    BY <1>5, <1>9 DEF shared, Committed, Placed, Working, Resizing, RowsAgree
  <2>2. place[s].obs <= vol.rev
    BY <2>1 DEF Holds, Covers
  <2>3. ~CaughtUp(v, place, att, s) /\ ~CaughtUp(vol, place, att, s)'
    BY <1>0, <1>3, <1>4, <1>6, <2>1, <2>2, <1>7 DEF CaughtUp
  <2>4. Committed(vol') >= Committed(vol) \/ ~Placed(s)
    <3>1. Placed(s) => ~Settled(v, place, att)
      BY <2>1, <2>3, PlacedIs DEF Settled
    <3>2. QED
      BY <1>0, <1>2, <1>6, <3>1, CommittedIs
  <2>5. Committed(vol) \in Nat /\ Committed(vol') \in Nat /\ Committed(vol') >= 0
    BY <1>0, <1>6, CommittedIs
  <2>6. Covers(s)'
    BY <1>3, <1>6, <1>7, <2>1, <2>2, <2>3, <2>4, <2>5 DEF Holds, Covers
  <2>7. VHolds(s)'
    BY <1>3, <1>6, <1>7, <2>1, <2>2, <2>4, <2>5 DEF Holds, VHolds, Agrees, Working, Resizing
  <2>8. CHolds(s)'
    BY <1>6, <1>7, <2>1, <2>4, <2>5 DEF Holds, CHolds, Agrees
  <2>9. QED
    BY <2>6, <2>7, <2>8 DEF Holds
<1>10. QED
  BY <1>7, <1>8, <1>9, InTheRow

\* A request of a live volume moves its revision within bounds.
LEMMA NextRevision ==
    ASSUME VInv, Happens
    PROVE  /\ vol \in VolRecords /\ RowAgrees /\ vol.rev \in Nat /\ vol.rev + 1 \in Revs
           /\ events \in Nat /\ events' = events + 1 /\ events' \in 0..MaxEvents
           /\ vol.rev + 1 <= events' + 1
  BY Ranges, VolumeConstants, Numbers DEF VInv, RowsAgree, Types, Happens, RowAgrees, Revs

\* What dropping the row and beginning a destroy leave in it.
LEMMA DropRowIs ==
    ASSUME Types, DropRow
    PROVE  /\ vol' = Gone /\ vol' \in VolRecords /\ destroy' \in BOOLEAN /\ failed' \in Sizes
           /\ intent' \in [Servers -> Revs]
  BY Blank, Ranges DEF DropRow

\* The same of the begin of a destroy.
LEMMA BeginDestroyIs ==
    ASSUME VInv, Happens, BeginDestroy
    PROVE  /\ vol' \in VolRecords /\ vol'.phase = "deleting" /\ vol'.rev = vol.rev + 1
           /\ vol'.size = vol.size /\ vol'.removed = vol.removed /\ vol'.pin = vol.pin
           /\ vol'.dirEnsured = vol.dirEnsured
           /\ destroy' \in BOOLEAN /\ failed' \in Sizes /\ intent' = intent
<1>1. [vol EXCEPT !.phase = "deleting", !.rev = @ + 1, !.attention = FALSE] \in VolRecords
  BY NextRevision DEF VolRecords, Phases
<1>2. QED
  BY <1>1, NextRevision, Ranges DEF BeginDestroy, VolRecords

\* Delete and the purge keep the invariant: they drop the row only of a volume
\* without a placement, and so without data, and begin a destroy otherwise.
LEMMA DestroyAskedKeeps ==
    ASSUME VInv, Happens, Delete \/ PurgeVolume
    PROVE  VInv' /\ RowGoesLast
<1> USE DEF VInv
<1>0. Home \in Servers
  BY Ranges
<1>1. /\ Live /\ ((DropRow /\ Unplaced) \/ BeginDestroy)
      /\ kind' = kind /\ place' = place /\ att' = att /\ catalog' = catalog /\ dir' = dir
      /\ late' = late /\ vpass' = vpass /\ cpass' = cpass /\ dpass' = dpass
      /\ excused' = excused /\ device' = device /\ online' = online /\ drive' = drive
  BY DEF Delete, PurgeVolume, incus, passes
<1>2. ~vol.removed
  BY <1>0, <1>1, KeepsDestroyOut
<1>3. CASE DropRow /\ Unplaced
  <2>1. Types'
    BY <1>1, <1>3, DropRowIs, NextRevision DEF Types
  <2>2. \A s \in Servers : ~Placed(s)
    BY <1>3, PlacedIs DEF Unplaced, RowsAgree
  <2>3. ~Exists' /\ ~vol'.removed /\ vol'.pin = NoSize /\ vol'.rev = 0 /\ vol' = Gone
    BY <1>3, DropRowIs, Blank DEF Exists
  <2>4. RowStep
    BY <1>1, <2>2, <2>3, NextRevision DEF RowStep
  <2>5. ~Live'
    BY <2>3 DEF Live, Exists
  <2>6. QED
    BY <2>1, <2>4, <2>5, InTheRow
<1>4. CASE BeginDestroy
  <2>1. Types'
    BY <1>1, <1>4, BeginDestroyIs, NextRevision DEF Types
  <2>2. RowStep
    BY <1>1, <1>2, <1>4, BeginDestroyIs, NextRevision DEF RowStep, RowAgrees, Exists, Live
  <2>3. ~Live'
    BY <1>4, BeginDestroyIs DEF Live
  <2>4. QED
    BY <2>1, <2>2, <2>3, InTheRow
<1>5. QED
  BY <1>1, <1>3, <1>4

\* Retry keeps the invariant: it takes a size down again only as an exception.
LEMMA RetryKeeps ==
    ASSUME VInv, Happens, NEW s \in Servers, Retry(s)
    PROVE  VInv' /\ RowGoesLast
<1> USE DEF VInv
<1>0. Home \in Servers /\ failed \in Nat /\ failed # 0 /\ failed \in Sizes /\ Live
      /\ dpass.at = "idle" /\ ~vol.removed
  BY Ranges, Numbers, KeepsDestroyOut DEF Retry, Types
<1>1. PICK resize \in BOOLEAN :
         LET again == resize /\ vol.size > failed
         IN /\ vol' = [vol EXCEPT !.attention = FALSE,
                                  !.size = IF again THEN failed ELSE @,
                                  !.reserved = IF again THEN Committed(vol) ELSE @]
            /\ excused' = IF again THEN excused \cup {"retry"} ELSE excused
  BY DEF Retry
<1> DEFINE again == resize /\ vol.size > failed
           size == IF again THEN failed ELSE vol.size
           reserved == IF again THEN Committed(vol) ELSE vol.reserved
<1>2. /\ size \in Sizes /\ reserved \in Sizes /\ (vol.size > 0 => size > 0)
      /\ (again => excused' # {}) /\ excused \subseteq excused'
      /\ excused' \subseteq {"crash", "retry", "revert"}
      /\ (~again => size = vol.size /\ reserved = vol.reserved)
  BY <1>0, <1>1, NextRevision, CommittedIs DEF VolRecords, Types
<1>3. vol' = [vol EXCEPT !.attention = FALSE, !.size = size, !.reserved = reserved]
  <2>1. CASE again
    BY <1>1, <2>1
  <2>2. CASE ~again
    BY <1>1, <2>2, NextRevision DEF VolRecords
  <2>3. QED
    BY <2>1, <2>2
<1> HIDE DEF again, size, reserved
<1>4. /\ vol' \in VolRecords /\ vol'.size = size /\ vol'.reserved = reserved
      /\ vol'.phase = vol.phase /\ vol'.rev = vol.rev /\ vol'.removed = vol.removed
      /\ vol'.pin = vol.pin /\ vol'.dirEnsured = vol.dirEnsured
  BY <1>2, <1>3, NextRevision DEF VolRecords
<1>5. /\ kind' = kind /\ place' = place /\ att' = att /\ catalog' = catalog /\ dir' = dir
      /\ late' = late /\ vpass' = vpass /\ cpass' = cpass /\ dpass' = dpass
      /\ device' = device /\ online' = online /\ drive' = drive /\ destroy' = destroy
      /\ failed' = failed /\ intent' = [intent EXCEPT ![s] = vol.rev]
  BY DEF Retry, incus, passes
<1>6. Types'
  <2>1. intent' \in [Servers -> Revs]
    BY <1>5, NextRevision DEF Types, VolRecords
  <2>2. QED
    BY <1>2, <1>4, <1>5, <2>1, NextRevision DEF Types
<1>7. RowStep
  BY <1>0, <1>2, <1>4, <1>5, NextRevision DEF RowStep, RowAgrees, Exists, Live
<1>8. ASSUME excused' = {}, \A o \in Servers : Holds(o), NEW o \in Servers
      PROVE  Holds(o)'
  <2>1. SameAt(o)
    BY <1>5 DEF SameAt
  <2>2. ReservationStays(o) /\ vol'.size = vol.size
    BY <1>2, <1>4, <1>8 DEF ReservationStays
  <2>3. QED
    BY <1>4, <1>5, <1>6, <1>8, <2>1, <2>2, HoldsElsewhere DEF RowsAgree
<1>9. QED
  BY <1>6, <1>7, <1>8, InTheRow

-----------------------------------------------------------------------------
(***************************************************************************)
(* The container's pass                                                    *)
(***************************************************************************)

\* A pass put aside is a pass.
LEMMA CRetryIs ==
    ASSUME Types, NEW s \in Servers, CRetry(s)
    PROVE  /\ cpass' \in [Servers -> CPasses] /\ drive' \subseteq Servers
           /\ cpass'[s].at = "idle"
           /\ \A o \in Servers \ {s} : cpass'[o] = cpass[o]
  BY Blank DEF CRetry, Types

\* CStart keeps the invariant: the size it reads is what the row commits at least.
LEMMA CStartKeeps ==
    ASSUME VInv, NEW s \in Servers, CStart(s)
    PROVE  VInv' /\ RowGoesLast
<1> USE DEF VInv
<1>1. /\ kind' = kind /\ vol' = vol /\ place' = place /\ intent' = intent /\ destroy' = destroy
      /\ failed' = failed /\ catalog' = catalog /\ dir' = dir /\ online' = online
      /\ late' = late /\ excused' = excused /\ events' = events /\ vpass' = vpass
      /\ dpass' = dpass /\ drive' \subseteq Servers /\ cpass[s].at = "idle" /\ events <= events'
  BY Numbers DEF CStart, world, Types
<1>2. CASE att[s] = "none" /\ UNCHANGED <<att, device, cpass>>
  <2>1. Types'
    BY <1>1, <1>2 DEF Types
  <2>2. Apart
    BY <1>1, <1>2 DEF Apart
  <2>3. QED
    BY <2>1, <2>2, ApartFromAll
<1>3. CASE /\ att[s] = "detaching"
           /\ att' = [att EXCEPT ![s] = "none"]
           /\ device' = device \ {s}
           /\ UNCHANGED cpass
  <2>1. att' \in [Servers -> Binds]
    BY <1>3 DEF Types, Binds
  <2>2. Types'
    BY <1>1, <1>3, <2>1 DEF Types
  <2>3. CMoves(s)
    BY <1>1, <1>3 DEF CMoves, Types
  <2>4. QED
    BY <2>2, <2>3, CMovesKeeps
<1>4. CASE /\ att[s] \in {"attaching", "attached"}
           /\ cpass' = [cpass EXCEPT ![s] = [IdleC EXCEPT !.at = "ensure",
                                               !.size = IF shared THEN vol.size ELSE 0]]
           /\ UNCHANGED <<att, device>>
  <2> DEFINE n == IF shared THEN vol.size ELSE 0
             c == [IdleC EXCEPT !.at = "ensure", !.size = n]
  <2>0. Agrees(s) /\ RowAgrees /\ dpass.at = "idle" /\ ~vol.removed
    BY <1>4, KeepsDestroyOut DEF RowsAgree
  <2>1. n \in Sizes /\ vol \in VolRecords
    BY Ranges DEF Types, VolRecords
  <2>2. c \in CPasses /\ c.at = "ensure" /\ c.size = n
    BY <2>1, Blank DEF CPasses, CSteps
  <2>3. cpass' = [cpass EXCEPT ![s] = c]
    BY <1>4
  <2> HIDE DEF c
  <2>4. /\ cpass' \in [Servers -> CPasses] /\ cpass'[s] = c
        /\ \A o \in Servers \ {s} : cpass'[o] = cpass[o]
    BY <2>2, <2>3 DEF Types
  <2>5. Types'
    BY <1>1, <1>4, <2>4 DEF Types
  <2>6. Placed(s) /\ Exists /\ Exists' /\ att' = att
    BY <1>1, <1>4, <2>0 DEF Agrees, Exists
  <2>7. StepAt(s)
    BY <1>1, <2>0, <2>4, <2>6 DEF StepAt, Elsewhere, SameAt, Live, Placed
  <2>8. Agrees(s)'
    BY <1>1, <1>4, <2>0, <2>2, <2>4, <2>6 DEF Agrees, Placed, Working, Resizing, Sites, shared,
       RowAgrees
  <2>9. ASSUME Holds(s)
        PROVE  Holds(s)'
    <3>1. shared' = shared /\ Committed(vol)' = Committed(vol)
      BY <1>1 DEF shared, Committed
    <3>2. Covers(s)'
      BY <1>1, <2>4, <2>6, <2>9, <3>1 DEF Holds, Covers, Placed, CaughtUp
    <3>3. VHolds(s)'
      BY <1>1, <2>9, <3>1 DEF Holds, VHolds, Working, Resizing
    <3>4. CHolds(s)'
      BY <1>1, <2>1, <2>2, <2>4, <3>1, CommittedIs DEF CHolds
    <3>5. QED
      BY <3>2, <3>3, <3>4 DEF Holds
  <2>10. QED
    BY <1>1, <2>0, <2>5, <2>6, <2>7, <2>8, <2>9, AtOneServer DEF ReservationStays, RowAgrees
<1>5. QED
  BY <1>2, <1>3, <1>4 DEF CStart

\* CEnsure keeps the invariant: a catalog is created of no more than the row
\* commits, and its placement, which is attached, cannot have caught up.
LEMMA CEnsureKeeps ==
    ASSUME VInv, NEW s \in Servers, CEnsure(s)
    PROVE  VInv' /\ RowGoesLast
<1> USE DEF VInv
<1>0. /\ Agrees(s) /\ RowAgrees /\ dpass.at = "idle" /\ ~vol.removed
      /\ cpass[s].at = "ensure" /\ att[s] # "none" /\ Placed(s) /\ Exists
  <2>1. cpass[s].at = "ensure"
    BY DEF CEnsure
  <2>2. QED
    BY <2>1, KeepsDestroyOut DEF RowsAgree, Agrees
<1>1. /\ kind' = kind /\ vol' = vol /\ place' = place /\ att' = att /\ destroy' = destroy
      /\ failed' = failed /\ online' = online
      /\ late' = late /\ excused' = excused /\ events' = events /\ vpass' = vpass
      /\ dpass' = dpass /\ events <= events'
  BY Numbers DEF CEnsure, world, rows
<1>2. CASE /\ CRetry(s) /\ UNCHANGED incus
           /\ intent' = intent \/ intent' = [intent EXCEPT ![s] = vol.rev]
  <2>1. intent' \in [Servers -> Revs]
    BY <1>2 DEF Types, VolRecords
  <2>2. Types'
    BY <1>1, <1>2, <2>1, CRetryIs DEF Types, incus
  <2>3. CMoves(s)
    BY <1>0, <1>1, <1>2, CRetryIs DEF CMoves, incus
  <2>4. QED
    BY <2>2, <2>3, CMovesKeeps
<1>3. CASE /\ catalog[s] > 0 \/ (catalog[s] = 0 /\ shared)
           /\ IF catalog[s] = 0 THEN PostCatalog(s, cpass[s].size) ELSE UNCHANGED incus
           /\ cpass' = [cpass EXCEPT ![s].at = "mark", ![s].posted = catalog[s] = 0,
                                    ![s].size = IF catalog[s] = 0 THEN @ ELSE 0]
           /\ UNCHANGED <<intent, drive>>
  <2> DEFINE n == IF catalog[s] = 0 THEN cpass[s].size ELSE 0
             c == [cpass[s] EXCEPT !.at = "mark", !.posted = catalog[s] = 0, !.size = n]
  <2>1. cpass[s] \in CPasses /\ cpass \in [Servers -> CPasses]
    BY DEF Types
  <2>2. n \in Sizes
    BY <2>1, Ranges DEF CPasses
  <2>3. c \in CPasses /\ c.at = "mark"
    BY <2>1, <2>2 DEF CPasses, CSteps
  <2>4. cpass' = [cpass EXCEPT ![s] = c]
    BY <1>3, <2>1
  <2> HIDE DEF c, n
  <2>5. /\ cpass' \in [Servers -> CPasses] /\ cpass'[s].at = "mark"
        /\ \A o \in Servers \ {s} : cpass'[o] = cpass[o]
    BY <2>1, <2>3, <2>4
  <2>6. /\ catalog' \in [Servers -> CatalogSizes] /\ dir' \in BOOLEAN /\ device' = device
        /\ \A o \in Servers \ {s} : catalog'[o] = catalog[o]
        /\ catalog[s] = 0 => shared /\ catalog'[s] = cpass[s].size
        /\ catalog[s] # 0 => catalog'[s] = catalog[s] /\ dir' = dir
    <3>1. cpass[s].size \in CatalogSizes
      BY <2>1, Ranges DEF CPasses
    <3>2. catalog \in [Servers -> CatalogSizes] /\ dir \in BOOLEAN
      BY DEF Types
    <3>3. CASE catalog[s] = 0
      <4>1. /\ catalog' = [catalog EXCEPT ![s] = cpass[s].size] /\ dir' = TRUE
            /\ device' = device
        BY <1>3, <3>3 DEF PostCatalog
      <4>2. shared
        BY <1>3, <3>3
      <4>3. QED
        BY <3>1, <3>2, <3>3, <4>1, <4>2
    <3>4. CASE catalog[s] # 0
      BY <1>3, <3>2, <3>4 DEF incus
    <3>5. QED
      BY <3>3, <3>4
  <2>7. Types'
    BY <1>1, <1>3, <2>5, <2>6 DEF Types
  <2>8. catalog'[s] # 0 /\ Exists' /\ Placed(s)'
    BY <1>0, <1>1, <2>6, Numbers DEF Agrees, Exists, Placed
  <2>9. StepAt(s)
    BY <1>0, <1>1, <2>5, <2>6, <2>8 DEF StepAt, Elsewhere, SameAt, Live
  <2>10. Agrees(s)'
    BY <1>0, <1>1, <2>5, <2>8 DEF Agrees, Placed, Working, Resizing, Sites, shared
  <2>11. ASSUME Holds(s)
         PROVE  Holds(s)'
    <3> USE Numbers
    <3>1. shared' = shared /\ Committed(vol)' = Committed(vol) /\ Placed(s)' = Placed(s)
          /\ CaughtUp(vol, place, att, s)' = CaughtUp(vol, place, att, s)
      BY <1>1 DEF shared, Committed, Placed, CaughtUp
    <3>2. catalog[s] = 0 => ~CaughtUp(vol, place, att, s)
      BY <1>0, <2>6, <2>11 DEF CaughtUp, Holds, Covers
    <3>3. catalog'[s] <= Committed(vol)
      BY <1>0, <2>6, <2>11 DEF Holds, Covers, CHolds
    <3>4. Covers(s)'
      BY <1>0, <1>1, <2>5, <2>6, <2>8, <2>11, <3>1, <3>2, <3>3 DEF Holds, Covers
    <3>5. VHolds(s)'
      BY <1>1, <2>6, <2>8, <2>11, <3>1 DEF Holds, VHolds, Working, Resizing
    <3>6. CHolds(s)'
      BY <2>5, <2>8 DEF CHolds
    <3>7. QED
      BY <3>4, <3>5, <3>6 DEF Holds
  <2>12. QED
    BY <1>0, <1>1, <2>7, <2>8, <2>9, <2>10, <2>11, AtOneServer DEF ReservationStays, RowAgrees
<1>4. QED
  BY <1>2, <1>3 DEF CEnsure

\* CMark keeps the invariant: a placement it makes present is not caught up,
\* unless it was present and caught up before.
LEMMA CMarkKeeps ==
    ASSUME VInv, NEW s \in Servers, CMark(s)
    PROVE  VInv' /\ RowGoesLast
<1> USE DEF VInv
<1>0. /\ Agrees(s) /\ RowAgrees /\ dpass.at = "idle" /\ ~vol.removed
      /\ cpass[s].at = "mark" /\ att[s] # "none" /\ Placed(s) /\ Exists
  <2>1. cpass[s].at = "mark"
    BY DEF CMark
  <2>2. QED
    BY <2>1, KeepsDestroyOut DEF RowsAgree, Agrees
<1>1. /\ kind' = kind /\ att' = att /\ destroy' = destroy /\ failed' = failed
      /\ intent' = intent /\ drive' = drive /\ catalog' = catalog /\ dir' = dir
      /\ device' = device /\ online' = online
      /\ late' = late /\ excused' = excused /\ events' = events /\ vpass' = vpass
      /\ dpass' = dpass /\ events <= events'
  BY Numbers DEF CMark, world, queue, incus
<1>2. /\ vol \in VolRecords /\ place \in [Servers -> Placements] /\ cpass \in [Servers -> CPasses]
      /\ place[s] \in Placements /\ cpass[s] \in CPasses
  BY DEF Types
<1>3. vol' = [vol EXCEPT !.dirEnsured = TRUE]
  BY <1>0, Blank DEF CMark, Exists
<1>4. /\ vol' \in VolRecords /\ vol'.size = vol.size /\ vol'.reserved = vol.reserved
      /\ vol'.rev = vol.rev /\ vol'.phase = vol.phase /\ vol'.removed = vol.removed
      /\ vol'.pin = vol.pin /\ vol'.dirEnsured
  BY <1>2, <1>3 DEF VolRecords
<1> DEFINE obs == IF place[s].state = "present" THEN place[s].obs ELSE 0
           p == [state |-> "present", obs |-> obs]
<1>5. p \in Placements /\ p.state = "present" /\ p.obs = obs
  BY <1>2, Ranges DEF Placements, PlaceStates
<1>6. place' = [place EXCEPT ![s] = p]
  BY <1>0, PlacedIs DEF CMark, MarkedPresent
<1> HIDE DEF p
<1>7. /\ place' \in [Servers -> Placements] /\ place'[s].state = "present" /\ place'[s].obs = obs
      /\ \A o \in Servers \ {s} : place'[o] = place[o]
  BY <1>2, <1>5, <1>6
<1> DEFINE c == [cpass[s] EXCEPT !.at = IF cpass[s].posted THEN "requeue" ELSE "plug"]
<1>8. c \in CPasses /\ c.at \in {"requeue", "plug"}
  BY <1>2 DEF CPasses, CSteps
<1>9. cpass' = [cpass EXCEPT ![s] = c]
  BY <1>2 DEF CMark
<1> HIDE DEF c
<1>10. /\ cpass' \in [Servers -> CPasses] /\ cpass'[s].at \in {"requeue", "plug"}
       /\ \A o \in Servers \ {s} : cpass'[o] = cpass[o]
  BY <1>2, <1>8, <1>9
<1>11. Types'
  BY <1>1, <1>4, <1>7, <1>10 DEF Types
<1>12. Exists' /\ Placed(s)'
  BY <1>0, <1>4, <1>7 DEF Exists, Placed
<1>13. StepAt(s)
  BY <1>0, <1>1, <1>4, <1>7, <1>10, <1>12 DEF StepAt, Elsewhere, SameAt, Live
<1>14. Agrees(s)'
  BY <1>0, <1>1, <1>10, <1>12 DEF Agrees, Placed, Working, Resizing, Sites, shared
<1>15. ASSUME Holds(s)
       PROVE  Holds(s)'
  <2> USE Numbers
  <2>1. /\ shared' = shared /\ Committed(vol)' = Committed(vol) /\ catalog[s] # 0
    BY <1>0, <1>1, <1>4, <1>15 DEF shared, Committed, Holds, CHolds
  <2>2. CaughtUp(vol, place, att, s)' =>
           place[s].state = "present" /\ CaughtUp(vol, place, att, s)
    BY <1>0, <1>4, <1>7 DEF CaughtUp, RowAgrees
  <2>3. Covers(s)'
    BY <1>0, <1>1, <1>4, <1>7, <1>12, <1>15, <2>1, <2>2 DEF Holds, Covers
  <2>4. VHolds(s)'
    BY <1>0, <1>1, <1>4, <1>7, <1>15, <2>1 DEF Holds, VHolds, Working, Resizing, RowAgrees
  <2>5. CHolds(s)'
    BY <1>10 DEF CHolds
  <2>6. QED
    BY <2>3, <2>4, <2>5 DEF Holds
<1>16. QED
  BY <1>0, <1>4, <1>11, <1>13, <1>14, <1>15, AtOneServer DEF ReservationStays, RowAgrees

\* The rest of the container's pass keeps the invariant: the catalog is there.
LEMMA CRestKeeps ==
    ASSUME VInv, NEW s \in Servers, CRequeue(s) \/ CPlug(s) \/ CBind(s)
    PROVE  VInv' /\ RowGoesLast
<1> USE DEF VInv
<1>0. Agrees(s) /\ cpass[s].at \in {"requeue", "plug", "bind"} /\ att[s] # "none"
      /\ cpass[s] \in CPasses /\ cpass \in [Servers -> CPasses] /\ events <= events
  BY Numbers DEF CRequeue, CPlug, CBind, RowsAgree, Agrees, Types
<1>1. CASE CRequeue(s)
  <2> DEFINE c == [IdleC EXCEPT !.at = "plug"]
  <2>1. c \in CPasses /\ c.at = "plug"
    BY Blank DEF CPasses, CSteps
  <2>2. cpass' = [cpass EXCEPT ![s] = c]
    BY <1>1 DEF CRequeue
  <2> HIDE DEF c
  <2>3. /\ cpass' \in [Servers -> CPasses] /\ cpass'[s].at = "plug"
        /\ \A o \in Servers \ {s} : cpass'[o] = cpass[o]
    BY <1>0, <2>1, <2>2
  <2>4. intent' \in [Servers -> Revs]
    BY <1>1 DEF CRequeue, Types, VolRecords
  <2>5. Types'
    BY <1>1, <2>3, <2>4 DEF CRequeue, Types, rows, incus, world
  <2>6. CMoves(s)
    BY <1>0, <1>1, <2>3 DEF CRequeue, CMoves, rows, incus, world
  <2>7. QED
    BY <2>5, <2>6, CMovesKeeps
<1>2. CASE CPlug(s)
  <2>1. [cpass[s] EXCEPT !.at = "bind"] \in CPasses
    BY <1>0 DEF CPasses, CSteps
  <2>2. /\ cpass' \in [Servers -> CPasses] /\ cpass'[s].at = "bind"
        /\ \A o \in Servers \ {s} : cpass'[o] = cpass[o]
    BY <1>0, <1>2, <2>1 DEF CPlug, CPasses
  <2>3. Types'
    BY <1>2, <2>2 DEF CPlug, Types, rows, queue, world
  <2>4. CMoves(s)
    BY <1>0, <1>2, <2>2 DEF CPlug, CMoves, rows, queue, world
  <2>5. QED
    BY <2>3, <2>4, CMovesKeeps
<1>3. CASE CBind(s)
  <2> DEFINE b == CASE att[s] = "attaching" /\ s \in device -> "attached"
                    [] att[s] = "detaching" /\ s \notin device -> "none"
                    [] OTHER -> att[s]
  <2>1. b \in Binds
    BY DEF Types, Binds
  <2>2. att' = [att EXCEPT ![s] = b] /\ cpass' = [cpass EXCEPT ![s] = IdleC]
    BY <1>3 DEF CBind
  <2> HIDE DEF b
  <2>3. /\ att' \in [Servers -> Binds] /\ cpass' \in [Servers -> CPasses]
        /\ cpass'[s].at = "idle"
        /\ \A o \in Servers \ {s} : att'[o] = att[o] /\ cpass'[o] = cpass[o]
    BY <1>0, <2>1, <2>2, Blank DEF Types
  <2>4. Types'
    BY <1>3, <2>3 DEF CBind, Types, queue, incus, world
  <2>5. CMoves(s)
    BY <1>0, <1>3, <2>3 DEF CBind, CMoves, queue, incus, world
  <2>6. QED
    BY <2>4, <2>5, CMovesKeeps
<1>4. QED
  BY <1>1, <1>2, <1>3

-----------------------------------------------------------------------------
(***************************************************************************)
(* The volume's pass on a server                                           *)
(***************************************************************************)

\* A pass of the volume has a placement and the volume to work on.
LEMMA WorkingIs ==
    ASSUME VInv, NEW s \in Servers, Working(s)
    PROVE  /\ Agrees(s) /\ RowAgrees /\ dpass.at = "idle" /\ ~vol.removed
           /\ Placed(s) /\ Exists /\ place[s] # NoPlacement
           /\ vol \in VolRecords /\ vpass \in [Servers -> VPasses] /\ vpass[s] \in VPasses
           /\ events <= events
<1> USE DEF VInv
<1>1. Agrees(s) /\ RowAgrees
  BY DEF RowsAgree
<1>2. QED
  BY <1>1, PlacedIs, KeepsDestroyOut, Numbers DEF Agrees, Types

\* VStart keeps the invariant: the pass reads the revision and its size together.
LEMMA VStartKeeps ==
    ASSUME VInv, NEW s \in Servers, VStart(s)
    PROVE  VInv' /\ RowGoesLast
<1> USE DEF VInv
<1>0. /\ Agrees(s) /\ RowAgrees /\ dpass.at = "idle" /\ ~vol.removed /\ Live
      /\ Placed(s) /\ Exists /\ vpass[s].at = "idle"
  <2>1. Agrees(s) /\ RowAgrees /\ Live /\ place[s] # NoPlacement /\ vpass[s].at = "idle"
    BY DEF RowsAgree, VStart
  <2>2. QED
    BY <2>1, PlacedIs, KeepsDestroyOut DEF Agrees
<1>1. /\ kind' = kind /\ vol' = vol /\ place' = place /\ att' = att /\ destroy' = destroy
      /\ failed' = failed /\ intent' = intent /\ drive' = drive /\ catalog' = catalog
      /\ dir' = dir /\ device' = device /\ online' = online
      /\ late' = late /\ excused' = excused /\ events' = events /\ cpass' = cpass
      /\ dpass' = dpass /\ events <= events'
  BY Numbers DEF VStart, world, queue, incus, rows
<1>2. /\ vol \in VolRecords /\ place[s] \in Placements /\ vpass \in [Servers -> VPasses]
  BY DEF Types
<1> DEFINE x == [IdleV EXCEPT !.at = "get", !.rev = vol.rev, !.size = vol.size,
                              !.reserved = vol.reserved, !.state = place[s].state,
                              !.attached = kind = "block" /\ att[s] # "none"]
<1>3. vpass' = [vpass EXCEPT ![s] = x]
  BY DEF VStart
<1>4. vol.rev \in Revs /\ vol.size \in Sizes /\ vol.reserved \in Sizes
      /\ place[s].state \in PlaceStates
  BY <1>2 DEF VolRecords, Placements
<1>5. /\ x \in VPasses /\ x.at = "get" /\ x.rev = vol.rev /\ x.size = vol.size
      /\ x.state = place[s].state
  BY <1>4, Blank DEF VPasses, VSteps
<1> HIDE DEF x
<1>6. /\ vpass' \in [Servers -> VPasses] /\ vpass'[s] = x
      /\ \A o \in Servers \ {s} : vpass'[o] = vpass[o]
  BY <1>2, <1>3, <1>5
<1>7. Types'
  BY <1>1, <1>6 DEF Types
<1>8. StepAt(s)
  BY <1>0, <1>1, <1>6 DEF StepAt, Elsewhere, SameAt, Live, Placed, Exists
<1>9. Agrees(s)'
  BY <1>0, <1>1, <1>5, <1>6 DEF Agrees, Placed, Working, Resizing, Sites, shared, RowAgrees, Exists
<1>10. ASSUME Holds(s)
       PROVE  Holds(s)'
  <2>1. shared' = shared /\ Committed(vol)' = Committed(vol)
    BY <1>1 DEF shared, Committed
  <2>2. Covers(s)'
    BY <1>0, <1>1, <1>10, <2>1 DEF Holds, Covers, Placed, CaughtUp
  <2>3. VHolds(s)'
    BY <1>1, <1>2, <1>5, <1>6, <2>1, CommittedIs, Numbers DEF VHolds, Working, Resizing
  <2>4. CHolds(s)'
    BY <1>1, <1>10, <2>1 DEF Holds, CHolds
  <2>5. QED
    BY <2>2, <2>3, <2>4 DEF Holds
<1>11. QED
  BY <1>0, <1>1, <1>7, <1>8, <1>9, <1>10, AtOneServer DEF ReservationStays, RowAgrees

\* A pass that ends, with what it found written or not, holds nothing.
VEnds(s) ==
    /\ kind' = kind /\ vol' = vol /\ place' = place /\ att' = att /\ catalog' = catalog
    /\ dir' = dir /\ late' = late /\ cpass' = cpass /\ dpass' = dpass
    /\ excused \subseteq excused' /\ events' = events
    /\ vpass[s].at \notin {"idle", "record"} /\ vpass' = [vpass EXCEPT ![s] = IdleV]

\* Such an end keeps the invariant.
LEMMA VEndsKeeps ==
    ASSUME VInv, Types', NEW s \in Servers, VEnds(s)
    PROVE  VInv' /\ RowGoesLast
<1> USE DEF VInv
<1>0. /\ Agrees(s) /\ RowAgrees /\ dpass.at = "idle" /\ ~vol.removed
      /\ Placed(s) /\ Exists /\ vpass \in [Servers -> VPasses] /\ events <= events
  BY WorkingIs DEF VEnds, Working
<1>1. /\ kind' = kind /\ vol' = vol /\ place' = place /\ att' = att /\ catalog' = catalog
      /\ dir' = dir /\ late' = late /\ cpass' = cpass /\ dpass' = dpass
      /\ excused \subseteq excused' /\ events' = events /\ vpass[s].at # "record"
      /\ vpass'[s].at = "idle" /\ \A o \in Servers \ {s} : vpass'[o] = vpass[o]
  BY <1>0, Blank DEF VEnds
<1>2. StepAt(s)
  BY <1>0, <1>1 DEF StepAt, Elsewhere, SameAt, Live, Placed, Exists
<1>3. Agrees(s)'
  BY <1>0, <1>1 DEF Agrees, Placed, Working, Resizing, Sites, shared, Exists
<1>4. ASSUME Holds(s)
      PROVE  Holds(s)'
  BY <1>1, <1>4 DEF Holds, Covers, VHolds, CHolds, Placed, CaughtUp, Working, Resizing, shared,
     Committed
<1>5. QED
  BY <1>0, <1>1, <1>2, <1>3, <1>4, AtOneServer DEF ReservationStays, RowAgrees

\* VGet keeps the invariant: what it creates is of the size it holds, which is the
\* row's unless its placement lags, and a catalog it misses was not present.
LEMMA VGetKeeps ==
    ASSUME VInv, NEW s \in Servers, VGet(s)
    PROVE  VInv' /\ RowGoesLast
<1> USE DEF VInv
<1>0. /\ Agrees(s) /\ RowAgrees /\ dpass.at = "idle" /\ ~vol.removed
      /\ Placed(s) /\ Exists /\ vpass[s].at = "get" /\ vpass[s].size > 0
      /\ vpass \in [Servers -> VPasses] /\ vpass[s] \in VPasses /\ events <= events
  BY WorkingIs DEF VGet, Working, Agrees, Resizing
<1>1. /\ kind' = kind /\ vol' = vol /\ place' = place /\ att' = att /\ destroy' = destroy
      /\ failed' = failed /\ intent' = intent /\ drive' = drive
      /\ device' = device /\ online' = online
      /\ late' = late /\ excused' = excused /\ events' = events /\ cpass' = cpass
      /\ dpass' = dpass
  BY DEF VGet, world, queue, incus, rows, PostCatalog
<1>2. vpass[s].rev \in Revs /\ vpass[s].size \in Sizes /\ vpass[s].state \in PlaceStates
      /\ catalog[s] \in CatalogSizes /\ catalog \in [Servers -> CatalogSizes]
  BY <1>0 DEF VPasses, Types
<1>3. shared' = shared /\ Committed(vol)' = Committed(vol) /\ Placed(s)' = Placed(s)
      /\ CaughtUp(vol, place, att, s)' = CaughtUp(vol, place, att, s)
  BY <1>1 DEF shared, Committed, Placed, CaughtUp
<1>4. CASE /\ catalog[s] = 0 /\ shared
           /\ vpass' = [vpass EXCEPT ![s] = [IdleV EXCEPT !.at = "missing", !.rev = vpass[s].rev,
                                                          !.state = vpass[s].state]]
           /\ UNCHANGED incus
  <2> DEFINE x == [IdleV EXCEPT !.at = "missing", !.rev = vpass[s].rev, !.state = vpass[s].state]
  <2>1. x \in VPasses /\ x.at = "missing" /\ x.rev = vpass[s].rev /\ x.state = vpass[s].state
    BY <1>2, Blank DEF VPasses, VSteps
  <2>2. vpass' = [vpass EXCEPT ![s] = x]
    BY <1>4
  <2> HIDE DEF x
  <2>3. /\ vpass' \in [Servers -> VPasses] /\ vpass'[s] = x
        /\ \A o \in Servers \ {s} : vpass'[o] = vpass[o]
    BY <1>0, <2>1, <2>2
  <2>4. catalog' = catalog /\ dir' = dir
    BY <1>4 DEF incus
  <2>5. Types'
    BY <1>1, <2>3, <2>4 DEF Types
  <2>6. StepAt(s)
    BY <1>0, <1>1, <2>3, <2>4 DEF StepAt, Elsewhere, SameAt, Live, Placed, Exists
  <2>7. Agrees(s)'
    BY <1>0, <1>1, <1>4, <2>1, <2>3 DEF Agrees, Placed, Working, Resizing, Sites, shared, Exists
  <2>8. ASSUME Holds(s)
        PROVE  Holds(s)'
    <3>1. Covers(s)'
      BY <1>0, <1>1, <1>3, <1>4, <2>4, <2>8 DEF Holds, Covers
    <3>2. VHolds(s)'
      BY <1>0, <1>1, <1>4, <2>1, <2>3, <2>4, <2>8
         DEF Holds, VHolds, Covers, Working, Resizing
    <3>3. CHolds(s)'
      BY <1>1, <1>3, <2>4, <2>8 DEF Holds, CHolds
    <3>4. QED
      BY <3>1, <3>2, <3>3 DEF Holds
  <2>9. QED
    BY <1>0, <1>1, <2>5, <2>6, <2>7, <2>8, AtOneServer DEF ReservationStays, RowAgrees
<1>5. ASSUME NEW n \in CatalogSizes, n # 0,
             vpass' = [vpass EXCEPT ![s].at = "align", ![s].actual = n, ![s].state = "none"],
             catalog' \in [Servers -> CatalogSizes], catalog'[s] = n, dir' \in BOOLEAN,
             \A o \in Servers \ {s} : catalog'[o] = catalog[o],
             (catalog[s] = n /\ dir' = dir) \/ (catalog[s] = 0 /\ ~shared /\ n = vpass[s].size)
      PROVE  VInv' /\ RowGoesLast
  <2> DEFINE x == [vpass[s] EXCEPT !.at = "align", !.actual = n, !.state = "none"]
  <2>1. /\ x \in VPasses /\ x.at = "align" /\ x.rev = vpass[s].rev /\ x.size = vpass[s].size
        /\ x.actual = n
    BY <1>0, <1>5 DEF VPasses, VSteps, PlaceStates
  <2>2. vpass' = [vpass EXCEPT ![s] = x]
    BY <1>0, <1>5
  <2> HIDE DEF x
  <2>3. /\ vpass' \in [Servers -> VPasses] /\ vpass'[s] = x
        /\ \A o \in Servers \ {s} : vpass'[o] = vpass[o]
    BY <1>0, <2>1, <2>2
  <2>4. Types'
    BY <1>1, <1>5, <2>3 DEF Types
  <2>5. StepAt(s)
    BY <1>0, <1>1, <1>3, <1>5, <2>3 DEF StepAt, Elsewhere, SameAt, Live, Exists
  <2>6. Agrees(s)'
    BY <1>0, <1>1, <1>5, <2>1, <2>3 DEF Agrees, Placed, Working, Resizing, Sites, shared, Exists
  <2>7. ASSUME Holds(s)
        PROVE  Holds(s)'
    <3> USE Numbers
    <3>1. n <= Committed(vol)
      BY <1>0, <1>5, <2>7 DEF Holds, Covers, VHolds, Resizing
    <3>2. CaughtUp(vol, place, att, s) => n <= vol.size
      <4>1. CASE catalog[s] = n
        BY <1>0, <2>7, <4>1 DEF Holds, Covers
      <4>2. CASE n = vpass[s].size
        BY <1>0, <2>7, <4>2 DEF Holds, VHolds, CaughtUp, Working, Resizing
      <4>3. QED
        BY <1>5, <4>1, <4>2
    <3>3. Covers(s)'
      BY <1>0, <1>1, <1>3, <1>5, <2>3, <2>7, <3>1, <3>2 DEF Holds, Covers
    <3>4. VHolds(s)'
      BY <1>0, <1>1, <1>3, <1>5, <2>1, <2>3, <2>7 DEF Holds, VHolds, Working, Resizing
    <3>5. CHolds(s)'
      BY <1>1, <1>3, <1>5, <2>7 DEF Holds, CHolds
    <3>6. QED
      BY <3>3, <3>4, <3>5 DEF Holds
  <2>8. QED
    BY <1>0, <1>1, <2>4, <2>5, <2>6, <2>7, AtOneServer DEF ReservationStays, RowAgrees
<1>6. CASE /\ catalog[s] = 0 /\ ~shared
           /\ PostCatalog(s, vpass[s].size)
           /\ vpass' = [vpass EXCEPT ![s].at = "align", ![s].actual = vpass[s].size,
                                     ![s].state = "none"]
  <2>1. vpass[s].size \in CatalogSizes /\ vpass[s].size # 0
    BY <1>0, <1>2, Ranges, Numbers
  <2>2. catalog' = [catalog EXCEPT ![s] = vpass[s].size] /\ dir' = TRUE
    BY <1>6 DEF PostCatalog
  <2>3. /\ catalog' \in [Servers -> CatalogSizes] /\ catalog'[s] = vpass[s].size
        /\ \A o \in Servers \ {s} : catalog'[o] = catalog[o]
    BY <1>2, <2>1, <2>2
  <2>4. QED
    BY <1>5, <1>6, <2>1, <2>2, <2>3
<1>7. CASE /\ catalog[s] # 0
           /\ vpass' = [vpass EXCEPT ![s].at = "align", ![s].actual = catalog[s],
                                     ![s].state = "none"]
           /\ UNCHANGED incus
  <2>1. catalog' = catalog /\ dir' = dir /\ dir' \in BOOLEAN
    BY <1>7 DEF incus, Types
  <2>2. QED
    BY <1>2, <1>5, <1>7, <2>1
<1>8. QED
  BY <1>4, <1>6, <1>7 DEF VGet

\* What a pass leaves of the intents of its placement.
LEMMA EndPassIs ==
    ASSUME Types, NEW s \in Servers, EndPass(s)
    PROVE  /\ intent' \in [Servers -> Revs] /\ vpass' \in [Servers -> VPasses]
           /\ vpass'[s].at = "idle"
           /\ \A o \in Servers \ {s} : vpass'[o] = vpass[o]
  BY Blank, Ranges DEF EndPass, Types

\* Parking the volume changes nothing else of the row.
LEMMA ParkedIs ==
    ASSUME NEW v \in VolRecords
    PROVE  /\ Parked(v) \in VolRecords /\ Parked(v).size = v.size
           /\ Parked(v).reserved = v.reserved /\ Parked(v).rev = v.rev
           /\ Parked(v).phase = v.phase /\ Parked(v).removed = v.removed
           /\ Parked(v).pin = v.pin /\ Parked(v).dirEnsured = v.dirEnsured
<1>1. [v EXCEPT !.attention = TRUE] \in VolRecords
  BY DEF VolRecords
<1>2. QED
  BY <1>1 DEF Parked, VolRecords

\* What a pass takes the catalog to hold is a size.
LEMMA CatalogSizeIs ==
    ASSUME Types, NEW s \in Servers
    PROVE  CatalogSize(s) \in Sizes /\ CatalogSize(s) \in Nat
<1>1. /\ vpass[s].actual \in CatalogSizes /\ vpass[s].size \in Sizes
      /\ vpass[s].reserved \in Sizes
  BY Numbers DEF VPasses
<1>2. QED
  BY <1>1, Ranges DEF CatalogSize, Maximum, CatalogSizes

\* Undoing a shrink gives the row the size of the catalog, at its own revision.
LEMMA RevertedIs ==
    ASSUME Types, NEW s \in Servers
    PROVE  /\ Reverted(vol, s) \in VolRecords /\ Reverted(vol, s).rev = vol.rev
           /\ Reverted(vol, s).phase = vol.phase /\ Reverted(vol, s).removed = vol.removed
           /\ Reverted(vol, s).pin = vol.pin
           /\ Reverted(vol, s).dirEnsured = vol.dirEnsured
           /\ \/ Reverted(vol, s) = vol
              \/ /\ Reverted(vol, s).size = CatalogSize(s)
                 /\ Reverted(vol, s).reserved = 0
                 /\ vol.rev = vpass[s].rev
<1>1. vol \in VolRecords /\ vpass[s] \in VPasses
  BY DEF Types
<1>2. CatalogSize(s) \in Sizes
  BY CatalogSizeIs
<1> DEFINE w == [vol EXCEPT !.size = CatalogSize(s), !.reserved = NoSize, !.attention = TRUE]
<1>3. /\ w \in VolRecords /\ w.size = CatalogSize(s) /\ w.reserved = 0 /\ w.rev = vol.rev
      /\ w.phase = vol.phase /\ w.removed = vol.removed /\ w.pin = vol.pin
      /\ w.dirEnsured = vol.dirEnsured
  BY <1>1, <1>2, Ranges DEF VolRecords, NoSize
<1>4. Reverted(vol, s) = vol \/ (Reverted(vol, s) = w /\ vol.rev = vpass[s].rev)
  BY DEF Reverted
<1> HIDE DEF w
<1>5. QED
  BY <1>1, <1>3, <1>4

\* A pass that fails leaves the row as it decided, parked or not.
LEMMA VFailedIs ==
    ASSUME Types, NEW s \in Servers, NEW w \in VolRecords, VFailed(s, w)
    PROVE  /\ vol' \in VolRecords /\ vol'.size = w.size /\ vol'.reserved = w.reserved
           /\ vol'.rev = w.rev /\ vol'.phase = w.phase /\ vol'.removed = w.removed
           /\ vol'.pin = w.pin /\ vol'.dirEnsured = w.dirEnsured
           /\ failed' \in Sizes /\ EndPass(s)
<1>1. vpass[s].size \in Sizes /\ failed \in Sizes
  BY DEF Types, VPasses
<1>2. QED
  BY <1>1, ParkedIs DEF VFailed

\* A pass at align that fails keeps the invariant: an undone shrink gives the row
\* the size of the only catalog there is, or counts as an exception.
LEMMA VAlignFailsKeeps ==
    ASSUME VInv, NEW s \in Servers, VAlign(s), NEW w \in {vol, Reverted(vol, s)}, VFailed(s, w),
           w # vol => /\ Shrinks(s)
                      /\ excused' = {} => \A o \in Servers \ {s} : place[o] = NoPlacement
    PROVE  VInv' /\ RowGoesLast
<1> USE DEF VInv
<1>0. /\ Agrees(s) /\ RowAgrees /\ dpass.at = "idle" /\ ~vol.removed
      /\ Placed(s) /\ Exists /\ vpass[s].at = "align" /\ events <= events
      /\ vol \in VolRecords /\ vpass[s] \in VPasses
  BY WorkingIs DEF VAlign, Working
<1>1. /\ kind' = kind /\ place' = place /\ att' = att /\ destroy' = destroy
      /\ drive' = drive /\ catalog' = catalog /\ dir' = dir
      /\ device' = device /\ online' = online
      /\ late' = late /\ events' = events /\ cpass' = cpass /\ dpass' = dpass
  BY DEF VAlign, incus
<1>2. excused \subseteq excused' /\ excused' \subseteq {"crash", "retry", "revert"}
  BY DEF VAlign, Types
<1>3. /\ w \in VolRecords /\ w.rev = vol.rev /\ w.phase = vol.phase /\ w.removed = vol.removed
      /\ w.pin = vol.pin /\ w.dirEnsured = vol.dirEnsured
      /\ w = vol \/ (w.size = CatalogSize(s) /\ w.reserved = 0 /\ vol.rev = vpass[s].rev)
  BY <1>0, RevertedIs
<1>4. /\ vol' \in VolRecords /\ vol'.size = w.size /\ vol'.reserved = w.reserved
      /\ vol'.rev = vol.rev /\ vol'.phase = vol.phase /\ vol'.removed = vol.removed
      /\ vol'.pin = vol.pin /\ vol'.dirEnsured = vol.dirEnsured
      /\ failed' \in Sizes /\ EndPass(s)
  BY <1>3, VFailedIs
<1>5. /\ intent' \in [Servers -> Revs] /\ vpass' \in [Servers -> VPasses]
      /\ vpass'[s].at = "idle"
      /\ \A o \in Servers \ {s} : vpass'[o] = vpass[o]
  BY <1>4, EndPassIs
<1>6. Types'
  BY <1>1, <1>2, <1>4, <1>5 DEF Types
<1>7. CatalogSize(s) \in Nat /\ (vpass[s].actual # Recovered => CatalogSize(s) = vpass[s].actual)
  BY CatalogSizeIs DEF CatalogSize
<1>8. vol'.size > 0
  <2>1. vol.size > 0 /\ (w # vol => CatalogSize(s) > vpass[s].size)
    BY <1>0 DEF RowAgrees, Shrinks
  <2>2. vpass[s].size \in Nat
    BY Numbers
  <2>3. QED
    BY <1>3, <1>4, <1>7, <2>1, <2>2
<1>9. StepAt(s)
  BY <1>0, <1>1, <1>2, <1>4, <1>5 DEF StepAt, Elsewhere, SameAt, Live, Placed, Exists
<1>10. Agrees(s)'
  BY <1>0, <1>1, <1>2, <1>4, <1>5 DEF Agrees, Placed, Working, Resizing, Sites, shared, Exists
<1>11. shared' = shared /\ Committed(vol)' = Committed(vol')
  BY <1>1 DEF shared, Committed
<1>12. CASE w = vol
  <2>1. ASSUME Holds(s)
        PROVE  Holds(s)'
    <3>1. Committed(vol') = Committed(vol) /\ vol'.size = vol.size
      BY <1>4, <1>12 DEF Committed
    <3>2. QED
      BY <1>0, <1>1, <1>4, <1>5, <1>11, <2>1, <3>1
         DEF Holds, Covers, VHolds, CHolds, Placed, CaughtUp, Working, Resizing
  <2>2. QED
    BY <1>4, <1>6, <1>8, <1>9, <1>10, <1>12, <2>1, AtOneServer DEF ReservationStays
<1>13. CASE w # vol
  <2>1. ASSUME excused' = {}, \A o \in Servers : Holds(o), NEW o \in Servers
        PROVE  Holds(o)'
    <3> USE Numbers, NumbersNext
    <3>1. Agrees(o) /\ Holds(o)
      BY <2>1 DEF RowsAgree
    <3>2. Committed(vol') \in Nat /\ Committed(vol') >= vol'.size
      BY <1>4, CommittedIs
    <3>3. CASE o = s
      <4>1. catalog[s] <= vol'.size /\ catalog[s] # 0
        <5>1. vpass[s].actual = catalog[s] /\ catalog[s] # 0
          BY <1>0, <3>1, <3>3 DEF Holds, VHolds
        <5>2. QED
          BY <1>3, <1>4, <1>7, <1>13, <5>1 DEF Recovered
      <4>2. Covers(s)'
        BY <1>0, <1>1, <1>4, <1>5, <1>6, <1>11, <3>1, <3>2, <3>3, <4>1
           DEF Holds, Covers, Placed
      <4>3. VHolds(s)' /\ CHolds(s)'
        BY <1>1, <1>5, <4>1 DEF VHolds, CHolds, Working, Resizing
      <4>4. QED
        BY <3>3, <4>2, <4>3 DEF Holds
    <3>4. CASE o # s
      <4>1. ~Placed(o) /\ place[o] = NoPlacement
        BY <1>13, <2>1, <3>1, <3>4, PlacedIs
      <4>2. /\ catalog'[o] = catalog[o] /\ catalog[o] <= 0 /\ ~Placed(o)'
            /\ place'[o].state = "none" /\ place'[o].obs = 0
            /\ vpass'[o].at = "idle" /\ cpass'[o].at = "idle"
        BY <1>1, <1>5, <3>1, <3>4, <4>1, Blank DEF Holds, Covers, Agrees, Placed, Working
      <4>3. Covers(o)'
        BY <1>4, <1>6, <1>11, <3>2, <4>2 DEF Covers
      <4>4. VHolds(o)' /\ CHolds(o)'
        BY <4>2 DEF VHolds, CHolds, Working, Resizing
      <4>5. QED
        BY <4>3, <4>4 DEF Holds
    <3>5. QED
      BY <3>3, <3>4
  <2>2. QED
    BY <1>6, <1>8, <1>9, <1>10, <2>1, AtOneServerHolding
<1>14. QED
  BY <1>12, <1>13

\* VAlign keeps the invariant: a pass that goes on holds what it held.
LEMMA VAlignKeeps ==
    ASSUME VInv, NEW s \in Servers, VAlign(s)
    PROVE  VInv' /\ RowGoesLast
<1> USE DEF VInv
<1>1. CASE VFailed(s, vol)
  BY <1>1, VAlignFailsKeeps
<1>2. CASE /\ Shrinks(s) /\ VFailed(s, Reverted(vol, s))
           /\ excused' = IF \E o \in Servers \ {s} : place[o] # NoPlacement
                         THEN excused \cup {"revert"} ELSE excused
  <2>1. excused' = {} => \A o \in Servers \ {s} : place[o] = NoPlacement
    BY <1>2
  <2>2. QED
    BY <1>2, <2>1, VAlignFailsKeeps
<1>3. CASE /\ vpass' = [vpass EXCEPT ![s] = [IdleV EXCEPT !.at = "put", !.rev = vpass[s].rev,
                                                          !.size = vpass[s].size]]
           /\ UNCHANGED <<vol, intent, failed, excused>>
  <2>0. /\ Agrees(s) /\ RowAgrees /\ dpass.at = "idle" /\ ~vol.removed
        /\ Placed(s) /\ Exists /\ vpass[s].at = "align" /\ events <= events
        /\ vol \in VolRecords /\ vpass[s] \in VPasses /\ vpass \in [Servers -> VPasses]
    BY WorkingIs DEF VAlign, Working
  <2>1. /\ kind' = kind /\ place' = place /\ att' = att /\ destroy' = destroy
        /\ drive' = drive /\ catalog' = catalog /\ dir' = dir
        /\ device' = device /\ online' = online /\ vol' = vol /\ intent' = intent
        /\ failed' = failed /\ excused' = excused
        /\ late' = late /\ events' = events /\ cpass' = cpass /\ dpass' = dpass
    BY <1>3 DEF VAlign, incus
  <2> DEFINE x == [IdleV EXCEPT !.at = "put", !.rev = vpass[s].rev, !.size = vpass[s].size]
  <2>2. vpass[s].rev \in Revs /\ vpass[s].size \in Sizes
    BY <2>0 DEF VPasses
  <2>3. x \in VPasses /\ x.at = "put" /\ x.rev = vpass[s].rev /\ x.size = vpass[s].size
    BY <2>2, Blank DEF VPasses, VSteps
  <2>4. vpass' = [vpass EXCEPT ![s] = x]
    BY <1>3
  <2> HIDE DEF x
  <2>5. /\ vpass' \in [Servers -> VPasses] /\ vpass'[s] = x
        /\ \A o \in Servers \ {s} : vpass'[o] = vpass[o]
    BY <2>0, <2>3, <2>4
  <2>6. Types'
    BY <2>1, <2>5 DEF Types
  <2>7. StepAt(s)
    BY <2>0, <2>1, <2>5 DEF StepAt, Elsewhere, SameAt, Live, Placed, Exists
  <2>8. Agrees(s)'
    BY <2>0, <2>1, <2>3, <2>5 DEF Agrees, Placed, Working, Resizing, Sites, shared, Exists
  <2>9. ASSUME Holds(s)
        PROVE  Holds(s)'
    <3>1. shared' = shared /\ Committed(vol)' = Committed(vol)
      BY <2>1 DEF shared, Committed
    <3>2. Covers(s)' /\ CHolds(s)'
      BY <2>0, <2>1, <2>9, <3>1 DEF Holds, Covers, CHolds, Placed, CaughtUp
    <3>3. VHolds(s)'
      BY <2>0, <2>1, <2>3, <2>5, <2>9, <3>1 DEF Holds, VHolds, Working, Resizing
    <3>4. QED
      BY <3>2, <3>3 DEF Holds
  <2>10. QED
    BY <2>0, <2>1, <2>6, <2>7, <2>8, <2>9, AtOneServer DEF ReservationStays, RowAgrees
<1>4. QED
  BY <1>1, <1>2, <1>3 DEF VAlign

\* VPut keeps the invariant: the catalog gets the size the pass holds, which is the
\* row's unless its placement lags.
LEMMA VPutKeeps ==
    ASSUME VInv, NEW s \in Servers, VPut(s)
    PROVE  VInv' /\ RowGoesLast
<1> USE DEF VInv
<1>0. /\ Agrees(s) /\ RowAgrees /\ dpass.at = "idle" /\ ~vol.removed
      /\ Placed(s) /\ Exists /\ vpass[s].at = "put" /\ vpass[s].size > 0
      /\ vpass \in [Servers -> VPasses] /\ vpass[s] \in VPasses /\ events <= events
  BY WorkingIs DEF VPut, Working, Agrees, Resizing
<1>1. /\ kind' = kind /\ vol' = vol /\ place' = place /\ att' = att /\ destroy' = destroy
      /\ failed' = failed /\ intent' = intent /\ drive' = drive
      /\ device' = device /\ online' = online /\ dir' = dir
      /\ late' = late /\ excused' = excused /\ events' = events /\ cpass' = cpass
      /\ dpass' = dpass
  BY DEF VPut, world, queue, rows
<1>2. CASE /\ catalog[s] = 0
           /\ vpass' = [vpass EXCEPT ![s] = IdleV]
           /\ UNCHANGED catalog
  <2>1. vpass' \in [Servers -> VPasses]
    BY <1>0, <1>2, Blank
  <2>2. Types'
    BY <1>1, <1>2, <2>1 DEF Types
  <2>3. VEnds(s)
    BY <1>0, <1>1, <1>2 DEF VEnds
  <2>4. QED
    BY <2>2, <2>3, VEndsKeeps
<1>3. CASE /\ catalog[s] # 0
           /\ catalog' = [catalog EXCEPT ![s] = vpass[s].size]
           /\ vpass' = [vpass EXCEPT ![s].at = "record", ![s].size = 0]
  <2> DEFINE x == [vpass[s] EXCEPT !.at = "record", !.size = 0]
  <2>1. x \in VPasses /\ x.at = "record" /\ x.rev = vpass[s].rev
    BY <1>0, Ranges DEF VPasses, VSteps
  <2>2. vpass' = [vpass EXCEPT ![s] = x]
    BY <1>0, <1>3
  <2> HIDE DEF x
  <2>3. /\ vpass' \in [Servers -> VPasses] /\ vpass'[s] = x
        /\ \A o \in Servers \ {s} : vpass'[o] = vpass[o]
    BY <1>0, <2>1, <2>2
  <2>4. vpass[s].size \in CatalogSizes /\ vpass[s].size # 0
    BY <1>0, Ranges, Numbers DEF VPasses
  <2>5. /\ catalog' \in [Servers -> CatalogSizes] /\ catalog'[s] = vpass[s].size
        /\ \A o \in Servers \ {s} : catalog'[o] = catalog[o]
    BY <1>3, <2>4 DEF Types
  <2>6. Types'
    BY <1>1, <2>3, <2>5 DEF Types
  <2>7. StepAt(s)
    BY <1>0, <1>1, <2>3, <2>4, <2>5 DEF StepAt, Elsewhere, SameAt, Live, Placed, Exists
  <2>8. Agrees(s)'
    BY <1>0, <1>1, <2>1, <2>3 DEF Agrees, Placed, Working, Resizing, Sites, shared, Exists
  <2>9. ASSUME Holds(s)
        PROVE  Holds(s)'
    <3> USE Numbers
    <3>1. shared' = shared /\ Committed(vol)' = Committed(vol) /\ Placed(s)' = Placed(s)
          /\ CaughtUp(vol, place, att, s)' = CaughtUp(vol, place, att, s)
      BY <1>1 DEF shared, Committed, Placed, CaughtUp
    <3>2. /\ vpass[s].size <= Committed(vol)
          /\ vpass[s].rev = vol.rev => vpass[s].size <= vol.size
          /\ CaughtUp(vol, place, att, s) => vpass[s].rev = vol.rev
      BY <1>0, <2>9 DEF Holds, VHolds, CaughtUp, Working, Resizing
    <3>3. Covers(s)'
      BY <1>0, <1>1, <2>1, <2>3, <2>4, <2>5, <2>9, <3>1, <3>2 DEF Holds, Covers
    <3>4. VHolds(s)'
      BY <1>0, <1>1, <2>1, <2>3, <2>4, <2>5, <2>9, <3>1, <3>2
         DEF Holds, VHolds, Working, Resizing
    <3>5. CHolds(s)'
      BY <1>1, <2>4, <2>5 DEF CHolds
    <3>6. QED
      BY <3>3, <3>4, <3>5 DEF Holds
  <2>10. QED
    BY <1>0, <1>1, <2>6, <2>7, <2>8, <2>9, AtOneServer DEF ReservationStays, RowAgrees
<1>4. QED
  BY <1>2, <1>3 DEF VPut

\* VRecord keeps the invariant: a placement is recorded at a revision that its
\* catalog has.
LEMMA VRecordKeeps ==
    ASSUME VInv, NEW s \in Servers, VRecord(s)
    PROVE  VInv' /\ RowGoesLast
<1> USE DEF VInv
<1>0. /\ Agrees(s) /\ RowAgrees /\ dpass.at = "idle" /\ ~vol.removed
      /\ Placed(s) /\ Exists /\ vpass[s].at = "record" /\ place[s] # NoPlacement
      /\ vpass \in [Servers -> VPasses] /\ vpass[s] \in VPasses /\ vol \in VolRecords
      /\ events <= events
  BY WorkingIs DEF VRecord, Working
<1>1. /\ kind' = kind /\ att' = att /\ destroy' = destroy
      /\ failed' = failed /\ intent' = intent /\ drive' = drive /\ catalog' = catalog
      /\ device' = device /\ online' = online /\ dir' = dir
      /\ late' = late /\ excused' = excused /\ events' = events /\ cpass' = cpass
      /\ dpass' = dpass
  BY DEF VRecord, world, queue, incus
<1>2. vol' = [vol EXCEPT !.dirEnsured = TRUE]
  BY <1>0, Blank DEF VRecord, Exists
<1>3. /\ vol' \in VolRecords /\ vol'.size = vol.size /\ vol'.reserved = vol.reserved
      /\ vol'.rev = vol.rev /\ vol'.phase = vol.phase /\ vol'.removed = vol.removed
      /\ vol'.pin = vol.pin /\ vol'.dirEnsured
  BY <1>0, <1>2 DEF VolRecords
<1> DEFINE p == [state |-> "present", obs |-> vpass[s].rev]
<1>4. p \in Placements /\ p.state = "present" /\ p.obs = vpass[s].rev
  BY <1>0 DEF Placements, PlaceStates, VPasses
<1>5. place' = [place EXCEPT ![s] = p]
  BY <1>0 DEF VRecord
<1> HIDE DEF p
<1>6. /\ place' \in [Servers -> Placements] /\ place'[s].state = "present"
      /\ place'[s].obs = vpass[s].rev
      /\ \A o \in Servers \ {s} : place'[o] = place[o]
  BY <1>4, <1>5 DEF Types
<1> DEFINE lags == Lagging(place', vpass[s].rev)
           x == [vpass[s] EXCEPT !.at = "mark", !.lagging = lags]
<1>7. lags \in BOOLEAN
  BY DEF Lagging
<1>8. vpass' = [vpass EXCEPT ![s] = x]
  BY <1>0 DEF VRecord
<1> HIDE DEF lags
<1>9. x \in VPasses /\ x.at = "mark" /\ x.rev = vpass[s].rev
  BY <1>0, <1>7 DEF VPasses, VSteps
<1> HIDE DEF x
<1>10. /\ vpass' \in [Servers -> VPasses] /\ vpass'[s] = x
       /\ \A o \in Servers \ {s} : vpass'[o] = vpass[o]
  BY <1>0, <1>8, <1>9
<1>11. Types'
  BY <1>1, <1>3, <1>6, <1>10 DEF Types
<1>12. Exists' /\ Placed(s)'
  BY <1>0, <1>3, <1>6 DEF Exists, Placed
<1>13. StepAt(s)
  BY <1>0, <1>1, <1>3, <1>6, <1>10, <1>12 DEF StepAt, Elsewhere, SameAt, Live
<1>14. Agrees(s)'
  BY <1>0, <1>1, <1>9, <1>10, <1>12 DEF Agrees, Placed, Working, Resizing, Sites, shared
<1>15. ASSUME Holds(s)
       PROVE  Holds(s)'
  <2> USE Numbers
  <2>1. /\ shared' = shared /\ Committed(vol)' = Committed(vol)
    BY <1>1, <1>3 DEF shared, Committed
  <2>2. /\ catalog[s] # 0 /\ vpass[s].rev <= vol.rev
        /\ vpass[s].rev = vol.rev => catalog[s] <= vol.size
    BY <1>0, <1>15 DEF Holds, VHolds, Working
  <2>3. Covers(s)'
    BY <1>1, <1>3, <1>6, <1>12, <1>15, <2>1, <2>2 DEF Holds, Covers, CaughtUp
  <2>4. VHolds(s)'
    BY <1>3, <1>6, <1>9, <1>10, <2>2 DEF VHolds, Working, Resizing
  <2>5. CHolds(s)'
    BY <1>1, <1>15, <2>1 DEF Holds, CHolds
  <2>6. QED
    BY <2>3, <2>4, <2>5 DEF Holds
<1>16. QED
  BY <1>0, <1>3, <1>11, <1>13, <1>14, <1>15, AtOneServer DEF ReservationStays, RowAgrees

\* Whether all placements have caught up depends on the row's revision only.
LEMMA SettledIs ==
    ASSUME Types, NEW v, v.rev = vol.rev, Settled(v, place, att), NEW s \in Servers, Agrees(s),
           Placed(s)
    PROVE  CaughtUp(vol, place, att, s)
  BY PlacedIs DEF Settled, CaughtUp

\* A pass that has recorded its placement goes on to look at the volume as a whole,
\* and may let the reservation go.
VReleases(s) ==
    /\ kind' = kind /\ place' = place /\ att' = att /\ catalog' = catalog
    /\ dir' = dir /\ late' = late /\ cpass' = cpass /\ dpass' = dpass
    /\ excused' = excused /\ events' = events
    /\ vpass[s].at \in {"mark", "settle"} /\ vpass'[s].at \in {"settle", "idle"}
    /\ vpass'[s].at # "idle" => vpass'[s].rev = vpass[s].rev
    /\ \A o \in Servers \ {s} : vpass'[o] = vpass[o]
    /\ vol'.size = vol.size /\ vol'.rev = vol.rev /\ vol'.removed = vol.removed
    /\ vol'.pin = vol.pin /\ vol'.dirEnsured = vol.dirEnsured
    /\ Exists' /\ (Live' => Live)
    /\ \/ vol'.reserved = vol.reserved
       \/ vol'.reserved = 0 /\ \A o \in Servers : Placed(o) => CaughtUp(vol, place, att, o)

\* Letting it go then keeps the invariant.
LEMMA VReleasesKeeps ==
    ASSUME VInv, Types', NEW s \in Servers, VReleases(s)
    PROVE  VInv' /\ RowGoesLast
<1> USE DEF VInv
<1>0. /\ Agrees(s) /\ RowAgrees /\ dpass.at = "idle" /\ ~vol.removed
      /\ Placed(s) /\ Exists /\ events <= events
  BY WorkingIs DEF VReleases, Working
<1>1. /\ kind' = kind /\ place' = place /\ att' = att /\ catalog' = catalog
      /\ dir' = dir /\ late' = late /\ cpass' = cpass /\ dpass' = dpass
      /\ excused' = excused /\ events' = events
      /\ vol'.size = vol.size /\ vol'.rev = vol.rev /\ Exists'
  BY DEF VReleases
<1>2. StepAt(s)
  BY <1>0, <1>1 DEF VReleases, StepAt, Elsewhere, SameAt, Placed
<1>3. Agrees(s)'
  BY <1>0, <1>1 DEF VReleases, Agrees, Placed, Working, Resizing, Sites, shared
<1>4. \A o \in Servers : ReservationStays(o)
  BY DEF VReleases, ReservationStays
<1>5. ASSUME Holds(s)
      PROVE  Holds(s)'
  <2> USE Numbers, NumbersNext
  <2>1. /\ shared' = shared /\ Committed(vol)' = Committed(vol') /\ Placed(s)' = Placed(s)
        /\ CaughtUp(vol, place, att, s)' = CaughtUp(vol, place, att, s)
    BY <1>1 DEF shared, Committed, Placed, CaughtUp
  <2>2. /\ Committed(vol') \in Nat /\ Committed(vol') >= vol.size
        /\ Committed(vol') = Committed(vol) \/ CaughtUp(vol, place, att, s)
    <3>1. vol' \in VolRecords
      BY DEF Types
    <3>2. vol'.reserved = vol.reserved => Committed(vol') = Committed(vol)
      BY <1>1 DEF Committed
    <3>3. QED
      BY <1>0, <1>1, <1>4, <3>1, <3>2, CommittedIs DEF ReservationStays
  <2>3. Covers(s)'
    BY <1>0, <1>1, <1>5, <2>1, <2>2 DEF Holds, Covers, VReleases
  <2>4. VHolds(s)'
    BY <1>1, <1>5 DEF Holds, VHolds, VReleases, Working, Resizing
  <2>5. CHolds(s)'
    BY <1>0, <1>1, <1>5, <2>1, <2>2 DEF Holds, Covers, CHolds, Agrees, CaughtUp
  <2>6. QED
    BY <2>3, <2>4, <2>5 DEF Holds
<1>6. QED
  BY <1>0, <1>1, <1>2, <1>3, <1>4, <1>5, AtOneServer DEF RowAgrees

\* VMark keeps the invariant, whatever its look for lagging placements saw.
LEMMA VMarkKeeps ==
    ASSUME VInv, NEW s \in Servers, VMark(s)
    PROVE  VInv' /\ RowGoesLast
<1> USE DEF VInv
<1>0. /\ Exists /\ vpass[s].at = "mark" /\ vol \in VolRecords
      /\ vpass \in [Servers -> VPasses] /\ vpass[s] \in VPasses
  BY WorkingIs DEF VMark, Working
<1> DEFINE w == [vol EXCEPT !.obs = vpass[s].rev, !.phase = "active", !.attention = FALSE]
           v == IF ~vpass[s].lagging /\ vol.rev = vpass[s].rev /\ Live THEN w ELSE vol
<1>1. /\ w \in VolRecords /\ w.size = vol.size /\ w.reserved = vol.reserved /\ w.rev = vol.rev
      /\ w.removed = vol.removed /\ w.pin = vol.pin /\ w.dirEnsured = vol.dirEnsured
      /\ w.phase = "active"
  BY <1>0 DEF VolRecords, Phases, VPasses
<1>2. vol' = Released(v, place, att)
  BY DEF VMark
<1> HIDE DEF w
<1>3. /\ v \in VolRecords /\ v.size = vol.size /\ v.reserved = vol.reserved /\ v.rev = vol.rev
      /\ v.removed = vol.removed /\ v.pin = vol.pin /\ v.dirEnsured = vol.dirEnsured
      /\ v.phase = vol.phase \/ (v.phase = "active" /\ Live)
  BY <1>0, <1>1
<1> HIDE DEF v
<1>4. /\ vol' \in VolRecords /\ vol'.size = vol.size /\ vol'.rev = vol.rev
      /\ vol'.removed = vol.removed /\ vol'.pin = vol.pin /\ vol'.dirEnsured = vol.dirEnsured
      /\ Exists' /\ (Live' => Live)
      /\ \/ vol'.reserved = vol.reserved
         \/ vol'.reserved = 0 /\ Settled(v, place, att)
  BY <1>0, <1>2, <1>3, ReleasedIs DEF Exists, Live
<1>5. \/ vol'.reserved = vol.reserved
      \/ vol'.reserved = 0 /\ \A o \in Servers : Placed(o) => CaughtUp(vol, place, att, o)
  BY <1>3, <1>4, SettledIs DEF RowsAgree
<1>6. [vpass[s] EXCEPT !.at = "settle", !.lagging = FALSE] \in VPasses
  BY <1>0 DEF VPasses, VSteps
<1>7. /\ vpass' \in [Servers -> VPasses] /\ vpass'[s].at = "settle"
      /\ vpass'[s].rev = vpass[s].rev
      /\ \A o \in Servers \ {s} : vpass'[o] = vpass[o]
  BY <1>0, <1>6 DEF VMark, VPasses
<1>8. Types'
  BY <1>4, <1>7 DEF VMark, Types, queue, incus, world
<1>9. VReleases(s)
  BY <1>0, <1>4, <1>5, <1>7 DEF VReleases, VMark, incus, world
<1>10. QED
  BY <1>8, <1>9, VReleasesKeeps

\* VSettle keeps the invariant.
LEMMA VSettleKeeps ==
    ASSUME VInv, NEW s \in Servers, VSettle(s)
    PROVE  VInv' /\ RowGoesLast
<1> USE DEF VInv
<1>0. /\ Exists /\ vpass[s].at = "settle" /\ vol \in VolRecords
      /\ vpass \in [Servers -> VPasses] /\ vpass[s] \in VPasses
  BY WorkingIs DEF VSettle, Working
<1> DEFINE w == Released(vol, place, att)
           x == [w EXCEPT !.obs = vpass[s].rev, !.attention = FALSE]
<1>1. /\ w \in VolRecords /\ w.size = vol.size /\ w.rev = vol.rev
      /\ w.removed = vol.removed /\ w.pin = vol.pin /\ w.dirEnsured = vol.dirEnsured
      /\ w.phase = vol.phase
      /\ w.reserved = vol.reserved \/ (w.reserved = 0 /\ Settled(vol, place, att))
  BY <1>0, ReleasedIs
<1>2. vol' = w \/ vol' = x
  BY DEF VSettle, Succeeded
<1> HIDE DEF w
<1>3. /\ x \in VolRecords /\ x.size = vol.size /\ x.rev = vol.rev
      /\ x.removed = vol.removed /\ x.pin = vol.pin /\ x.dirEnsured = vol.dirEnsured
      /\ x.phase = vol.phase /\ x.reserved = w.reserved
  BY <1>0, <1>1 DEF VolRecords, VPasses
<1> HIDE DEF x
<1>4. /\ vol' \in VolRecords /\ vol'.size = vol.size /\ vol'.rev = vol.rev
      /\ vol'.removed = vol.removed /\ vol'.pin = vol.pin /\ vol'.dirEnsured = vol.dirEnsured
      /\ vol'.phase = vol.phase
      /\ vol'.reserved = vol.reserved \/ (vol'.reserved = 0 /\ Settled(vol, place, att))
  BY <1>1, <1>2, <1>3
<1>5. \/ vol'.reserved = vol.reserved
      \/ vol'.reserved = 0 /\ \A o \in Servers : Placed(o) => CaughtUp(vol, place, att, o)
  BY <1>4, SettledIs DEF RowsAgree
<1>6. /\ intent' \in [Servers -> Revs] /\ vpass' \in [Servers -> VPasses]
      /\ vpass'[s].at = "idle"
      /\ \A o \in Servers \ {s} : vpass'[o] = vpass[o]
  BY EndPassIs DEF VSettle
<1>7. Types'
  BY <1>4, <1>6 DEF VSettle, Types, incus, world
<1>8. VReleases(s)
  BY <1>0, <1>4, <1>5, <1>6 DEF VReleases, VSettle, incus, world, Exists, Live
<1>9. QED
  BY <1>7, <1>8, VReleasesKeeps

\* VMissing keeps the invariant: a placement recorded without a catalog counts as
\* caught up only without an attachment, and then nothing creates its catalog.
LEMMA VMissingKeeps ==
    ASSUME VInv, NEW s \in Servers, VMissing(s)
    PROVE  VInv' /\ RowGoesLast
<1> USE DEF VInv
<1>0. /\ Agrees(s) /\ RowAgrees /\ dpass.at = "idle" /\ ~vol.removed
      /\ Placed(s) /\ Exists /\ vpass[s].at = "missing" /\ shared
      /\ vpass \in [Servers -> VPasses] /\ vpass[s] \in VPasses /\ vol \in VolRecords
      /\ events <= events
  BY WorkingIs DEF VMissing, Working, Agrees
<1>1. /\ kind' = kind /\ att' = att /\ destroy' = destroy
      /\ failed' = failed /\ intent' = intent /\ drive' = drive /\ catalog' = catalog
      /\ device' = device /\ online' = online /\ dir' = dir
      /\ late' = late /\ excused' = excused /\ events' = events /\ cpass' = cpass
      /\ dpass' = dpass
  BY DEF VMissing, world, queue, incus
<1>2. CASE /\ vpass' = [vpass EXCEPT ![s] = IdleV]
           /\ UNCHANGED <<place, vol>>
  <2>1. vpass' \in [Servers -> VPasses]
    BY <1>0, <1>2, Blank
  <2>2. Types'
    BY <1>1, <1>2, <2>1 DEF Types
  <2>3. VEnds(s)
    BY <1>0, <1>1, <1>2 DEF VEnds
  <2>4. QED
    BY <2>2, <2>3, VEndsKeeps
<1>3. CASE /\ place[s].state = vpass[s].state
           /\ place' = [place EXCEPT ![s] = [state |-> "ensuring", obs |-> vpass[s].rev]]
           /\ vol' = Released(vol, place', att)
           /\ vpass' = [vpass EXCEPT ![s].at = "settle", ![s].state = "none"]
  <2> DEFINE p == [state |-> "ensuring", obs |-> vpass[s].rev]
             x == [vpass[s] EXCEPT !.at = "settle", !.state = "none"]
  <2>1. p \in Placements /\ p.state = "ensuring" /\ p.obs = vpass[s].rev
    BY <1>0 DEF Placements, PlaceStates, VPasses
  <2>2. x \in VPasses /\ x.at = "settle" /\ x.rev = vpass[s].rev
    BY <1>0 DEF VPasses, VSteps, PlaceStates
  <2>3. place' = [place EXCEPT ![s] = p] /\ vpass' = [vpass EXCEPT ![s] = x]
    BY <1>0, <1>3
  <2> HIDE DEF p, x
  <2>4. /\ place' \in [Servers -> Placements] /\ place'[s].state = "ensuring"
        /\ place'[s].obs = vpass[s].rev
        /\ \A o \in Servers \ {s} : place'[o] = place[o]
    BY <2>1, <2>3 DEF Types
  <2>5. /\ vpass' \in [Servers -> VPasses] /\ vpass'[s].at = "settle"
        /\ vpass'[s].rev = vpass[s].rev
        /\ \A o \in Servers \ {s} : vpass'[o] = vpass[o]
    BY <1>0, <2>2, <2>3
  <2>6. /\ vol' \in VolRecords /\ vol'.size = vol.size /\ vol'.rev = vol.rev
        /\ vol'.removed = vol.removed /\ vol'.pin = vol.pin /\ vol'.dirEnsured = vol.dirEnsured
        /\ vol'.phase = vol.phase
        /\ vol'.reserved = vol.reserved \/ (vol'.reserved = 0 /\ Settled(vol, place', att))
    BY <1>0, <1>3, ReleasedIs
  <2>7. Types'
    BY <1>1, <2>4, <2>5, <2>6 DEF Types
  <2>8. Exists' /\ Placed(s)' /\ place'[s] # NoPlacement
    BY <1>0, <2>4, <2>6, Blank DEF Exists, Placed
  <2>9. StepAt(s)
    BY <1>0, <1>1, <2>4, <2>5, <2>6, <2>8 DEF StepAt, Elsewhere, SameAt, Live
  <2>10. Agrees(s)'
    BY <1>0, <1>1, <2>5, <2>8 DEF Agrees, Placed, Working, Resizing, Sites, shared
  <2>11. \A o \in Servers \ {s} : ReservationStays(o)
    <3>1. ASSUME NEW o \in Servers \ {s}, Settled(vol, place', att), Placed(o)
          PROVE  CaughtUp(vol, place, att, o)
      <4>1. place'[o] = place[o] /\ place[o] # NoPlacement
        BY <2>4, <3>1, PlacedIs DEF RowsAgree
      <4>2. CaughtUp(vol, place', att, o)
        BY <3>1, <4>1 DEF Settled
      <4>3. QED
        BY <4>1, <4>2 DEF CaughtUp
    <3>2. QED
      BY <2>6, <3>1 DEF ReservationStays
  <2>12. ASSUME Holds(s)
         PROVE  Holds(s)'
    <3> USE Numbers, NumbersNext
    <3>1. shared' = shared /\ Committed(vol)' = Committed(vol')
      BY <1>1 DEF shared, Committed
    <3>2. CaughtUp(vol', place', att', s) => att[s] = "none" /\ catalog[s] <= 0
      <4>1. CaughtUp(vol', place', att', s) => att[s] = "none"
        BY <1>0, <1>1, <2>4 DEF CaughtUp, shared
      <4>2. place[s].state # "present" /\ vpass[s].at # "record"
        BY <1>0, <1>3, <2>12 DEF Holds, VHolds
      <4>3. att[s] = "none" => cpass[s].at # "mark"
        BY <1>0 DEF Agrees
      <4>4. QED
        BY <1>0, <2>12, <4>1, <4>2, <4>3 DEF Holds, Covers
    <3>3. /\ Committed(vol') \in Nat /\ Committed(vol') >= vol'.size /\ vol'.size \in Nat
          /\ Committed(vol') = Committed(vol) \/ CaughtUp(vol', place', att', s)
      <4>1. vol'.reserved = vol.reserved => Committed(vol') = Committed(vol)
        BY <2>6 DEF Committed
      <4>2. Settled(vol, place', att) => CaughtUp(vol', place', att', s)
        BY <1>1, <2>6, <2>8 DEF Settled, CaughtUp
      <4>3. QED
        BY <2>6, <2>7, <4>1, <4>2, CommittedIs
    <3>4. catalog[s] <= Committed(vol')
      BY <2>12, <3>2, <3>3 DEF Holds, Covers
    <3>5. CaughtUp(vol, place, att, s)' = CaughtUp(vol', place', att', s)
      BY <3>1 DEF CaughtUp
    <3>6. place[s].state # "present" /\ vpass[s].rev <= vol.rev
      BY <1>0, <1>3, <2>12 DEF Holds, VHolds, Working
    <3>7. Covers(s)'
      BY <1>0, <1>1, <2>4, <2>5, <2>6, <2>7, <2>8, <2>12, <3>1, <3>2, <3>3, <3>4, <3>5, <3>6
         DEF Holds, Covers
    <3>8. VHolds(s)'
      BY <1>0, <2>4, <2>5, <2>6, <2>12, <3>6 DEF Holds, VHolds, Working, Resizing
    <3>9. CHolds(s)'
      BY <1>0, <1>1, <2>12, <3>1, <3>2, <3>3 DEF Holds, CHolds, Agrees
    <3>10. QED
      BY <3>7, <3>8, <3>9 DEF Holds
  <2>13. QED
    BY <1>0, <2>6, <2>7, <2>9, <2>10, <2>11, <2>12, AtOneServer DEF RowAgrees
<1>4. QED
  BY <1>2, <1>3 DEF VMissing

-----------------------------------------------------------------------------
(***************************************************************************)
(* The full scan                                                           *)
(***************************************************************************)

\* Converge keeps the invariant, a destroy under way or not: a catalog it adopts
\* has no size.
LEMMA ConvergeKeeps ==
    ASSUME VInv, NEW s \in Servers, Converge(s)
    PROVE  VInv' /\ RowGoesLast
<1> USE DEF VInv
<1>0. /\ Agrees(s) /\ RowAgrees /\ Exists /\ s \in Sites /\ vol \in VolRecords
      /\ events <= events
  BY Numbers DEF Converge, RowsAgree, RowAgrees, Exists, Types
<1>1. /\ kind' = kind /\ att' = att /\ failed' = failed /\ drive' = drive
      /\ catalog' = catalog /\ device' = device /\ online' = online /\ dir' = dir
      /\ late' = late /\ excused' = excused /\ events' = events /\ cpass' = cpass
      /\ dpass' = dpass /\ vpass' = vpass
  BY DEF Converge, incus, world, passes
<1>2. \/ place' = place
      \/ place' = Upserted(place, s) /\ shared /\ place[s] = NoPlacement
  BY DEF Converge
<1>3. /\ place' \in [Servers -> Placements]
      /\ \A o \in Servers \ {s} : place'[o] = place[o]
      /\ \/ place'[s] = place[s]
         \/ ~Placed(s) /\ place'[s].state = "ensuring" /\ place'[s].obs = 0
  BY <1>0, <1>2, UpsertedIs, PlacedIs DEF Types
<1>4. /\ vol' \in VolRecords /\ vol'.size = vol.size /\ vol'.rev = vol.rev
      /\ vol'.removed = vol.removed /\ vol'.pin = vol.pin /\ vol'.dirEnsured = vol.dirEnsured
      /\ vol'.phase = vol.phase
      /\ vol'.reserved = vol.reserved \/ (vol'.reserved = 0 /\ Settled(vol, place, att))
  BY <1>0, ReleasedIs DEF Converge, ReleasedByScan
<1>5. Types'
  <2>1. intent' \in [Servers -> Revs]
    BY <1>0 DEF Converge, Types, VolRecords
  <2>2. destroy' \in BOOLEAN
    BY DEF Converge, Types
  <2>3. QED
    BY <1>1, <1>3, <1>4, <2>1, <2>2 DEF Types
<1>6. /\ \A o \in Servers : Placed(o) => Placed(o)'
      /\ \A o \in Servers : Placed(o)' => Placed(o) \/ o = s
      /\ Exists' = Exists /\ Live' = Live /\ shared' = shared /\ Sites' = Sites
  BY <1>1, <1>3, <1>4 DEF Placed, Exists, Live, shared, Sites
<1>7. RowsAgree'
  <2>1. RowAgrees'
    BY <1>0, <1>1, <1>4, <1>6 DEF RowAgrees, Exists
  <2>2. ASSUME NEW o \in Servers
        PROVE  Agrees(o)'
    <3>1. Agrees(o) /\ (~Placed(o)' => place'[o] = NoPlacement)
      BY <1>0, <1>3 DEF RowsAgree, Agrees, Placed
    <3>2. QED
      BY <1>0, <1>1, <1>6, <3>1 DEF Agrees, Working, Resizing
  <2>3. QED
    BY <2>1, <2>2 DEF RowsAgree
<1>8. Destroying'
  BY <1>1, <1>4 DEF Destroying, Nothing
<1>9. Accounted'
  <2>1. SUFFICES ASSUME Live', excused' = {}, NEW o \in Servers
                 PROVE  Holds(o)'
    BY DEF Accounted
  <2>2. Holds(o) /\ Agrees(o)
    BY <1>1, <1>6, <2>1 DEF Accounted, RowsAgree
  <2>3. ReservationStays(o)
    BY <1>4, <2>2, SettledIs DEF ReservationStays
  <2>4. CASE place'[o] = place[o]
    BY <1>1, <1>4, <1>5, <2>2, <2>3, <2>4, HoldsElsewhere DEF SameAt
  <2>5. CASE /\ o = s /\ ~Placed(s) /\ place'[s].state = "ensuring" /\ place'[s].obs = 0
    <3> USE Numbers, NumbersNext
    <3>1. /\ catalog[s] <= 0 /\ cpass[s].at = "idle" /\ vpass[s].at = "idle"
      BY <2>2, <2>5 DEF Holds, Covers, Agrees, Working
    <3>2. ~CaughtUp(vol, place, att, s)'
      BY <1>0, <1>4, <2>5 DEF CaughtUp, RowAgrees
    <3>3. Committed(vol') \in Nat /\ Committed(vol)' = Committed(vol')
      BY <1>4, CommittedIs DEF Committed
    <3>4. Covers(s)'
      BY <1>0, <1>1, <1>4, <1>5, <2>5, <3>1, <3>2, <3>3 DEF Covers, Placed, RowAgrees
    <3>5. VHolds(s)' /\ CHolds(s)'
      BY <1>1, <3>1 DEF VHolds, CHolds, Working, Resizing
    <3>6. QED
      BY <2>5, <3>4, <3>5 DEF Holds
  <2>6. QED
    BY <1>3, <2>4, <2>5
<1>10. DataTracked'
  <2>1. Tracked => Tracked'
    BY <1>0, <1>1, <1>4, <1>6, Ranges DEF Tracked
  <2>2. QED
    BY <1>1, <2>1 DEF DataTracked
<1>11. LocalDestroy'
  BY <1>1, <1>4 DEF LocalDestroy, shared
<1>12. RowGoesLast
  BY <1>0, <1>6, Blank DEF RowGoesLast, Exists
<1>13. QED
  BY <1>5, <1>7, <1>8, <1>9, <1>10, <1>11, <1>12

\* The removal of an orphan keeps the invariant: there is no row.
LEMMA OrphanDeletedKeeps ==
    ASSUME VInv, NEW s \in Servers, OrphanDeleted(s)
    PROVE  VInv' /\ RowGoesLast
<1> USE DEF VInv
<1>1. /\ kind' = kind /\ vol' = vol /\ place' = place /\ att' = att /\ late' = late
      /\ vpass' = vpass /\ cpass' = cpass /\ dpass' = dpass /\ excused' = excused
      /\ events' = events /\ dir' = FALSE /\ vol = Gone /\ vol.phase = "gone"
  BY Blank DEF OrphanDeleted, DeleteCatalog, rows, queue, world, passes
<1>2. Types'
  <2>1. catalog' \in [Servers -> CatalogSizes]
    BY Ranges DEF OrphanDeleted, DeleteCatalog, Types
  <2>2. QED
    BY <2>1 DEF OrphanDeleted, DeleteCatalog, rows, queue, world, passes, Types
<1>3. RowsAgree'
  BY <1>1 DEF RowsAgree, RowAgrees, Agrees, Placed, Working, Resizing, Sites, shared, Exists
<1>4. Destroying'
  BY <1>1 DEF Destroying, Nothing
<1>5. Accounted'
  BY <1>1 DEF Accounted, Live
<1>6. DataTracked'
  BY <1>1 DEF DataTracked, Tracked, Exists
<1>7. LocalDestroy'
  BY <1>1 DEF LocalDestroy, shared
<1>8. RowGoesLast
  BY <1>1 DEF RowGoesLast
<1>9. QED
  BY <1>2, <1>3, <1>4, <1>5, <1>6, <1>7, <1>8

-----------------------------------------------------------------------------
(***************************************************************************)
(* Faults                                                                  *)
(***************************************************************************)

\* With a pass cut off the rows still agree, and the destroy has the volume to
\* itself; sizes and data are no longer accounted for.
LEMMA CutOffKeeps ==
    ASSUME VInv, Types', kind' = kind, vol' = vol, place' = place, att' = att,
           excused \subseteq excused', "crash" \in excused', events <= events',
           \A s \in Servers : vpass'[s] = vpass[s] \/ vpass'[s].at = "idle",
           \A s \in Servers : cpass'[s] = cpass[s] \/ cpass'[s].at = "idle",
           dpass' = dpass \/ dpass' = IdleD
    PROVE  VInv' /\ RowGoesLast
<1> USE DEF VInv
<1>1. RowsAgree'
  <2>1. RowAgrees'
    BY Ranges, Numbers DEF RowsAgree, RowAgrees, Exists, Types
  <2>2. ASSUME NEW s \in Servers
        PROVE  Agrees(s)'
    <3>1. Agrees(s)
      BY DEF RowsAgree
    <3>2. QED
      BY <3>1 DEF Agrees, Placed, Working, Resizing, Sites, shared, Exists
  <2>3. QED
    BY <2>1, <2>2 DEF RowsAgree
<1>2. Destroying'
  <2>1. Nothing => Nothing'
    BY DEF Nothing
  <2>2. QED
    BY <2>1, Blank DEF Destroying
<1>3. Accounted' /\ DataTracked'
  BY DEF Accounted, DataTracked
<1>4. LocalDestroy'
  BY Blank DEF LocalDestroy, shared
<1>5. RowGoesLast
  BY DEF RowGoesLast
<1>6. QED
  BY <1>1, <1>2, <1>3, <1>4, <1>5

\* Crashes and what lands after them keep the invariant.
LEMMA CrashesKeep ==
    ASSUME VInv, NEW s \in Servers,
           CrashContainerPass(s) \/ CrashVolumePass(s) \/ CrashDestroy \/ LatePost(s)
    PROVE  VInv' /\ RowGoesLast
<1> USE DEF VInv
<1>0. events \in Nat /\ vpass \in [Servers -> VPasses] /\ late \in [Servers -> Sizes]
      /\ catalog \in [Servers -> CatalogSizes] /\ vpass[s].size \in Sizes
      /\ cpass[s].size \in Sizes /\ events \in 0..MaxEvents
  BY Numbers DEF Types, VPasses, CPasses
<1>1. CASE CrashContainerPass(s)
  <2>1. late' \in [Servers -> Sizes]
    BY <1>0, <1>1 DEF CrashContainerPass
  <2>2. events' \in 0..MaxEvents /\ events <= events'
    BY <1>0, <1>1, VolumeConstants DEF CrashContainerPass, Happens
  <2>3. CRetry(s)
    BY <1>1 DEF CrashContainerPass
  <2>4. Types'
    BY <1>1, <2>1, <2>2, <2>3, CRetryIs DEF CrashContainerPass, Types, rows, incus
  <2>5. \A o \in Servers : cpass'[o] = cpass[o] \/ cpass'[o].at = "idle"
    BY <2>3, CRetryIs
  <2>6. QED
    BY <1>1, <2>2, <2>4, <2>5, CutOffKeeps DEF CrashContainerPass, rows
<1>2. CASE CrashVolumePass(s)
  <2>1. late' \in [Servers -> Sizes]
    BY <1>0, <1>2 DEF CrashVolumePass
  <2>2. events' \in 0..MaxEvents /\ events <= events'
    BY <1>0, <1>2, VolumeConstants DEF CrashVolumePass, Happens
  <2>3. /\ vpass' \in [Servers -> VPasses]
        /\ \A o \in Servers : vpass'[o] = vpass[o] \/ vpass'[o].at = "idle"
    BY <1>0, <1>2, Blank DEF CrashVolumePass
  <2>4. Types'
    BY <1>2, <2>1, <2>2, <2>3 DEF CrashVolumePass, Types, rows, queue, incus
  <2>5. QED
    BY <1>2, <2>2, <2>3, <2>4, CutOffKeeps DEF CrashVolumePass, rows
<1>3. CASE CrashDestroy
  <2>1. events' \in 0..MaxEvents /\ events <= events'
    BY <1>0, <1>3, VolumeConstants DEF CrashDestroy, Happens
  <2>2. Types'
    BY <1>3, <2>1, Blank DEF CrashDestroy, Types, rows, queue, incus
  <2>3. QED
    BY <1>3, <2>1, <2>2, CutOffKeeps DEF CrashDestroy, rows
<1>4. CASE LatePost(s)
  <2>1. "crash" \in excused
    BY <1>4 DEF LatePost, RowsAgree, Agrees
  <2>2. late[s] \in CatalogSizes /\ 0 \in Sizes
    BY <1>0, Ranges
  <2>3. catalog' \in [Servers -> CatalogSizes] /\ late' \in [Servers -> Sizes]
    BY <1>0, <1>4, <2>2 DEF LatePost, PostCatalog
  <2>4. Types'
    BY <1>4, <2>3 DEF LatePost, PostCatalog, Types, rows, queue, passes
  <2>5. QED
    BY <1>0, <1>4, <2>1, <2>4, CutOffKeeps DEF LatePost, rows, passes
<1>5. QED
  BY <1>1, <1>2, <1>3, <1>4

\* Outages, and the passes that give up on them, keep the invariant.
LEMMA OutagesKeep ==
    ASSUME VInv, NEW s \in Servers, Outage(s) \/ Return(s) \/ GiveUp(s)
    PROVE  VInv' /\ RowGoesLast
<1> USE DEF VInv
<1>0. events \in Nat /\ events \in 0..MaxEvents /\ Agrees(s)
      /\ vpass \in [Servers -> VPasses] /\ cpass \in [Servers -> CPasses]
  BY Numbers DEF Types, RowsAgree
<1>1. CASE Outage(s)
  <2>1. events' \in 0..MaxEvents /\ events <= events'
    BY <1>0, <1>1, VolumeConstants DEF Outage, Happens
  <2>2. Types'
    BY <1>1, <2>1 DEF Outage, Types, rows, queue, incus, passes
  <2>3. Apart
    BY <1>1, <2>1 DEF Outage, Apart, rows, queue, incus, passes
  <2>4. QED
    BY <2>2, <2>3, ApartFromAll
<1>2. CASE Return(s)
  <2>1. Types'
    BY <1>2 DEF Return, Types, rows, queue, incus, passes
  <2>2. Apart
    BY <1>0, <1>2 DEF Return, Apart, rows, queue, incus, passes
  <2>3. QED
    BY <2>1, <2>2, ApartFromAll
<1>3. CASE GiveUp(s) /\ vpass[s].at \in {"get", "align", "put"}
           /\ vpass' = [vpass EXCEPT ![s] = IdleV] /\ UNCHANGED <<cpass, drive>>
  <2>1. vpass' \in [Servers -> VPasses]
    BY <1>0, <1>3, Blank
  <2>2. Types'
    BY <1>3, <2>1 DEF GiveUp, Types, rows, incus, world
  <2>3. VEnds(s)
    BY <1>3 DEF GiveUp, VEnds, rows, incus, world
  <2>4. QED
    BY <2>2, <2>3, VEndsKeeps
<1>4. CASE GiveUp(s) /\ cpass[s].at \in {"ensure", "plug"} /\ CRetry(s) /\ UNCHANGED vpass
  <2>1. Types'
    BY <1>4, CRetryIs DEF GiveUp, Types, rows, incus, world
  <2>2. att[s] # "none"
    BY <1>0, <1>4 DEF Agrees
  <2>3. CMoves(s)
    BY <1>0, <1>4, <2>2, CRetryIs DEF GiveUp, CMoves, rows, incus, world
  <2>4. QED
    BY <2>1, <2>3, CMovesKeeps
<1>5. QED
  BY <1>1, <1>2, <1>3, <1>4 DEF GiveUp

\* An import keeps the invariant: it has no size, and there was no catalog.
LEMMA RecoverKeeps ==
    ASSUME VInv, NEW s \in Servers, Recover(s)
    PROVE  VInv' /\ RowGoesLast
<1> USE DEF VInv
<1>1. /\ kind' = kind /\ vol' = vol /\ place' = place /\ att' = att /\ late' = late
      /\ vpass' = vpass /\ cpass' = cpass /\ dpass' = dpass /\ excused' = excused
      /\ dir' = dir /\ shared /\ catalog[s] = 0
  BY DEF Recover, rows, passes
<1>2. events' \in 0..MaxEvents /\ events' = events + 1 /\ events \in Nat
  BY VolumeConstants, Numbers DEF Recover, Happens, Types
<1>3. /\ catalog' \in [Servers -> CatalogSizes] /\ catalog'[s] = Recovered
      /\ \A o \in Servers \ {s} : catalog'[o] = catalog[o]
  BY Ranges DEF Recover, Types
<1>4. Types'
  BY <1>2, <1>3 DEF Recover, Types, rows, queue, passes
<1>5. RowsAgree'
  <2>1. RowAgrees'
    BY <1>1, <1>2, Numbers, Ranges DEF RowsAgree, RowAgrees, Exists
  <2>2. \A o \in Servers : Agrees(o)'
    BY <1>1 DEF RowsAgree, Agrees, Placed, Working, Resizing, Sites, shared, Exists
  <2>3. QED
    BY <2>1, <2>2 DEF RowsAgree
<1>6. Destroying'
  BY <1>1 DEF Destroying, Nothing
<1>7. Accounted'
  <2>1. SUFFICES ASSUME Live', excused' = {}, NEW o \in Servers
                 PROVE  Holds(o)'
    BY DEF Accounted
  <2>2. Holds(o) /\ Agrees(o)
    BY <1>1, <2>1 DEF Accounted, RowsAgree, Live
  <2>3. CASE o # s
    <3>1. SameAt(o) /\ ReservationStays(o)
      BY <1>1, <1>3, <2>3 DEF SameAt, ReservationStays
    <3>2. QED
      BY <1>1, <1>4, <2>2, <3>1, HoldsElsewhere
  <2>4. CASE o = s
    <3> USE Numbers
    <3>1. /\ shared' = shared /\ Committed(vol)' = Committed(vol) /\ Placed(s)' = Placed(s)
          /\ CaughtUp(vol, place, att, s)' = CaughtUp(vol, place, att, s)
          /\ vol \in VolRecords
      BY <1>1 DEF shared, Committed, Placed, CaughtUp, Types
    <3>2. Committed(vol) \in Nat
      BY <3>1, CommittedIs
    <3>3. Covers(s)'
      BY <1>1, <1>3, <2>2, <2>4, <3>1, <3>2 DEF Holds, Covers, Recovered
    <3>4. VHolds(s)' /\ CHolds(s)'
      BY <1>1, <1>3, <2>2, <2>4, <3>1 DEF Holds, VHolds, CHolds, Working, Resizing, Recovered
    <3>5. QED
      BY <2>4, <3>3, <3>4 DEF Holds
  <2>5. QED
    BY <2>3, <2>4
<1>8. DataTracked'
  <2>1. Tracked => Tracked'
    BY <1>1 DEF Tracked, Placed, Live, Exists, shared
  <2>2. QED
    BY <1>1, <2>1 DEF DataTracked
<1>9. LocalDestroy'
  BY <1>1 DEF LocalDestroy, shared
<1>10. RowGoesLast
  BY <1>1 DEF RowGoesLast
<1>11. QED
  BY <1>4, <1>5, <1>6, <1>7, <1>8, <1>9, <1>10

-----------------------------------------------------------------------------
(***************************************************************************)
(* The destroy                                                             *)
(***************************************************************************)

\* A step of the destroy: the volume is its own, and data goes before the mark
\* that it is gone.
DestroyStep ==
    /\ kind' = kind /\ att' = att /\ vpass' = vpass /\ cpass' = cpass /\ late' = late
    /\ excused' = excused /\ events' = events
    /\ \A s \in Servers : place'[s] = place[s] \/ place'[s] = NoPlacement
    /\ vol.phase = "deleting" /\ Nothing
    /\ vol'.phase = "deleting" /\ vol'.size = vol.size /\ vol'.rev = vol.rev
    /\ vol'.dirEnsured = vol.dirEnsured
    /\ dpass'.at # "idle" => dpass'.ensured = vol.dirEnsured
    /\ dpass'.at = "remove" => dpass'.exec \in Servers
    /\ ~shared => /\ vol'.pin \in {Home, NoSize} /\ dpass'.exec \in {Home, NoSize}
                  /\ dpass'.catalogs \subseteq {Home}
    /\ "crash" \notin excused =>
         /\ dpass'.at \in Removing \/ vol'.removed => ~dir'
         /\ dir' => dir /\ catalog' = catalog
         /\ ~shared /\ dpass'.at \in {"choose", "remove"} => Home \in dpass'.catalogs \cap dpass'.up
         /\ ~shared /\ dpass'.at # "finish" => Placed(Home)'

\* Such a step keeps the invariant.
LEMMA DestroyStepKeeps ==
    ASSUME VInv, Types', DestroyStep
    PROVE  VInv' /\ RowGoesLast
<1> USE DEF VInv
<1>1. /\ kind' = kind /\ att' = att /\ vpass' = vpass /\ cpass' = cpass /\ late' = late
      /\ excused' = excused /\ events' = events /\ Nothing
      /\ vol.phase = "deleting" /\ vol'.phase = "deleting" /\ vol'.size = vol.size
      /\ vol'.rev = vol.rev /\ vol'.dirEnsured = vol.dirEnsured
      /\ shared' = shared /\ Exists /\ Exists' /\ ~Live'
  BY DEF DestroyStep, shared, Exists, Live
<1>2. \A s \in Servers : att[s] = "none" /\ vpass[s].at = "idle" /\ cpass[s].at = "idle"
  BY <1>1 DEF Nothing, RowsAgree, Agrees
<1>3. RowsAgree'
  <2>1. RowAgrees'
    BY <1>1 DEF RowsAgree, RowAgrees, Exists
  <2>2. ASSUME NEW s \in Servers
        PROVE  Agrees(s)'
    <3>1. Agrees(s) /\ (place'[s] = place[s] \/ place'[s] = NoPlacement)
      BY DEF RowsAgree, DestroyStep
    <3>2. QED
      BY <1>1, <1>2, <3>1, Blank DEF Agrees, Placed, Working, Resizing, Sites, shared
  <2>3. QED
    BY <2>1, <2>2 DEF RowsAgree
<1>4. Destroying'
  BY <1>1, <1>2 DEF DestroyStep, Destroying, Nothing
<1>5. Accounted'
  BY <1>1 DEF Accounted
<1>6. DataTracked'
  <2>1. SUFFICES ASSUME "crash" \notin excused
                 PROVE  Tracked'
    BY <1>1 DEF DataTracked
  <2>2. Tracked
    BY <2>1 DEF DataTracked
  <2>3. /\ dir' => dir /\ catalog' = catalog
        /\ dpass'.at \in Removing \/ vol'.removed => ~dir'
        /\ ~shared /\ dpass'.at # "finish" => Placed(Home)'
    BY <2>1 DEF DestroyStep
  <2>4. dir /\ shared => vol.dirEnsured
    BY <1>1, <1>2, <2>2 DEF Tracked
  <2>5. QED
    BY <1>1, <2>2, <2>3, <2>4 DEF Tracked
<1>7. LocalDestroy'
  BY <1>1 DEF DestroyStep, LocalDestroy
<1>8. RowGoesLast
  BY <1>1, Blank DEF RowGoesLast, Exists
<1>9. QED
  BY <1>3, <1>4, <1>5, <1>6, <1>7, <1>8

\* What the destroy under way may rely on.
LEMMA DestroyIs ==
    ASSUME VInv, vol.phase = "deleting", Nothing
    PROVE  /\ vol \in VolRecords /\ dpass \in DPasses /\ Home \in Servers
           /\ "crash" \notin excused =>
                /\ dir /\ ~shared => catalog[Home] # 0
                /\ dir /\ shared => vol.dirEnsured
                /\ dpass.at \in Removing \/ vol.removed => ~dir
                /\ ~shared /\ dpass.at # "finish" => Placed(Home)
<1> USE DEF VInv
<1>1. \A s \in Servers : cpass[s].at = "idle"
  BY DEF Nothing, RowsAgree, Agrees
<1>2. QED
  BY <1>1, Ranges DEF DataTracked, Tracked, Types, Exists

\* The start of a destroy keeps the invariant: without a record of data there is
\* none.
LEMMA DStartKeeps ==
    ASSUME VInv, DStart
    PROVE  VInv' /\ RowGoesLast
<1> USE DEF VInv
<1>0. vol.phase = "deleting" /\ Nothing /\ dpass.at = "idle" /\ Exists
  BY DEF DStart, Quiet, Nothing, Exists
<1>1. /\ kind' = kind /\ vol' = vol /\ place' = place /\ att' = att /\ late' = late
      /\ vpass' = vpass /\ cpass' = cpass /\ excused' = excused /\ events' = events
      /\ catalog' = catalog /\ dir' = dir
  BY DEF DStart, rows, incus, world
<1> DEFINE catalogs == {s \in Servers : place[s] # NoPlacement}
           start == [IdleD EXCEPT !.catalogs = catalogs, !.up = online, !.ensured = vol.dirEnsured]
<1>2. /\ start \in DPasses /\ start.catalogs = catalogs /\ start.up = online
      /\ start.ensured = vol.dirEnsured /\ start.exec = NoSize
  BY <1>0, Blank DEF DPasses, Types, VolRecords
<1>3. \/ ~vol.dirEnsured /\ catalogs = {} /\ dpass' = [start EXCEPT !.at = "finish"]
      \/ /\ Sites \cap online # {}
         /\ dpass' = [start EXCEPT !.at = IF vol.removed THEN "purge" ELSE "choose"]
  BY DEF DStart
<1> HIDE DEF start
<1>4. /\ dpass' \in DPasses /\ dpass'.catalogs = catalogs /\ dpass'.up = online
      /\ dpass'.ensured = vol.dirEnsured /\ dpass'.exec = NoSize
      /\ \/ ~vol.dirEnsured /\ catalogs = {} /\ dpass'.at = "finish"
         \/ Sites \cap online # {} /\ vol.removed /\ dpass'.at = "purge"
         \/ Sites \cap online # {} /\ dpass'.at = "choose"
  BY <1>2, <1>3 DEF DPasses, DSteps
<1>5. \A s \in Servers : s \in catalogs <=> Placed(s)
  BY PlacedIs DEF RowsAgree
<1> HIDE DEF catalogs
<1>6. Types'
  BY <1>1, <1>4 DEF DStart, Types, queue, incus, world
<1>7. ~shared => catalogs \subseteq {Home} /\ Sites = {Home}
  BY <1>4, <1>5 DEF RowsAgree, Agrees, Sites, DPasses
<1>8. ASSUME "crash" \notin excused
      PROVE  /\ dpass'.at \in Removing \/ vol'.removed => ~dir'
             /\ ~shared /\ dpass'.at \in {"choose", "remove"} =>
                   Home \in dpass'.catalogs \cap dpass'.up
             /\ ~shared => Placed(Home)'
  <2>1. /\ dir /\ shared => vol.dirEnsured
        /\ vol.removed => ~dir
        /\ ~shared => Placed(Home) /\ Home \in catalogs
    BY <1>0, <1>5, <1>8, DestroyIs
  <2>2. QED
    BY <1>1, <1>4, <1>7, <2>1 DEF Removing, Placed
<1>9. DestroyStep
  BY <1>0, <1>1, <1>4, <1>7, <1>8 DEF DestroyStep, LocalDestroy
<1>10. QED
  BY <1>6, <1>9, DestroyStepKeeps

\* What a destroy under way holds.
LEMMA UnderWay ==
    ASSUME VInv, dpass.at # "idle"
    PROVE  /\ vol.phase = "deleting" /\ Nothing /\ dpass.ensured = vol.dirEnsured
           /\ vol \in VolRecords /\ dpass \in DPasses /\ Home \in Servers
           /\ dpass.catalogs \subseteq Servers
  BY DestroyIs DEF VInv, Destroying, DPasses

\* A destroy that is put aside keeps the invariant.
LEMMA DRetryKeeps ==
    ASSUME VInv, DRetry, dpass.at \notin {"idle", "finish"},
           UNCHANGED <<kind, place, att, queue, world, vpass, cpass>>
    PROVE  VInv' /\ RowGoesLast
<1> USE DEF VInv
<1>1. Types'
  BY Blank DEF DRetry, Types, queue, incus, world
<1>2. DestroyStep
  BY UnderWay, DestroyIs, Blank
     DEF DestroyStep, DRetry, incus, world, queue, LocalDestroy, Placed, Removing
<1>3. QED
  BY <1>1, <1>2, DestroyStepKeeps

\* An executor that is chosen keeps the invariant, for a local volume its server.
LEMMA DTargetKeeps ==
    ASSUME VInv, dpass.at \in {"choose", "remove"}, NEW s \in Servers, NEW repicked \in BOOLEAN,
           ~shared => s = Home,
           vol' = vol \/ vol' = [vol EXCEPT !.pin = s],
           dpass' = [dpass EXCEPT !.at = "remove", !.exec = s, !.repicked = repicked],
           UNCHANGED <<kind, place, att, queue, incus, world, vpass, cpass>>
    PROVE  VInv' /\ RowGoesLast
<1> USE DEF VInv
<1>0. /\ vol.phase = "deleting" /\ Nothing /\ dpass.ensured = vol.dirEnsured
      /\ vol \in VolRecords /\ dpass \in DPasses
  BY UnderWay
<1>1. /\ vol' \in VolRecords /\ vol'.phase = vol.phase /\ vol'.size = vol.size
      /\ vol'.rev = vol.rev /\ vol'.dirEnsured = vol.dirEnsured /\ vol'.removed = vol.removed
      /\ vol'.pin \in {vol.pin, s}
  BY <1>0 DEF VolRecords
<1>2. /\ dpass' \in DPasses /\ dpass'.at = "remove" /\ dpass'.exec = s
      /\ dpass'.catalogs = dpass.catalogs /\ dpass'.up = dpass.up
      /\ dpass'.ensured = dpass.ensured
  BY <1>0 DEF DPasses, DSteps
<1>3. Types'
  BY <1>1, <1>2 DEF Types, queue, incus, world
<1>4. DestroyStep
  BY <1>0, <1>1, <1>2, DestroyIs DEF DestroyStep, incus, world, LocalDestroy, Placed, Removing
<1>5. QED
  BY <1>3, <1>4, DestroyStepKeeps

\* A destroy that finds its data gone, or removes it, keeps the invariant.
LEMMA DGoneKeeps ==
    ASSUME VInv, Types', dpass.at \in {"choose", "remove", "purge"},
           "crash" \notin excused => ~dir',
           vol' = vol, dpass'.at \in {"commit", "purge"}, dpass'.exec \in {dpass.exec, NoSize},
           dpass'.catalogs \subseteq dpass.catalogs, dpass'.ensured = dpass.ensured,
           UNCHANGED <<kind, place, att, queue, world, vpass, cpass>>
    PROVE  VInv' /\ RowGoesLast
<1> USE DEF VInv
<1>1. DestroyStep
  BY UnderWay, DestroyIs DEF DestroyStep, world, queue, LocalDestroy, Placed, Removing
<1>2. QED
  BY <1>1, DestroyStepKeeps

\* Asking the catalogs for an executor keeps the invariant: when none of them
\* holds the volume and nothing says its directory exists, there is no data.
LEMMA PickKeeps ==
    ASSUME VInv, dpass.at \in {"choose", "remove"}, NEW repicked \in BOOLEAN, Pick(repicked),
           shared => ~dpass.ensured,
           UNCHANGED <<kind, place, att, queue, world, vpass, cpass>>
    PROVE  VInv' /\ RowGoesLast
<1> USE DEF VInv
<1> DEFINE seen == dpass.catalogs \cap dpass.up
           found == {s \in seen : catalog[s] # 0}
<1>0. /\ vol.phase = "deleting" /\ Nothing /\ dpass.ensured = vol.dirEnsured
      /\ vol \in VolRecords /\ dpass \in DPasses /\ dpass.catalogs \subseteq Servers
  BY UnderWay
<1>1. CASE DRetry
  BY <1>1, DRetryKeeps
<1>2. CASE /\ found = {}
           /\ dpass' = [dpass EXCEPT !.at = "commit", !.exec = NoSize]
           /\ UNCHANGED <<vol, incus>>
  <2>1. /\ dpass' \in DPasses /\ dpass'.at = "commit" /\ dpass'.exec = NoSize
        /\ dpass'.catalogs = dpass.catalogs /\ dpass'.ensured = dpass.ensured
    BY <1>0, <1>2 DEF DPasses, DSteps
  <2>2. Types'
    BY <1>2, <2>1 DEF Types, queue, incus, world
  <2>3. "crash" \notin excused => ~dir'
    <3>1. SUFFICES ASSUME "crash" \notin excused, dir
                   PROVE  FALSE
      BY <1>2 DEF incus
    <3>2. ~shared /\ catalog[Home] # 0
      BY <1>0, <3>1, DestroyIs
    <3>3. Home \in seen
      BY <3>1, <3>2 DEF LocalDestroy
    <3>4. QED
      BY <1>2, <3>2, <3>3
  <2>4. QED
    BY <1>2, <2>1, <2>2, <2>3, DGoneKeeps
<1>3. ASSUME NEW s \in found, vol' = [vol EXCEPT !.pin = s], UNCHANGED incus,
             dpass' = [dpass EXCEPT !.at = "remove", !.exec = s, !.repicked = repicked]
      PROVE  VInv' /\ RowGoesLast
  <2>1. s \in Servers /\ (~shared => s = Home)
    BY <1>0 DEF LocalDestroy
  <2>2. QED
    BY <1>3, <2>1, DTargetKeeps
<1>4. QED
  BY <1>1, <1>2, <1>3 DEF Pick

\* DChoose keeps the invariant.
LEMMA DChooseKeeps ==
    ASSUME VInv, DChoose
    PROVE  VInv' /\ RowGoesLast
<1> USE DEF VInv
<1>0. /\ dpass.at = "choose" /\ dpass \in DPasses /\ dpass.repicked \in BOOLEAN
      /\ UNCHANGED <<kind, place, att, queue, world, vpass, cpass>>
  BY DEF DChoose, Types, DPasses
<1>1. CASE DRetry
  BY <1>0, <1>1, DRetryKeeps
<1>2. CASE /\ vol.pin \in Servers
           /\ dpass' = [dpass EXCEPT !.at = "remove", !.exec = vol.pin]
           /\ UNCHANGED <<vol, incus>>
  <2>1. ~shared => vol.pin = Home
    BY <1>2, VolumeConstants DEF LocalDestroy, NoSize
  <2>2. dpass' = [dpass EXCEPT !.at = "remove", !.exec = vol.pin, !.repicked = dpass.repicked]
    BY <1>0, <1>2 DEF DPasses
  <2>3. QED
    BY <1>0, <1>2, <2>1, <2>2, DTargetKeeps
<1>3. CASE ~dpass.ensured /\ Pick(FALSE)
  BY <1>0, <1>3, PickKeeps
<1>4. ASSUME NEW s \in Sites \cap dpass.up, vol' = [vol EXCEPT !.pin = s], UNCHANGED incus,
             dpass' = [dpass EXCEPT !.at = "remove", !.exec = s]
      PROVE  VInv' /\ RowGoesLast
  <2>1. s \in Servers /\ (~shared => s = Home)
    BY <1>4, Ranges DEF Sites
  <2>2. dpass' = [dpass EXCEPT !.at = "remove", !.exec = s, !.repicked = dpass.repicked]
    BY <1>0, <1>4 DEF DPasses
  <2>3. QED
    BY <1>0, <1>4, <2>1, <2>2, DTargetKeeps
<1>5. QED
  BY <1>1, <1>2, <1>3, <1>4 DEF DChoose

\* DRemove keeps the invariant: a missing local catalog means that the data has
\* gone with it.
LEMMA DRemoveKeeps ==
    ASSUME VInv, DRemove
    PROVE  VInv' /\ RowGoesLast
<1> USE DEF VInv
<1>0. /\ dpass.at = "remove" /\ dpass \in DPasses /\ dpass.exec \in Servers
      /\ UNCHANGED <<kind, place, att, queue, world, vpass, cpass>>
      /\ vol.phase = "deleting" /\ Nothing
  BY UnderWay DEF DRemove, Types, LocalDestroy
<1>1. CASE DRetry
  BY <1>0, <1>1, DRetryKeeps
<1>2. CASE shared /\ ~dpass.ensured /\ Pick(TRUE)
  BY <1>0, <1>2, PickKeeps
<1>3. ASSUME dpass' = [dpass EXCEPT !.at = "commit"], UNCHANGED vol,
             catalog' \in [Servers -> CatalogSizes], dir' \in BOOLEAN, device' = device,
             "crash" \notin excused => ~dir'
      PROVE  VInv' /\ RowGoesLast
  <2>1. /\ dpass' \in DPasses /\ dpass'.at = "commit" /\ dpass'.exec = dpass.exec
        /\ dpass'.catalogs = dpass.catalogs /\ dpass'.ensured = dpass.ensured
    BY <1>0, <1>3 DEF DPasses, DSteps
  <2>2. Types'
    BY <1>0, <1>3, <2>1 DEF Types, queue, world
  <2>3. QED
    BY <1>0, <1>3, <2>1, <2>2, DGoneKeeps
<1>4. CASE /\ DeleteCatalog(dpass.exec) /\ UNCHANGED vol
           /\ dpass' = [dpass EXCEPT !.at = "commit"]
  <2>1. catalog' \in [Servers -> CatalogSizes]
    BY <1>0, <1>4, Ranges DEF DeleteCatalog, Types
  <2>2. QED
    BY <1>3, <1>4, <2>1 DEF DeleteCatalog
<1>5. CASE /\ AnsweredByMissing(dpass.exec) /\ UNCHANGED <<vol, incus>>
           /\ dpass' = [dpass EXCEPT !.at = "commit"]
  <2>1. ~shared /\ dpass.exec = Home /\ catalog[Home] = 0
    BY <1>0, <1>5, VolumeConstants DEF AnsweredByMissing, LocalDestroy, NoSize
  <2>2. "crash" \notin excused => ~dir
    BY <1>0, <2>1, DestroyIs
  <2>3. catalog' \in [Servers -> CatalogSizes] /\ dir' = dir /\ dir' \in BOOLEAN
        /\ device' = device
    BY <1>5 DEF incus, Types
  <2>4. QED
    BY <1>3, <1>5, <2>2, <2>3
<1>6. QED
  BY <1>1, <1>2, <1>4, <1>5 DEF DRemove, AnsweredByMissing

\* DCommit keeps the invariant: the mark follows the removal.
LEMMA DCommitKeeps ==
    ASSUME VInv, DCommit
    PROVE  VInv' /\ RowGoesLast
<1> USE DEF VInv
<1>0. /\ dpass.at = "commit" /\ dpass \in DPasses /\ vol \in VolRecords
      /\ UNCHANGED <<kind, place, att, queue, incus, world, vpass, cpass>>
      /\ vol.phase = "deleting" /\ Nothing /\ dpass.ensured = vol.dirEnsured
  BY UnderWay DEF DCommit
<1>1. vol' = [vol EXCEPT !.removed = TRUE, !.pin = dpass.exec]
      /\ dpass' = [dpass EXCEPT !.at = "purge"]
  BY DEF DCommit
<1>2. /\ vol' \in VolRecords /\ vol'.phase = vol.phase /\ vol'.size = vol.size
      /\ vol'.rev = vol.rev /\ vol'.dirEnsured = vol.dirEnsured /\ vol'.pin = dpass.exec
  BY <1>0, <1>1 DEF VolRecords, DPasses
<1>3. /\ dpass' \in DPasses /\ dpass'.at = "purge" /\ dpass'.exec = dpass.exec
      /\ dpass'.catalogs = dpass.catalogs /\ dpass'.ensured = dpass.ensured
  BY <1>0, <1>1 DEF DPasses, DSteps
<1>4. Types'
  BY <1>0, <1>2, <1>3 DEF Types, queue, incus, world
<1>5. DestroyStep
  BY <1>0, <1>2, <1>3, DestroyIs DEF DestroyStep, incus, world, LocalDestroy, Placed, Removing
<1>6. QED
  BY <1>4, <1>5, DestroyStepKeeps

\* DPurge keeps the invariant: it creates nothing.
LEMMA DPurgeKeeps ==
    ASSUME VInv, DPurge
    PROVE  VInv' /\ RowGoesLast
<1> USE DEF VInv
<1>0. /\ dpass.at = "purge" /\ dpass \in DPasses /\ vol \in VolRecords
      /\ UNCHANGED <<kind, place, att, queue, world, vpass, cpass>>
      /\ vol.phase = "deleting" /\ Nothing /\ dpass.ensured = vol.dirEnsured
      /\ dpass.catalogs \subseteq Servers
      /\ "crash" \notin excused => ~dir
  <2>1. dpass.at = "purge" /\ UNCHANGED <<kind, place, att, queue, world, vpass, cpass>>
    BY DEF DPurge
  <2>2. QED
    BY <2>1, UnderWay, DestroyIs DEF Removing
<1>1. CASE DRetry
  BY <1>0, <1>1, DRetryKeeps
<1>2. CASE dpass' = [dpass EXCEPT !.at = "drop"] /\ UNCHANGED <<vol, incus>>
  <2>1. /\ dpass' \in DPasses /\ dpass'.at = "drop" /\ dpass'.exec = dpass.exec
        /\ dpass'.catalogs = dpass.catalogs /\ dpass'.ensured = dpass.ensured
    BY <1>0, <1>2 DEF DPasses, DSteps
  <2>2. Types'
    BY <1>0, <1>2, <2>1 DEF Types, queue, incus, world
  <2>3. DestroyStep
    BY <1>0, <1>2, <2>1, DestroyIs DEF DestroyStep, incus, world, LocalDestroy, Placed, Removing
  <2>4. QED
    BY <2>2, <2>3, DestroyStepKeeps
<1>3. ASSUME NEW s \in dpass.catalogs \cap dpass.up,
             IF catalog[s] # 0 THEN DeleteCatalog(s) ELSE UNCHANGED incus,
             dpass' = [dpass EXCEPT !.catalogs = @ \ {s}], UNCHANGED vol
      PROVE  VInv' /\ RowGoesLast
  <2>1. /\ dpass' \in DPasses /\ dpass'.at = "purge" /\ dpass'.exec = dpass.exec
        /\ dpass'.catalogs \subseteq dpass.catalogs /\ dpass'.ensured = dpass.ensured
    BY <1>0, <1>3 DEF DPasses
  <2>2. /\ catalog' \in [Servers -> CatalogSizes] /\ dir' \in BOOLEAN /\ device' = device
        /\ dir' => dir
    BY <1>0, <1>3, Ranges DEF DeleteCatalog, incus, Types
  <2>3. Types'
    BY <1>0, <1>3, <2>1, <2>2 DEF Types, queue, world
  <2>4. QED
    BY <1>0, <1>3, <2>1, <2>2, <2>3, DGoneKeeps
<1>4. QED
  BY <1>1, <1>2, <1>3 DEF DPurge

\* DDrop keeps the invariant.
LEMMA DDropKeeps ==
    ASSUME VInv, DDrop
    PROVE  VInv' /\ RowGoesLast
<1> USE DEF VInv
<1>0. /\ dpass.at = "drop" /\ dpass \in DPasses /\ vol \in VolRecords
      /\ UNCHANGED <<kind, vol, att, queue, incus, world, vpass, cpass>>
      /\ vol.phase = "deleting" /\ Nothing /\ dpass.ensured = vol.dirEnsured
      /\ dpass' = [dpass EXCEPT !.at = "finish"]
      /\ place' = [s \in Servers |-> NoPlacement]
  BY UnderWay DEF DDrop
<1>1. /\ dpass' \in DPasses /\ dpass'.at = "finish" /\ dpass'.exec = dpass.exec
      /\ dpass'.catalogs = dpass.catalogs /\ dpass'.ensured = dpass.ensured
  BY <1>0 DEF DPasses, DSteps
<1>2. Types'
  BY <1>0, <1>1, Blank DEF Types, queue, incus, world
<1>3. DestroyStep
  BY <1>0, <1>1, DestroyIs DEF DestroyStep, incus, world, LocalDestroy, Removing
<1>4. QED
  BY <1>2, <1>3, DestroyStepKeeps

\* DFinish keeps the invariant, and drops the row only with the data gone.
LEMMA DFinishKeeps ==
    ASSUME VInv, DFinish
    PROVE  VInv' /\ RowGoesLast
<1> USE DEF VInv
<1>0. /\ dpass.at = "finish" /\ dpass' = IdleD
      /\ UNCHANGED <<kind, place, att, drive, incus, world, vpass, cpass>>
      /\ vol.phase = "deleting" /\ Nothing /\ Home \in Servers
      /\ "crash" \notin excused => ~dir
  <2>1. /\ dpass.at = "finish" /\ dpass' = IdleD
        /\ UNCHANGED <<kind, place, att, drive, incus, world, vpass, cpass>>
    BY DEF DFinish
  <2>2. QED
    BY <2>1, UnderWay, DestroyIs DEF Removing
<1>1. CASE Unplaced /\ DropRow
  <2>1. Types'
    BY <1>0, <1>1, DropRowIs, Blank DEF Types, incus, world
  <2>2. /\ vol' = Gone /\ vol'.phase = "gone" /\ ~vol'.removed /\ vol'.pin = NoSize
        /\ vol'.rev = 0 /\ ~Exists'
    BY <1>1, DropRowIs, Blank DEF Exists
  <2>3. \A s \in Servers : ~Placed(s)
    BY <1>1, PlacedIs DEF Unplaced, RowsAgree
  <2>4. RowsAgree'
    <3>1. RowAgrees'
      BY <1>0, <2>2, Numbers DEF RowAgrees, Exists, world
    <3>2. \A s \in Servers : Agrees(s)'
      BY <1>0, <2>3 DEF RowsAgree, Agrees, Placed, Working, Resizing, Sites, shared, world
    <3>3. QED
      BY <3>1, <3>2 DEF RowsAgree
  <2>5. Destroying'
    BY <1>0, <2>2, Blank DEF Destroying
  <2>6. Accounted'
    BY <2>2 DEF Accounted, Live
  <2>7. DataTracked'
    BY <1>0, <2>2 DEF DataTracked, Tracked, incus, world
  <2>8. LocalDestroy'
    BY <1>0, <2>2, Blank DEF LocalDestroy
  <2>9. RowGoesLast
    BY <1>0 DEF RowGoesLast
  <2>10. QED
    BY <2>1, <2>4, <2>5, <2>6, <2>7, <2>8, <2>9
<1>2. CASE ~Unplaced /\ destroy' = FALSE /\ UNCHANGED <<vol, intent, failed>>
  <2>1. Types'
    BY <1>0, <1>2, Blank DEF Types, incus, world
  <2>2. ~shared => Placed(Home)
    BY <1>0, <1>2, PlacedIs DEF Unplaced, RowsAgree, Agrees, Sites
  <2>3. DestroyStep
    BY <1>0, <1>2, <2>2, Blank DEF DestroyStep, incus, world, LocalDestroy, Removing, Placed
  <2>4. QED
    BY <2>1, <2>3, DestroyStepKeeps
<1>3. QED
  BY <1>1, <1>2 DEF DFinish

-----------------------------------------------------------------------------
(***************************************************************************)
(* The theorems                                                            *)
(***************************************************************************)

\* A volume that has just been created satisfies the invariant.
LEMMA InitKeeps == Init => VInv
<1> SUFFICES ASSUME Init
             PROVE  VInv
  OBVIOUS
<1>1. PICK n \in 1..MaxSize :
         vol = [Gone EXCEPT !.phase = IF shared THEN "active" ELSE "provisioning",
                            !.size = n, !.rev = 1]
  BY DEF Init
<1>2. PICK asked \in (IF shared THEN {{}, {Home}} ELSE {{}}) :
        /\ att = [s \in Servers |-> IF s \in asked THEN "attaching" ELSE "none"]
        /\ drive = asked
        /\ place = [s \in Servers |->
                     IF (~shared /\ s = Home) \/ s \in asked
                     THEN [state |-> "ensuring", obs |-> 0] ELSE NoPlacement]
  BY DEF Init
<1> DEFINE phase == IF shared THEN "active" ELSE "provisioning"
<1>3. phase \in {"active", "provisioning"} /\ n \in Sizes /\ n \in Nat /\ n > 0
      /\ asked \subseteq Servers /\ (~shared => asked = {}) /\ Home \in Servers
  BY Ranges
<1>4. vol = [Gone EXCEPT !.phase = phase, !.size = n, !.rev = 1]
  BY <1>1
<1> HIDE DEF phase
<1>5. /\ vol \in VolRecords /\ vol.phase = phase /\ vol.size = n /\ vol.rev = 1
      /\ vol.reserved = 0 /\ ~vol.removed /\ ~vol.dirEnsured /\ vol.pin = NoSize
  BY <1>3, <1>4, Blank, Ranges DEF VolRecords, Phases
<1>6. [state |-> "ensuring", obs |-> 0] \in Placements
  BY Ranges DEF Placements, PlaceStates
<1>7. /\ place \in [Servers -> Placements] /\ att \in [Servers -> Binds]
      /\ \A s \in Servers :
           IF (~shared /\ s = Home) \/ s \in asked
           THEN place[s].state = "ensuring" /\ place[s].obs = 0
           ELSE place[s] = NoPlacement /\ place[s].state = "none" /\ place[s].obs = 0
      /\ \A s \in Servers : att[s] # "none" => s \in asked
  BY <1>2, <1>6, Blank DEF Binds
<1>8. /\ vpass \in [Servers -> VPasses] /\ cpass \in [Servers -> CPasses] /\ dpass \in DPasses
      /\ \A s \in Servers : vpass[s].at = "idle" /\ cpass[s].at = "idle"
      /\ dpass.at = "idle" /\ dpass.exec = NoSize /\ dpass.catalogs = {}
      /\ late \in [Servers -> Sizes] /\ \A s \in Servers : late[s] = 0 /\ catalog[s] = 0
      /\ catalog \in [Servers -> CatalogSizes] /\ dir = FALSE
      /\ intent \in [Servers -> Revs] /\ excused = {} /\ events = 0 /\ failed \in Sizes
  BY Blank, Ranges DEF Init
<1>9. Types
  <2>1. /\ kind \in Kinds /\ destroy \in BOOLEAN /\ device \subseteq Servers
        /\ online \subseteq Servers /\ drive \subseteq Servers /\ dir \in BOOLEAN
        /\ excused \subseteq {"crash", "retry", "revert"}
    BY <1>2, <1>3, <1>8 DEF Init
  <2>2. events \in 0..MaxEvents
    BY <1>8, VolumeConstants
  <2>3. QED
    BY <1>5, <1>7, <1>8, <2>1, <2>2 DEF Types
<1>10. RowsAgree
  <2>1. RowAgrees
    BY <1>3, <1>5, <1>8 DEF RowAgrees, Exists
  <2>2. \A s \in Servers : Agrees(s)
    BY <1>3, <1>5, <1>7, <1>8 DEF Agrees, Placed, Exists, Sites, Working, Resizing
  <2>3. QED
    BY <2>1, <2>2 DEF RowsAgree
<1>11. Destroying
  BY <1>5, <1>8 DEF Destroying
<1>12. Accounted
  <2>1. SUFFICES ASSUME NEW s \in Servers
                 PROVE  Holds(s)
    BY DEF Accounted
  <2>2. Committed(vol) \in Nat /\ Committed(vol) >= 0
    BY <1>5, CommittedIs
  <2>3. Covers(s)
    BY <1>3, <1>5, <1>7, <1>8, <2>2 DEF Covers, CaughtUp, Placed
  <2>4. VHolds(s) /\ CHolds(s)
    BY <1>8 DEF VHolds, CHolds, Working, Resizing
  <2>5. QED
    BY <2>3, <2>4 DEF Holds
<1>13. DataTracked
  BY <1>3, <1>5, <1>7, <1>8 DEF DataTracked, Tracked, Removing, Placed
<1>14. LocalDestroy
  BY <1>5, <1>8 DEF LocalDestroy
<1>15. QED
  BY <1>9, <1>10, <1>11, <1>12, <1>13, <1>14 DEF VInv

\* Every step keeps the invariant, and drops the row only with the data gone.
LEMMA NextKeeps ==
    ASSUME VInv, Next
    PROVE  VInv' /\ RowGoesLast
<1>h. Home \in Servers
  BY Ranges
<1>1. CASE Request
  <2>1. Happens
    BY <1>1 DEF Request
  <2>2. ASSUME NEW s \in Servers, Attach(s) \/ Detach(s) \/ ContainerGone(s) \/ Retry(s)
        PROVE  VInv' /\ RowGoesLast
    BY <2>1, <2>2, AttachKeeps, DetachKeeps, ContainerGoneKeeps, RetryKeeps
  <2>3. ASSUME NEW n \in 1..MaxSize, Resize(n)
        PROVE  VInv' /\ RowGoesLast
    BY <2>1, <2>3, ResizeKeeps
  <2>4. CASE Delete \/ PurgeVolume
    BY <2>1, <2>4, DestroyAskedKeeps
  <2>5. QED
    BY <1>1, <2>2, <2>3, <2>4 DEF Request
<1>2. ASSUME NEW s \in Servers, CStart(s) \/ CStep(s)
      PROVE  VInv' /\ RowGoesLast
  BY <1>2, CStartKeeps, CEnsureKeeps, CMarkKeeps, CRestKeeps DEF CStep
<1>3. ASSUME NEW s \in Servers, VStart(s) \/ VStep(s)
      PROVE  VInv' /\ RowGoesLast
  BY <1>3, VStartKeeps, VGetKeeps, VMissingKeeps, VAlignKeeps, VPutKeeps, VRecordKeeps, VMarkKeeps,
     VSettleKeeps DEF VStep
<1>4. ASSUME NEW s \in Servers, Converge(s) \/ OrphanDeleted(s)
      PROVE  VInv' /\ RowGoesLast
  BY <1>4, ConvergeKeeps, OrphanDeletedKeeps
<1>5. ASSUME NEW s \in Servers, LatePost(s) \/ Return(s) \/ GiveUp(s) \/ Faulty(s)
      PROVE  VInv' /\ RowGoesLast
  BY <1>5, CrashesKeep, OutagesKeep, RecoverKeeps DEF Faulty
<1>6. CASE DStart \/ DStep
  BY <1>6, DStartKeeps, DChooseKeeps, DRemoveKeeps, DCommitKeeps, DPurgeKeeps, DDropKeeps,
     DFinishKeeps DEF DStep
<1>7. CASE CrashDestroy
  BY <1>h, <1>7, CrashesKeep
<1>8. QED
  BY <1>1, <1>2, <1>3, <1>4, <1>5, <1>6, <1>7 DEF Next

\* A step that changes nothing keeps the invariant.
LEMMA StutterKeeps ==
    ASSUME VInv, UNCHANGED vars
    PROVE  VInv' /\ RowGoesLast
<1>1. Types'
  BY DEF VInv, Types, vars, rows, queue, incus, world, passes
<1>2. Apart
  <2>1. events \in Nat
    BY Ranges, Numbers DEF VInv
  <2>2. QED
    BY <2>1 DEF Apart, vars, rows, queue, incus, world, passes
<1>3. QED
  BY <1>1, <1>2, ApartFromAll

\* The rows, the passes and the catalogs of a volume agree in every reachable
\* state: what works on a server is recorded there, a destroy has the volume to
\* itself, every pass holds a size that the row accounts for, and data is recorded.
THEOREM Inductive == SafetySpec => []VInv
<1>1. Init => VInv
  BY InitKeeps
<1>2. VInv /\ [Next]_vars => VInv'
  BY NextKeeps, StutterKeeps
<1>3. QED
  BY <1>1, <1>2, PTL DEF SafetySpec

\* What a live volume commits covers what every daemon's catalog of it holds,
\* for any number of servers, any sizes and any sequence of resizes: the
\* reservation of a shrink (releaseSettledShrinkReservations) outlives every
\* placement and every pass that may still hold the larger size.
THEOREM SizesAccounted == SafetySpec => []SizesAreSafe
<1>1. VInv => SizesAreSafe
  BY TypesAgree DEF VInv, SizesAreSafe, WithinCommitted, Accounted, Holds, Covers
<1>2. QED
  BY <1>1, Inductive, PTL

\* The row of a destroyed volume goes after its data (finishEmptyTracking): no
\* container pass, executor or catalog brings it back behind the destroy.
THEOREM RowLast == SafetySpec => RowOutlivesData
<1>1. VInv /\ [Next]_vars => [vol # Gone /\ vol' = Gone /\ "crash" \notin excused => ~dir]_vars
  BY NextKeeps DEF RowGoesLast
<1>2. QED
  BY <1>1, Inductive, PTL DEF SafetySpec, RowOutlivesData

\* A destroy that works on a volume has it to itself (hasAnyAttachments and the
\* claim, read once at its start, hold until its end): no attachment, no pass of
\* the volume and no pass of a container on any server.
DestroyAlone ==
    dpass.at # "idle" =>
       \A s \in Servers : att[s] = "none" /\ vpass[s].at = "idle" /\ cpass[s].at = "idle"

\* The destroy reads only its own row again, and need not read more.
THEOREM DestroyHasVolume == SafetySpec => []DestroyAlone
<1>1. VInv => DestroyAlone
  BY DEF VInv, DestroyAlone, Destroying, Nothing, RowsAgree, Agrees
<1>2. QED
  BY <1>1, Inductive, PTL

================================================================================
