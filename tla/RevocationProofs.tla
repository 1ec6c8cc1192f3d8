---------------------------- MODULE RevocationProofs ----------------------------
(***************************************************************************)
(* How access ends, proved for its two halves.                               *)
(*                                                                           *)
(* A user's: AccessLapse, for any number of replicas, pairs, coverage changes *)
(* and faults.  The grace ledger purges only what is due at that moment and   *)
(* drops a running grace only for coverage.  The argument is about the lease. *)
(* A process works on a pair only while it holds the pair's lease, so nobody   *)
(* else opens a lapse of that pair meanwhile; the row of a pair that was found *)
(* due can then only go, never become younger.                                *)
(*                                                                           *)
(* A host's: AgentEnrollment, for any number of hosts, control sockets,       *)
(* tokens, exchanges and faults.  A revoked credential does not keep a         *)
(* connection once the transaction's callback has run, and a token serves      *)
(* once.  The first needs more than the registered socket: every open socket   *)
(* that was confirmed with a credential the row no longer has is still to be   *)
(* disconnected by somebody.  The second rests on the history of the token:    *)
(* the row's token is the one its credential came from exactly while the       *)
(* credential is unused.                                                       *)
(***************************************************************************)
EXTENDS AccessLapse, AgentEnrollment, TLAPS

Lapses == [age : 0..Grace, stopped : BOOLEAN, purged : BOOLEAN]

\* A process between two pairs.
Resting == {"idle", "scan", "pick"}

\* A process works on the pair it leases, and on no other.
Holding ==
    \A p \in Processes :
        /\ at[p] \in Resting <=> on[p] = None
        /\ on[p] # None => claim[on[p]] = p

\* A process that opens a lapse has inspected its pair.
Looked == \A p \in Processes : at[p] = "open" => view[p] \in Candidates

\* On the way to a purge the row the process found due is still as old, or gone.
DueStays ==
    \A p \in Processes :
        at[p] \in {"purge", "unplug", "delete"} => row[on[p]] = None \/ row[on[p]].age = Grace

LInv == TypeOK /\ Holding /\ Looked /\ DueStays

--------------------------------------------------------------------------------
(***************************************************************************)
(* The operators                                                            *)
(***************************************************************************)

\* A ledger row is a lapse or none, and a lapse is not none.
LEMMA RowTypes ==
    /\ Rows = Lapses \cup {None} /\ None \notin Lapses
    /\ \A r \in Rows : r # None => r \in Lapses
BY NoneIsNone DEF Rows, Lapses

\* What a scan or an inspection sees of a pair.
LEMMA CandidateIs ==
    ASSUME TypeOK, NEW k \in Pairs
    PROVE  Candidate(k) \in Candidates /\ Candidate(k).row = row[k]
<1>1. Exposed(k) \in BOOLEAN /\ DestroyBlocked(k) \in BOOLEAN
  BY DEF Exposed, DestroyBlocked
<1>. QED BY <1>1 DEF TypeOK, Candidate, Candidates

\* Every work has its entry in handle(), and only a lapse at the end of its
\* grace is work for a purge.
LEMMA WorkIs ==
    ASSUME NEW k, NEW c \in Candidates
    PROVE  /\ Entry(LapseWork(k, c)) \in Points \ Resting
           /\ Entry(LapseWork(k, c)) \notin {"unplug", "delete"}
           /\ Entry(LapseWork(k, c)) = "purge" => c.row # None /\ c.row.age = Grace
<1>0. c.row \in Rows /\ c.covered \in BOOLEAN /\ c.exposed \in BOOLEAN /\ c.blocked \in BOOLEAN
  BY DEF Candidates
<1>1. LapseWork(k, c) \in {"clear", "lapse", "stop", "purge", "detach", "none"}
  <2>1. CoveredWork(c) \in {"clear", "detach", "none"}
    BY DEF CoveredWork
  <2>2. DueWork(k, c) \in {"purge", "detach", "none"}
    BY DEF DueWork
  <2>3. GraceWork(c) \in {"stop", "none"}
    BY DEF GraceWork
  <2>. QED BY <2>1, <2>2, <2>3 DEF LapseWork
<1>2. ASSUME LapseWork(k, c) = "purge" PROVE c.row # None /\ c.row.age = Grace
  <2>1. CoveredWork(c) # "purge" /\ GraceWork(c) # "purge"
    BY DEF CoveredWork, GraceWork
  <2>2. c.row # None /\ c.row.age >= Grace
    BY <1>0, <1>2, <2>1 DEF LapseWork
  <2>3. c.row.age \in 0..Grace
    BY <1>0, <2>2, RowTypes DEF Lapses
  <2>. QED BY <2>2, <2>3, LapseConstants
<1>. QED BY <1>1, <1>2 DEF Entry, Points, Resting

--------------------------------------------------------------------------------
(***************************************************************************)
(* Types                                                                     *)
(***************************************************************************)

\* A process that works has a pair.
LEMMA WorkingOn ==
    ASSUME TypeOK, Holding, NEW p \in Processes, at[p] \notin Resting
    PROVE  on[p] \in Pairs /\ row[on[p]] \in Rows /\ claim[on[p]] = p
BY DEF TypeOK, Holding

\* Every step keeps the types.
LEMMA TypeStep == ASSUME TypeOK, Holding, Looked, [Next]_vars PROVE TypeOK'
<1>0. NoneIsNone /\ LapseConstants
  BY NoneIsNone, LapseConstants
<1>1. ASSUME NEW p \in Processes, DeleteStale(p) PROVE TypeOK'
  <2>1. row' \in [Pairs -> Rows]
    BY <1>1 DEF DeleteStale, TypeOK, Rows
  <2>. QED BY <1>1, <2>1 DEF DeleteStale, Goto, TypeOK, Points, world
<1>2. ASSUME NEW p \in Processes, Scan(p) PROVE TypeOK'
  BY <1>2 DEF Scan, Goto, TypeOK, Points, world
<1>3. ASSUME NEW p \in Processes, NEW k \in Pairs, Pick(p, k) PROVE TypeOK'
  BY <1>3 DEF Pick, Goto, TypeOK, Points, world
<1>4. ASSUME NEW p \in Processes, PassDone(p) PROVE TypeOK'
  BY <1>4 DEF PassDone, Goto, TypeOK, Points, world
<1>5. ASSUME NEW p \in Processes, Inspect(p) PROVE TypeOK'
  <2>1. on[p] \in Pairs
    BY <1>5, WorkingOn DEF Inspect, Resting
  <2>2. Candidate(on[p]) \in Candidates /\ Entry(LapseWork(on[p], Candidate(on[p]))) \in Points
    BY <2>1, CandidateIs, WorkIs
  <2>3. "release" \in Points
    BY DEF Points
  <2>. QED BY <1>5, <2>2, <2>3 DEF Inspect, Goto, TypeOK, world
<1>6. ASSUME NEW p \in Processes, Clear(p) PROVE TypeOK'
  <2>1. row' \in [Pairs -> Rows]
    BY <1>6 DEF Clear, TypeOK, Rows
  <2>. QED BY <1>6, <2>1 DEF Clear, Goto, TypeOK, Points, world
<1>7. ASSUME NEW p \in Processes, OpenLapse(p) PROVE TypeOK'
  <2>1. on[p] \in Pairs /\ row[on[p]] \in Rows /\ view[p] \in Candidates
    BY <1>7, WorkingOn DEF OpenLapse, Resting, Looked
  <2>. DEFINE opened == IF row[on[p]] = None THEN [age |-> 0, stopped |-> FALSE, purged |-> FALSE]
                        ELSE row[on[p]]
              seen == [view[p] EXCEPT !.row = opened]
  <2>2. opened \in Rows
    BY <1>0, <2>1 DEF Rows, LapseConstants
  <2>3. seen \in Candidates
    BY <2>1, <2>2 DEF Candidates
  <2>4. Entry(LapseWork(on[p], seen)) \in Points /\ "release" \in Points
    BY <2>3, WorkIs DEF Points
  <2>5. CASE covered[on[p]]
    BY <1>7, <2>4, <2>5 DEF OpenLapse, Goto, TypeOK, world
  <2>6. CASE ~covered[on[p]]
    <3>1. /\ row' = [row EXCEPT ![on[p]] = opened] /\ view' = [view EXCEPT ![p] = seen]
          /\ at' = [at EXCEPT ![p] = Entry(LapseWork(on[p], seen))]
          /\ UNCHANGED <<world, claim, todo, on, faults>>
      BY <1>7, <2>6 DEF OpenLapse, Goto
    <3>. HIDE DEF opened, seen
    <3>. QED BY <2>2, <2>3, <2>4, <3>1 DEF TypeOK, world
  <2>. QED BY <2>5, <2>6
<1>8. ASSUME NEW p \in Processes, LookAgain(p) PROVE TypeOK'
  <2>1. PICK point \in Points : at' = [at EXCEPT ![p] = point]
    BY <1>8 DEF LookAgain, Goto, Points
  <2>. QED BY <1>8, <2>1 DEF LookAgain, TypeOK, world
<1>9. ASSUME NEW p \in Processes, Enforce(p) PROVE TypeOK'
  <2>1. PICK point \in Points : at' = [at EXCEPT ![p] = point]
    BY <1>9 DEF Enforce, Goto, Points
  <2>. QED BY <1>9, <2>1 DEF Enforce, TypeOK
<1>10. ASSUME NEW p \in Processes, MarkStopped(p) PROVE TypeOK'
  <2>1. on[p] \in Pairs /\ row[on[p]] \in Rows
    BY <1>10, WorkingOn DEF MarkStopped, Resting
  <2>2. Stopped(row[on[p]]) \in Rows
    BY <2>1 DEF Stopped, Rows
  <2>3. row' = [row EXCEPT ![on[p]] = Stopped(row[on[p]])]
    BY <1>10 DEF MarkStopped
  <2>4. row' \in [Pairs -> Rows]
    BY <2>1, <2>2, <2>3 DEF TypeOK
  <2>. QED BY <1>10, <2>4 DEF MarkStopped, Goto, TypeOK, Points, world
<1>11. ASSUME NEW p \in Processes, Purge(p) PROVE TypeOK'
  <2>1. on[p] \in Pairs /\ row[on[p]] \in Rows
    BY <1>11, WorkingOn DEF Purge, Resting
  <2>2. row' \in [Pairs -> Rows]
    <3>1. CASE Purges(on[p])
      <4>1. row[on[p]] \in Lapses
        BY <2>1, <3>1, RowTypes DEF Purges
      <4>2. [row[on[p]] EXCEPT !.purged = TRUE] \in Rows
        BY <4>1, RowTypes DEF Lapses
      <4>3. row' = [row EXCEPT ![on[p]] = [row[on[p]] EXCEPT !.purged = TRUE]]
        BY <1>11, <3>1 DEF Purge
      <4>. QED BY <2>1, <4>2, <4>3 DEF TypeOK
    <3>2. CASE ~Purges(on[p])
      BY <1>11, <3>2 DEF Purge, TypeOK
    <3>. QED BY <3>1, <3>2
  <2>3. owned' \in [Pairs -> {"live", "deleting", "gone"}] /\ use' \in [Pairs -> {"in", "ending", "out"}]
    BY <1>11, <2>1 DEF Purge, TypeOK
  <2>. QED BY <1>11, <2>2, <2>3 DEF Purge, Goto, TypeOK, Points
<1>12. ASSUME NEW p \in Processes, Release(p) PROVE TypeOK'
  <2>1. on[p] \in Pairs
    BY <1>12, WorkingOn DEF Release, Resting
  <2>. QED BY <1>12, <2>1 DEF Release, Goto, TypeOK, Points, world
<1>13. ASSUME NEW p \in Processes, StepFails(p) \/ Crash(p) PROVE TypeOK'
  BY <1>0, <1>13 DEF StepFails, Crash, Goto, TypeOK, Points, world, LapseConstants
<1>14. ASSUME NEW k \in Pairs, LeaseExpires(k) PROVE TypeOK'
  BY <1>14 DEF LeaseExpires, TypeOK, world, local
<1>15. ASSUME NEW k \in Pairs, CoverageChanges(k) PROVE TypeOK'
  BY <1>0, <1>15 DEF CoverageChanges, TypeOK, local, LapseConstants
<1>16. ASSUME NEW k \in Pairs,
              Create(k) \/ PutToUse(k) \/ EnforcementSucceeds(k) \/ EnforcementFails(k)
                 \/ BackoffPasses(k) \/ Destroyed(k)
       PROVE  TypeOK'
  BY <1>16 DEF Create, PutToUse, EnforcementSucceeds, EnforcementFails, BackoffPasses, Destroyed,
               TypeOK, local
<1>17. CASE Tick
  <2>1. row' \in [Pairs -> Rows]
    <3>1. ASSUME NEW k \in Pairs, row[k] # None, row[k].age # Grace
          PROVE  [row[k] EXCEPT !.age = @ + 1] \in Rows
      <4>1. row[k] \in Lapses
        BY <3>1, RowTypes DEF TypeOK
      <4>2. row[k].age + 1 \in 0..Grace
        BY <1>0, <3>1, <4>1 DEF Lapses, LapseConstants
      <4>. QED BY <4>1, <4>2, RowTypes DEF Lapses
    <3>. QED BY <1>17, <3>1 DEF Tick, TypeOK
  <2>. QED BY <1>17, <2>1 DEF Tick, TypeOK, world, local
<1>18. CASE UNCHANGED vars
  BY <1>18 DEF vars, world, local, TypeOK
<1>. QED BY <1>1, <1>2, <1>3, <1>4, <1>5, <1>6, <1>7, <1>8, <1>9, <1>10, <1>11, <1>12, <1>13, <1>14,
            <1>15, <1>16, <1>17, <1>18 DEF Next, ProcessStep

--------------------------------------------------------------------------------
(***************************************************************************)
(* The lease                                                                 *)
(***************************************************************************)

\* p moves on with its pair, or between pairs.
Moves(p) ==
    /\ on' = on /\ claim' = claim
    /\ \A q \in Processes : q # p => at'[q] = at[q]
    /\ at'[p] \in Points /\ (at'[p] \in Resting <=> at[p] \in Resting)

\* What p opened a lapse with.
Opened(p) ==
    IF row[on[p]] = None THEN [age |-> 0, stopped |-> FALSE, purged |-> FALSE] ELSE row[on[p]]
Seen(p) == [view[p] EXCEPT !.row = Opened(p)]

\* The opened lapse and what follows it.
LEMMA OpenLapseIs ==
    ASSUME TypeOK, Holding, Looked, NEW p \in Processes, OpenLapse(p)
    PROVE  /\ on[p] \in Pairs /\ Opened(p) \in Lapses /\ Seen(p) \in Candidates
           /\ Seen(p).row = Opened(p)
           /\ \/ at'[p] = "release" /\ row' = row /\ view' = view
              \/ /\ row' = [row EXCEPT ![on[p]] = Opened(p)]
                 /\ view' = [view EXCEPT ![p] = Seen(p)]
                 /\ at'[p] = Entry(LapseWork(on[p], Seen(p)))
<1>1. on[p] \in Pairs /\ row[on[p]] \in Rows /\ view[p] \in Candidates
  BY WorkingOn DEF OpenLapse, Resting, Looked
<1>2. Opened(p) \in Lapses
  BY <1>1, LapseConstants, RowTypes DEF Opened, Lapses
<1>3. Seen(p) \in Candidates /\ Seen(p).row = Opened(p)
  <2>. HIDE DEF Opened
  <2>. QED BY <1>1, <1>2, RowTypes DEF Seen, Candidates
<1>4. at \in [Processes -> Points]
  BY DEF TypeOK
<1>5. CASE covered[on[p]]
  BY <1>1, <1>2, <1>3, <1>4, <1>5 DEF OpenLapse, Goto
<1>6. CASE ~covered[on[p]]
  BY <1>1, <1>2, <1>3, <1>4, <1>6 DEF OpenLapse, Goto, Opened, Seen
<1>. QED BY <1>5, <1>6

\* The steps of a process that neither take nor give up a pair.
LEMMA MovesOn ==
    ASSUME TypeOK, Holding, Looked, NEW p \in Processes,
           \/ DeleteStale(p) \/ Scan(p) \/ PassDone(p) \/ Inspect(p) \/ Clear(p) \/ OpenLapse(p)
           \/ LookAgain(p) \/ Enforce(p) \/ MarkStopped(p) \/ Purge(p) \/ StepFails(p)
    PROVE  Moves(p)
<1>0. at \in [Processes -> Points]
  BY DEF TypeOK
<1>1. CASE DeleteStale(p) \/ Scan(p) \/ PassDone(p)
  BY <1>0, <1>1 DEF DeleteStale, Scan, PassDone, Goto, Moves, Points, Resting
<1>2. CASE Inspect(p)
  <2>1. Entry(LapseWork(on[p], Candidate(on[p]))) \in Points \ Resting
    BY <1>2, WorkingOn, CandidateIs, WorkIs DEF Inspect, Resting
  <2>. QED BY <1>0, <1>2, <2>1 DEF Inspect, Goto, Moves, Points, Resting
<1>3. CASE OpenLapse(p)
  <2>1. at'[p] \in Points \ Resting
    BY <1>3, OpenLapseIs, WorkIs DEF Points, Resting
  <2>. QED BY <1>0, <1>3, <2>1 DEF OpenLapse, Goto, Moves, Resting
<1>4. CASE LookAgain(p) \/ Enforce(p)
  <2>1. PICK point \in Points \ Resting : at' = [at EXCEPT ![p] = point]
    BY <1>4 DEF LookAgain, Enforce, Goto, Points, Resting
  <2>. QED BY <1>0, <1>4, <2>1 DEF LookAgain, Enforce, Moves, Points, Resting
<1>5. CASE Clear(p) \/ MarkStopped(p) \/ Purge(p) \/ StepFails(p)
  BY <1>0, <1>5 DEF Clear, MarkStopped, Purge, StepFails, Goto, Moves, Points, Resting
<1>. QED BY <1>1, <1>2, <1>3, <1>4, <1>5

\* The steps of the rest of the system leave processes, leases and rows alone.
Outside ==
    \E k \in Pairs : CoverageChanges(k) \/ Create(k) \/ PutToUse(k) \/ EnforcementSucceeds(k)
                        \/ EnforcementFails(k) \/ BackoffPasses(k) \/ Destroyed(k)

\* What happens outside the processor touches neither ledger, leases nor passes.
LEMMA OutsideIs == Outside => UNCHANGED <<row, claim, at, todo, on, view>>
BY DEF Outside, CoverageChanges, Create, PutToUse, EnforcementSucceeds, EnforcementFails,
       BackoffPasses, Destroyed, local

\* Every step keeps one process per leased pair.
LEMMA HoldingStep == ASSUME TypeOK, Holding, Looked, [Next]_vars PROVE Holding'
<1>0. at \in [Processes -> Points] /\ on \in [Processes -> Pairs \cup {None}] /\ None \notin Pairs
      /\ claim \in [Pairs -> Processes \cup {None}] /\ None \notin Processes
  BY NoneIsNone DEF TypeOK
<1>1. ASSUME NEW p \in Processes, Moves(p) PROVE Holding'
  BY <1>1 DEF Moves, Holding
<1>2. ASSUME NEW p \in Processes, NEW k \in Pairs, Pick(p, k) PROVE Holding'
  <2>1. CASE ~Leasable(p, k)
    BY <1>2, <2>1 DEF Pick, Holding
  <2>2. CASE Leasable(p, k)
    <3>1. \A q \in Processes : on[q] # k
      BY <1>0, <1>2, <2>2 DEF Pick, Leasable, Holding, Resting
    <3>. QED BY <1>0, <1>2, <2>2, <3>1 DEF Pick, Goto, Holding, Resting
  <2>. QED BY <2>1, <2>2
<1>3. ASSUME NEW p \in Processes, Release(p) PROVE Holding'
  <2>1. on[p] \in Pairs /\ claim[on[p]] = p
    BY <1>3, WorkingOn DEF Release, Resting
  <2>2. /\ on' = [on EXCEPT ![p] = None] /\ at' = [at EXCEPT ![p] = "pick"]
        /\ \A k \in Pairs : k # on[p] => claim'[k] = claim[k]
    BY <1>0, <1>3, <2>1 DEF Release, Goto
  <2>3. \A q \in Processes : q # p /\ on[q] # None => on[q] # on[p]
    BY <2>1 DEF Holding
  <2>. QED BY <1>0, <2>1, <2>2, <2>3 DEF Holding, Resting
<1>4. ASSUME NEW p \in Processes, Crash(p) PROVE Holding'
  BY <1>0, <1>4 DEF Crash, Goto, Holding, Resting
<1>5. ASSUME NEW k \in Pairs, LeaseExpires(k) PROVE Holding'
  BY <1>0, <1>5 DEF LeaseExpires, local, Holding
<1>6. Outside \/ Tick \/ UNCHANGED vars => Holding'
  BY OutsideIs DEF Tick, vars, local, Holding
<1>. QED BY <1>1, <1>2, <1>3, <1>4, <1>5, <1>6, MovesOn DEF Next, ProcessStep, Outside

\* Nobody opens a lapse without a look at the pair.
LEMMA LookedStep == ASSUME TypeOK, Holding, Looked, [Next]_vars PROVE Looked'
<1>0. at \in [Processes -> Points] /\ view \in [Processes -> Candidates \cup {None}]
  BY DEF TypeOK
<1>1. ASSUME NEW p \in Processes, at' = [at EXCEPT ![p] = "release"] \/ at'[p] # "open",
             \A q \in Processes : q # p => at'[q] = at[q] /\ view'[q] = view[q]
      PROVE  Looked'
  BY <1>0, <1>1 DEF Looked
<1>2. ASSUME NEW p \in Processes, Inspect(p) PROVE Looked'
  <2>1. Candidate(on[p]) \in Candidates
    BY <1>2, WorkingOn, CandidateIs DEF Inspect, Resting
  <2>. QED BY <1>0, <1>2, <2>1 DEF Inspect, Goto, Looked
<1>3. ASSUME NEW p \in Processes, OpenLapse(p) PROVE Looked'
  <2>1. \A q \in Processes : q # p => at'[q] = at[q]
    BY <1>0, <1>3 DEF OpenLapse, Goto
  <2>2. Seen(p) \in Candidates /\ (at'[p] = "open" => view' = [view EXCEPT ![p] = Seen(p)])
    BY <1>3, OpenLapseIs
  <2>3. \A q \in Processes : q # p => view'[q] = view[q]
    BY <1>0, <1>3, OpenLapseIs
  <2>. QED BY <1>0, <2>1, <2>2, <2>3 DEF Looked
<1>4. ASSUME NEW p \in Processes,
             \/ DeleteStale(p) \/ Scan(p) \/ PassDone(p) \/ Clear(p) \/ LookAgain(p) \/ Enforce(p)
             \/ MarkStopped(p) \/ Purge(p) \/ Release(p) \/ StepFails(p) \/ Crash(p)
      PROVE  Looked'
  <2>1. PICK point : at' = [at EXCEPT ![p] = point] /\ point # "open"
    BY <1>4 DEF DeleteStale, Scan, PassDone, Clear, LookAgain, Enforce, MarkStopped, Purge, Release,
                StepFails, Crash, Goto
  <2>2. \A q \in Processes : q # p => view'[q] = view[q]
    BY <1>0, <1>4 DEF DeleteStale, Scan, PassDone, Clear, LookAgain, Enforce, MarkStopped, Purge,
                Release, StepFails, Crash
  <2>. QED BY <1>0, <1>1, <2>1, <2>2
<1>5. ASSUME NEW p \in Processes, NEW k \in Pairs, Pick(p, k) PROVE Looked'
  BY <1>0, <1>5 DEF Pick, Goto, Looked
<1>6. ASSUME NEW k \in Pairs, LeaseExpires(k) PROVE Looked'
  BY <1>6 DEF LeaseExpires, local, Looked
<1>7. Outside \/ Tick \/ UNCHANGED vars => Looked'
  BY OutsideIs DEF Tick, vars, local, Looked
<1>. QED BY <1>2, <1>3, <1>4, <1>5, <1>6, <1>7 DEF Next, ProcessStep, Outside

--------------------------------------------------------------------------------
(***************************************************************************)
(* The grace                                                                  *)
(***************************************************************************)

\* What a step may do to the ledger row of a pair: keep it, drop it for coverage
\* or because nothing is owned, let it age, open it, mark it stopped or, when
\* uncovered, purged.
LEMMA RowEffects ==
    ASSUME TypeOK, Holding, Looked, [Next]_vars, NEW k \in Pairs
    PROVE  \/ row'[k] = row[k]
           \/ row'[k] = None /\ (covered[k] \/ owned[k] = "gone")
           \/ /\ row[k] # None /\ row'[k] \in Lapses
              /\ row'[k].purged = row[k].purged
              /\ row'[k].age = row[k].age \/ row[k].age # Grace
           \/ row[k] = None /\ \E p \in Processes : OpenLapse(p) /\ on[p] = k
           \/ /\ row[k] # None /\ row'[k] \in Lapses /\ row'[k].age = row[k].age
              /\ ~covered[k] /\ \E p \in Processes : on[p] = k /\ at[p] = "delete"
<1>0. row \in [Pairs -> Rows]
  BY DEF TypeOK
<1>1. ASSUME NEW p \in Processes, DeleteStale(p)
      PROVE  row'[k] = row[k] \/ (row'[k] = None /\ owned[k] = "gone")
  BY <1>1 DEF DeleteStale
<1>2. ASSUME NEW p \in Processes, Clear(p)
      PROVE  row'[k] = row[k] \/ (row'[k] = None /\ covered[k])
  BY <1>0, <1>2 DEF Clear, Clears
<1>3. ASSUME NEW p \in Processes, OpenLapse(p)
      PROVE  row'[k] = row[k] \/ (row[k] = None /\ on[p] = k)
  BY <1>0, <1>3, OpenLapseIs DEF Opened
<1>4. ASSUME NEW p \in Processes, MarkStopped(p)
      PROVE  \/ row'[k] = row[k]
             \/ /\ row[k] # None /\ row'[k] \in Lapses
                /\ row'[k].purged = row[k].purged /\ row'[k].age = row[k].age
  <2>1. on[p] \in Pairs /\ row[on[p]] \in Rows
    BY <1>4, WorkingOn DEF MarkStopped, Resting
  <2>2. row'[k] = IF k = on[p] THEN Stopped(row[k]) ELSE row[k]
    BY <1>0, <1>4, <2>1 DEF MarkStopped
  <2>3. CASE row[k] = None
    BY <2>2, <2>3 DEF Stopped
  <2>4. CASE row[k] # None
    <3>1. row[k] \in Lapses
      BY <1>0, <2>4, RowTypes
    <3>. QED BY <2>2, <2>4, <3>1 DEF Stopped, Lapses
  <2>. QED BY <2>3, <2>4
<1>5. ASSUME NEW p \in Processes, Purge(p)
      PROVE  \/ row'[k] = row[k]
             \/ /\ row[k] # None /\ row'[k] \in Lapses /\ row'[k].age = row[k].age
                /\ ~covered[k] /\ on[p] = k /\ at[p] = "delete"
  <2>1. on[p] \in Pairs
    BY <1>5, WorkingOn DEF Purge, Resting
  <2>2. CASE ~Purges(on[p])
    BY <1>5, <2>2 DEF Purge
  <2>3. CASE Purges(on[p]) /\ k # on[p]
    BY <1>0, <1>5, <2>3 DEF Purge
  <2>4. CASE Purges(on[p]) /\ k = on[p]
    <3>1. row[k] \in Lapses /\ row[k] # None /\ ~covered[k]
      BY <1>0, <2>4, RowTypes DEF Purges
    <3>2. row'[k] = [row[k] EXCEPT !.purged = TRUE] /\ at[p] = "delete"
      BY <1>0, <1>5, <2>4 DEF Purge
    <3>. QED BY <2>4, <3>1, <3>2 DEF Lapses
  <2>. QED BY <2>2, <2>3, <2>4
<1>6. ASSUME NEW p \in Processes,
             \/ Scan(p) \/ PassDone(p) \/ Inspect(p) \/ LookAgain(p) \/ Enforce(p) \/ Release(p)
             \/ StepFails(p) \/ Crash(p) \/ \E j \in Pairs : Pick(p, j)
      PROVE  row' = row
  BY <1>6 DEF Scan, PassDone, Inspect, LookAgain, Enforce, Release, StepFails, Crash, Pick
<1>7. CASE Tick
  <2>1. CASE row[k] = None \/ row[k].age = Grace
    BY <1>7, <2>1 DEF Tick
  <2>2. CASE row[k] # None /\ row[k].age # Grace
    <3>1. row[k] \in Lapses
      BY <1>0, <2>2, RowTypes
    <3>2. row'[k] = [row[k] EXCEPT !.age = @ + 1] /\ at' = at /\ on' = on
      BY <1>7, <2>2 DEF Tick, local
    <3>3. row[k].age + 1 \in 0..Grace
      BY <2>2, <3>1, LapseConstants DEF Lapses
    <3>. QED BY <2>2, <3>1, <3>2, <3>3 DEF Lapses
  <2>. QED BY <2>1, <2>2
<1>8. (\E j \in Pairs : LeaseExpires(j)) \/ Outside \/ UNCHANGED vars => row' = row
  BY OutsideIs DEF LeaseExpires, vars
<1>. QED BY <1>1, <1>2, <1>3, <1>4, <1>5, <1>6, <1>7, <1>8 DEF Next, ProcessStep, Outside

\* A process on its way to a purge, after a step: it came there with the row it
\* looked at, or it was there before.
LEMMA WayToPurge ==
    ASSUME TypeOK, Holding, Looked, [Next]_vars, NEW p \in Processes,
           at'[p] \in {"purge", "unplug", "delete"}
    PROVE  /\ on'[p] = on[p] /\ on[p] \in Pairs
           /\ \/ at[p] \in {"purge", "unplug", "delete"}
              \/ row'[on[p]] # None /\ row'[on[p]].age = Grace
<1>0. /\ at \in [Processes -> Points] /\ row \in [Pairs -> Rows]
  BY DEF TypeOK
<1>1. ASSUME at'[p] = at[p] PROVE on'[p] = on[p] /\ on[p] \in Pairs
  <2>1. at[p] \notin Resting
    BY <1>1 DEF Resting
  <2>2. on[p] \in Pairs
    BY <2>1, WorkingOn
  <2>3. ASSUME NEW q \in Processes, Moves(q) PROVE on' = on
    BY <2>3 DEF Moves
  <2>4. ASSUME NEW q \in Processes, NEW k \in Pairs, Pick(q, k) PROVE on'[p] = on[p]
    BY <1>0, <2>1, <2>4 DEF Pick, TypeOK, Resting
  <2>5. ASSUME NEW q \in Processes, Release(q) \/ Crash(q) PROVE on'[p] = on[p]
    BY <1>0, <1>1, <2>1, <2>5 DEF Release, Crash, Goto, TypeOK, Resting
  <2>6. (\E j \in Pairs : LeaseExpires(j)) \/ Outside \/ Tick \/ UNCHANGED vars => on' = on
    BY OutsideIs DEF LeaseExpires, Tick, local, vars
  <2>. QED BY <2>2, <2>3, <2>4, <2>5, <2>6, MovesOn DEF Next, ProcessStep, Outside
<1>2. ASSUME at'[p] # at[p]
      PROVE  \/ LookAgain(p) \/ Enforce(p) \/ Inspect(p) \/ OpenLapse(p)
  <2>1. ASSUME NEW q \in Processes, q # p,
               ProcessStep(q) \/ StepFails(q) \/ Crash(q)
        PROVE  FALSE
    <3>1. ASSUME Moves(q) PROVE FALSE
      BY <1>2, <2>1, <3>1 DEF Moves
    <3>2. ASSUME Release(q) \/ Crash(q) \/ \E k \in Pairs : Pick(q, k) PROVE FALSE
      BY <1>0, <1>2, <2>1, <3>2 DEF Release, Crash, Pick, Goto
    <3>. QED BY <2>1, <3>1, <3>2, MovesOn DEF ProcessStep
  <2>2. ASSUME \/ DeleteStale(p) \/ Scan(p) \/ PassDone(p) \/ Clear(p) \/ MarkStopped(p) \/ Purge(p)
               \/ Release(p) \/ StepFails(p) \/ Crash(p) \/ \E k \in Pairs : Pick(p, k)
        PROVE  FALSE
    <3>1. at' = at \/ \E point \in {"scan", "pick", "idle", "release", "inspect"} : at' = [at EXCEPT ![p] = point]
      BY <2>2 DEF DeleteStale, Scan, PassDone, Clear, MarkStopped, Purge, Release, StepFails, Crash,
                  Pick, Goto
    <3>. QED BY <1>0, <1>2, <3>1
  <2>3. (\E j \in Pairs : LeaseExpires(j)) \/ Outside \/ Tick \/ UNCHANGED vars => at' = at
    BY OutsideIs DEF LeaseExpires, Tick, local, vars
  <2>. QED BY <1>2, <2>1, <2>2, <2>3 DEF Next, ProcessStep, Outside
<1>3. ASSUME LookAgain(p) \/ Enforce(p)
      PROVE  at[p] \in {"purge", "unplug", "delete"} /\ on' = on
  BY <1>0, <1>3 DEF LookAgain, Enforce, Goto
<1>4. ASSUME Inspect(p)
      PROVE  on' = on /\ row'[on[p]] # None /\ row'[on[p]].age = Grace
  <2>1. on[p] \in Pairs
    BY <1>4, WorkingOn DEF Inspect, Resting
  <2>2. at'[p] = Entry(LapseWork(on[p], Candidate(on[p])))
    BY <1>0, <1>4 DEF Inspect, Goto
  <2>. QED BY <1>4, <2>1, <2>2, CandidateIs, WorkIs DEF Inspect
<1>5. ASSUME OpenLapse(p)
      PROVE  on' = on /\ row'[on[p]] # None /\ row'[on[p]].age = Grace
  <2>1. /\ row'[on[p]] = Opened(p) /\ Seen(p).row = Opened(p) /\ Seen(p) \in Candidates
        /\ at'[p] = Entry(LapseWork(on[p], Seen(p)))
    BY <1>0, <1>5, OpenLapseIs
  <2>. QED BY <1>5, <2>1, WorkIs DEF OpenLapse
<1>6. at[p] \notin Resting => on[p] \in Pairs
  BY WorkingOn
<1>7. Inspect(p) \/ OpenLapse(p) \/ LookAgain(p) \/ Enforce(p) => at[p] \notin Resting
  BY DEF Inspect, OpenLapse, LookAgain, Enforce, Resting
<1>. QED BY <1>1, <1>2, <1>3, <1>4, <1>5, <1>6, <1>7

\* A row found due is due when the purge commits.
LEMMA DueStaysStep ==
    ASSUME TypeOK, Holding, Looked, DueStays, [Next]_vars PROVE DueStays'
<1>. SUFFICES ASSUME NEW p \in Processes, at'[p] \in {"purge", "unplug", "delete"}
              PROVE  row'[on'[p]] = None \/ row'[on'[p]].age = Grace
  BY DEF DueStays
<1>1. /\ on'[p] = on[p] /\ on[p] \in Pairs
      /\ \/ at[p] \in {"purge", "unplug", "delete"}
         \/ row'[on[p]] # None /\ row'[on[p]].age = Grace
  BY WayToPurge
<1>2. CASE at[p] \in {"purge", "unplug", "delete"}
  <2>1. row[on[p]] = None \/ row[on[p]].age = Grace
    BY <1>2 DEF DueStays
  <2>2. ASSUME NEW q \in Processes, OpenLapse(q), on[q] = on[p] PROVE FALSE
    <3>1. at[q] = "open"
      BY <2>2 DEF OpenLapse
    <3>2. claim[on[p]] = p /\ claim[on[q]] = q
      BY <1>2, <3>1, WorkingOn DEF Resting
    <3>. QED BY <1>2, <2>2, <3>1, <3>2
  <2>. QED BY <1>1, <2>1, <2>2, RowEffects
<1>. QED BY <1>1, <1>2

--------------------------------------------------------------------------------
(***************************************************************************)
(* The theorems                                                              *)
(***************************************************************************)

\* The invariant is inductive.
LEMMA LapseInductive == (Init => LInv) /\ (LInv /\ [Next]_vars => LInv')
<1>1. ASSUME Init PROVE LInv
  <2>1. TypeOK
    BY <1>1, LapseConstants DEF Init, TypeOK, Rows, Points
  <2>. QED BY <1>1, <2>1 DEF Init, LInv, Holding, Looked, DueStays, Resting
<1>2. ASSUME LInv, [Next]_vars PROVE LInv'
  BY <1>2, TypeStep, HoldingStep, LookedStep, DueStaysStep DEF LInv
<1>. QED BY <1>1, <1>2

\* Ledger, leases and passes stay well formed, and every pass has a step to do
\* for whatever its look at a pair asks for.
THEOREM TypeCorrect == Spec => []TypeOK
BY LapseInductive, PTL DEF Spec, LInv

\* A purge commits only while the pair is uncovered and the grace that runs then
\* is over, however long ago the processor looked and whatever other replicas,
\* crashes, lapsed leases and coverage changes came in between.
THEOREM PurgesAreDue == Spec => PurgeIsDue
<1>1. ASSUME LInv, [Next]_vars
      PROVE  \A k \in Pairs :
                row[k] # None /\ ~row[k].purged /\ row'[k] # None /\ row'[k].purged
                   => ~covered[k] /\ row[k].age = Grace
  <2>. SUFFICES ASSUME NEW k \in Pairs, row[k] # None, ~row[k].purged, row'[k] # None, row'[k].purged
                PROVE  ~covered[k] /\ row[k].age = Grace
    OBVIOUS
  <2>1. ~covered[k] /\ \E p \in Processes : on[p] = k /\ at[p] = "delete"
    BY <1>1, RowEffects DEF LInv
  <2>. QED BY <1>1, <2>1 DEF LInv, DueStays
<1>. QED BY <1>1, LapseInductive, PTL DEF Spec, PurgeIsDue

\* A grace that runs is dropped only when coverage is back or nothing is owned:
\* not by a stale look, a crash or another replica.
THEOREM GracesAreKept == Spec => GraceIsKept
<1>1. ASSUME LInv, [Next]_vars
      PROVE  \A k \in Pairs : row[k] # None /\ row'[k] = None => covered[k] \/ owned[k] = "gone"
  BY <1>1, RowEffects, RowTypes DEF LInv
<1>. QED BY <1>1, LapseInductive, PTL DEF Spec, GraceIsKept


-----------------------------------------------------------------------------
(***************************************************************************)
(* Enrollment: the inductive invariant                                      *)
(***************************************************************************)

\* The values of the variables.
AgentRecords == [pc : {"boot", "enroll", "waiting", "store", "dial", "session"}, env : 0..MaxTokens,
                 stored : 0..MaxCreds, cred : 0..MaxCreds, new : 0..MaxCreds, first : BOOLEAN,
                 sock : Sockets \cup {0}]
SocketStates == {"free", "auth", "upgrading", "hello", "confirmed", "refused", "registered"}
SocketRecords == [st : SocketStates, open : BOOLEAN, host : Hosts, cred : 0..MaxCreds,
                  rejected : BOOLEAN]
CallRecords == [host : Hosts, token : 0..MaxTokens,
                state : {"sent", "committed", "done", "refused"}, cred : 0..MaxCreds,
                awaited : BOOLEAN]
RowRecords == [exists : BOOLEAN, token : 0..MaxTokens, fresh : BOOLEAN, cred : 0..MaxCreds,
               unconfirmed : BOOLEAN]

\* Every variable has its type.
Typed ==
    /\ srv \in RowRecords
    /\ host \in [Hosts -> AgentRecords]
    /\ calls \subseteq CallRecords
    /\ sock \in [Sockets -> SocketRecords]
    /\ cur \in Sockets \cup {0} /\ deleting \in BOOLEAN
    /\ issued \in 0..MaxTokens /\ from \in 0..MaxTokens
    /\ used \in BOOLEAN /\ spoilt \in BOOLEAN /\ events \in 0..MaxEvents

\* A host has a socket exactly in a session, and at most one call it waits for.
Waits ==
    /\ \A h \in Hosts : (host[h].pc = "session") = (host[h].sock # 0)
    /\ \A call \in calls : call.awaited => host[call.host].pc = "waiting"
    /\ \A call, other \in calls :
          call.awaited /\ other.awaited /\ call.host = other.host => call = other

\* The registry holds the one registered socket that is open.
OneRegistered ==
    /\ cur # 0 => sock[cur].st = "registered" /\ sock[cur].open
    /\ \A s \in Sockets : sock[s].open /\ sock[s].st = "registered" => s = cur

\* A callback that will disconnect the agents is still to run.
Revoking == deleting \/ \E call \in calls : call.state = "committed"

\* A confirmed socket has the credential of the row, or is about to be disconnected.
Revocable ==
    \A s \in Sockets :
        sock[s].open /\ sock[s].st \in {"confirmed", "registered"} /\ sock[s].cred # srv.cred =>
            Revoking

\* The token in the row is the one its credential came from exactly while that
\* credential is unused.
TokenHistory ==
    /\ from <= issued /\ srv.token <= issued
    /\ srv.token # 0 => /\ srv.unconfirmed <=> srv.token = from
                        /\ srv.unconfirmed => ~used

EInv == Typed /\ Waits /\ OneRegistered /\ Revocable /\ TokenHistory

--------------------------------------------------------------------------------
(***************************************************************************)
(* Types                                                                     *)
(***************************************************************************)

\* A free socket is a closed one.
LEMMA FreeIs == Free \in SocketRecords /\ Free.open = FALSE /\ Free.st = "free"
BY EnrollmentConstants DEF Free, SocketRecords, SocketStates

\* What both ends leave of a socket.
LEMMA GoneIs ==
    ASSUME NEW r \in SocketRecords
    PROVE  /\ Gone(r) \in SocketRecords /\ Gone(r).open = FALSE
           /\ Gone(r).st # "registered" /\ Gone(r).st # "confirmed"
<1>1. CASE r.st = "hello"
  BY <1>1 DEF Gone, SocketRecords
<1>2. CASE r.st # "hello"
  BY <1>2, FreeIs DEF Gone
<1>. QED BY <1>1, <1>2

\* A socket closed by disconnect().
LEMMA DisconnectIs ==
    ASSUME Typed, Disconnect
    PROVE  /\ sock' \in [Sockets -> SocketRecords] /\ cur' = 0
           /\ \A s \in Sockets :
                /\ sock'[s].st = sock[s].st /\ sock'[s].cred = sock[s].cred
                /\ sock'[s].open = (sock[s].open /\ s # cur /\ ~Pending(s))
BY DEF Typed, Disconnect, SocketRecords

\* The calls after a turn of one of them.
LEMMA TurnedIs ==
    ASSUME Typed, NEW call \in calls, NEW state \in {"sent", "committed", "done", "refused"},
           NEW c \in 0..MaxCreds
    PROVE  /\ Turned(call, state, c) \subseteq CallRecords
           /\ \E turned \in CallRecords :
                /\ Turned(call, state, c) = (calls \ {call}) \cup {turned}
                /\ turned.host = call.host /\ turned.awaited = call.awaited /\ turned.state = state
<1>1. call \in CallRecords
  BY DEF Typed
<1>2. LET turned == [call EXCEPT !.state = state, !.cred = c]
      IN  /\ turned \in CallRecords /\ turned.host = call.host /\ turned.awaited = call.awaited
          /\ turned.state = state
  BY <1>1 DEF CallRecords
<1>. QED BY <1>2 DEF Turned, Typed

\* The calls of a host that restarts are no longer awaited.
Abandoned(h) == {[c EXCEPT !.awaited = @ /\ c.host # h] : c \in calls}

\* They are the same calls otherwise.
LEMMA RestartedCalls ==
    ASSUME Typed, NEW h \in Hosts
    PROVE  /\ Abandoned(h) \subseteq CallRecords
           /\ \A d \in Abandoned(h) : \E c \in calls :
                /\ d.host = c.host /\ d.state = c.state
                /\ d.awaited => c.awaited /\ c.host # h /\ d = c
           /\ \A c \in calls : \E d \in Abandoned(h) : d.state = c.state
<1>. DEFINE left(c) == [c EXCEPT !.awaited = @ /\ c.host # h]
<1>1. ASSUME NEW c \in calls
      PROVE  /\ left(c) \in CallRecords /\ left(c).host = c.host /\ left(c).state = c.state
             /\ left(c).awaited => c.awaited /\ c.host # h /\ left(c) = c
  <2>1. c \in CallRecords
    BY DEF Typed
  <2>2. CASE c.host = h
    BY <2>1, <2>2 DEF CallRecords
  <2>3. CASE c.host # h
    BY <2>1, <2>3 DEF CallRecords
  <2>. QED BY <2>2, <2>3
<1>2. Abandoned(h) = {left(c) : c \in calls}
  BY DEF Abandoned
<1>. HIDE DEF left
<1>3. Abandoned(h) \subseteq CallRecords
  BY <1>1, <1>2
<1>4. ASSUME NEW d \in Abandoned(h)
      PROVE  \E c \in calls : /\ d.host = c.host /\ d.state = c.state
                              /\ d.awaited => c.awaited /\ c.host # h /\ d = c
  BY <1>1, <1>2
<1>5. \A c \in calls : \E d \in Abandoned(h) : d.state = c.state
  BY <1>1, <1>2
<1>. QED BY <1>3, <1>4, <1>5

\* A new credential is one, and a socket to dial with is free.
LEMMA Chosen ==
    /\ Unknown # {} => (CHOOSE c \in Unknown : TRUE) \in 1..MaxCreds
    /\ FreeSockets # {} => (CHOOSE s \in FreeSockets : TRUE) \in FreeSockets
BY DEF Unknown

\* Every step keeps the types.
LEMMA TypedStep == ASSUME Typed, [EnrollmentNext]_enrollmentVars PROVE Typed'
<1>c. /\ Owner \in Hosts /\ MaxTokens \in Nat /\ MaxCreds \in Nat /\ MaxEvents \in Nat
      /\ 0 \in 0..MaxCreds /\ 0 \in 0..MaxTokens /\ 1..MaxCreds \subseteq 0..MaxCreds
  BY EnrollmentConstants
<1>v. events < MaxEvents /\ events' = events + 1 => events' \in 0..MaxEvents
  BY <1>c DEF Typed
<1>p. \A x \in {"boot", "enroll", "waiting", "store", "dial", "session"} :
         \A r \in AgentRecords : [r EXCEPT !.pc = x] \in AgentRecords
  BY DEF AgentRecords
<1>f. \A h \in Hosts : /\ AfterFailure(h) \in {"enroll", "dial"} /\ host[h] \in AgentRecords
  BY DEF AfterFailure, Typed
<1>h. ASSUME NEW h \in Hosts, NEW r \in AgentRecords, Becomes(h, r)
      PROVE  host' \in [Hosts -> AgentRecords]
  BY <1>h DEF Becomes, Typed
<1>e. ASSUME NEW h \in Hosts, NEW rejected \in BOOLEAN PROVE Ended(h, rejected) \in AgentRecords
  BY <1>f DEF Ended, AgentRecords
<1>1. ASSUME Issue \/ Expire \/ DeleteServer PROVE Typed'
  <2>1. CASE Issue
    <3>1. issued + 1 \in 0..MaxTokens
      BY <1>c, <2>1 DEF Issue, Typed
    <3>2. srv' \in RowRecords
      BY <2>1, <3>1 DEF Issue, Issued, Typed, RowRecords
    <3>. QED BY <1>c, <2>1, <3>1, <3>2 DEF Issue, Typed
  <2>2. CASE Expire
    <3>1. srv' \in RowRecords
      BY <2>2 DEF Expire, Typed, RowRecords
    <3>. QED BY <1>c, <2>2, <3>1 DEF Expire, Typed
  <2>3. CASE DeleteServer
    <3>1. srv' \in RowRecords
      BY <1>c, <2>3 DEF DeleteServer, Typed, RowRecords
    <3>. QED BY <1>c, <2>3, <3>1 DEF DeleteServer, history, Typed
  <2>. QED BY <1>1, <2>1, <2>2, <2>3
<1>2. ASSUME NEW call \in calls, Enroll(call) PROVE Typed'
  <2>0. call \in CallRecords
    BY DEF Typed
  <2>1. CASE Redeemable(call.token)
    <3>0. /\ Unknown # {} /\ srv' = Enrolled(srv, CHOOSE c \in Unknown : TRUE)
          /\ calls' = Turned(call, "committed", CHOOSE c \in Unknown : TRUE)
      BY <1>2, <2>1 DEF Enroll
    <3>. DEFINE c == CHOOSE c \in Unknown : TRUE
    <3>c. c \in 0..MaxCreds
      BY <1>c, <3>0, Chosen
    <3>. HIDE DEF c
    <3>1. srv' = Enrolled(srv, c) /\ calls' = Turned(call, "committed", c)
      BY <3>0 DEF c
    <3>2. srv' \in RowRecords
      BY <3>c, <3>1 DEF Enrolled, Typed, RowRecords
    <3>3. calls' \subseteq CallRecords
      BY <3>c, <3>1, TurnedIs
    <3>. QED BY <1>2, <2>0, <2>1, <3>2, <3>3 DEF Enroll, Typed, CallRecords
  <2>2. CASE ~Redeemable(call.token)
    <3>1. calls' = Turned(call, "refused", 0) /\ UNCHANGED <<srv, from, used>>
      BY <1>2, <2>2 DEF Enroll
    <3>2. calls' \subseteq CallRecords
      BY <1>c, <3>1, TurnedIs
    <3>. QED BY <1>2, <3>1, <3>2 DEF Enroll, Typed
  <2>. QED BY <2>1, <2>2
<1>3. ASSUME NEW call \in calls, EnrollCommitted(call) PROVE Typed'
  <2>0. call \in CallRecords /\ call.cred \in 0..MaxCreds
    BY DEF Typed, CallRecords
  <2>1. calls' \subseteq CallRecords
    BY <1>3, <2>0, TurnedIs DEF EnrollCommitted
  <2>. QED BY <1>3, <2>1, DisconnectIs DEF EnrollCommitted, history, Typed
<1>4. ASSUME ServerDeleted PROVE Typed'
  BY <1>4, DisconnectIs DEF ServerDeleted, history, Typed
<1>5. ASSUME NEW h \in Hosts, Boot(h) \/ Store(h) \/ StoreFails(h) \/ LinkDropped(h) PROVE Typed'
  <2>1. host' \in [Hosts -> AgentRecords]
    <3>1. PICK r \in AgentRecords : Becomes(h, r)
      <4>1. CASE Boot(h)
        BY <1>f, <4>1 DEF Boot, AgentRecords
      <4>2. CASE Store(h)
        BY <1>c, <1>f, <4>2 DEF Store, AgentRecords
      <4>3. CASE StoreFails(h)
        <5>. HIDE DEF AfterFailure
        <5>. QED BY <1>c, <1>f, <4>3 DEF StoreFails, AgentRecords
      <4>4. CASE LinkDropped(h)
        BY <1>f, <4>4 DEF LinkDropped, AgentRecords
      <4>. QED BY <1>5, <4>1, <4>2, <4>3, <4>4
    <3>. QED BY <1>h, <3>1
  <2>. QED BY <1>c, <1>5, <2>1 DEF Boot, Store, StoreFails, LinkDropped, history, Typed
<1>6. ASSUME NEW h \in Hosts, Exchange(h) PROVE Typed'
  <2>1. host' \in [Hosts -> AgentRecords]
    BY <1>6, <1>f, <1>h, <1>p DEF Exchange
  <2>2. [host |-> h, token |-> host[h].env, state |-> "sent", cred |-> 0, awaited |-> TRUE] \in CallRecords
    BY <1>c, <1>f DEF CallRecords, AgentRecords
  <2>. QED BY <1>6, <2>1, <2>2 DEF Exchange, history, Typed
<1>7. ASSUME NEW call \in calls, Answer(call) PROVE Typed'
  <2>0. call \in CallRecords /\ call.host \in Hosts /\ call.cred \in 0..MaxCreds
    BY DEF Typed, CallRecords
  <2>1. host' \in [Hosts -> AgentRecords]
    <3>1. CASE call.awaited /\ call.state = "done"
      <4>1. [host[call.host] EXCEPT !.pc = "store", !.new = call.cred] \in AgentRecords
        BY <1>f, <2>0 DEF AgentRecords
      <4>. QED BY <1>7, <1>h, <2>0, <3>1, <4>1 DEF Answer
    <3>2. CASE call.awaited /\ call.state = "refused"
      BY <1>7, <1>f, <1>h, <1>p, <2>0, <3>2 DEF Answer
    <3>3. CASE ~call.awaited
      BY <1>7, <3>3 DEF Answer, Typed
    <3>. QED BY <1>7, <3>1, <3>2, <3>3 DEF Answer
  <2>. QED BY <1>7, <2>1 DEF Answer, history, Typed
<1>8. ASSUME NEW call \in calls, ExchangeTimesOut(call) PROVE Typed'
  <2>0. call \in CallRecords /\ call.host \in Hosts
    BY DEF Typed, CallRecords
  <2>1. host' \in [Hosts -> AgentRecords]
    BY <1>8, <1>f, <1>h, <1>p, <2>0 DEF ExchangeTimesOut
  <2>2. [call EXCEPT !.awaited = FALSE] \in CallRecords
    BY <2>0 DEF CallRecords
  <2>3. calls' \subseteq CallRecords
    BY <1>8, <2>2 DEF ExchangeTimesOut, Typed
  <2>. QED BY <1>c, <1>8, <2>1, <2>3 DEF ExchangeTimesOut, history, Typed
<1>9. ASSUME NEW h \in Hosts, Dial(h) PROVE Typed'
  <2>1. PICK s \in FreeSockets :
           /\ sock' = [sock EXCEPT ![s] = [st |-> "auth", open |-> TRUE, host |-> h,
                                            cred |-> host[h].cred, rejected |-> FALSE]]
           /\ Becomes(h, [host[h] EXCEPT !.pc = "session", !.sock = s])
    BY <1>9, Chosen DEF Dial
  <2>2. s \in Sockets
    BY DEF FreeSockets
  <2>3. [host[h] EXCEPT !.pc = "session", !.sock = s] \in AgentRecords
    BY <1>f, <2>2 DEF AgentRecords
  <2>4. [st |-> "auth", open |-> TRUE, host |-> h, cred |-> host[h].cred, rejected |-> FALSE] \in SocketRecords
    BY <1>f DEF AgentRecords, SocketRecords, SocketStates
  <2>5. host' \in [Hosts -> AgentRecords]
    BY <1>h, <2>1, <2>3
  <2>6. sock' \in [Sockets -> SocketRecords]
    BY <2>1, <2>2, <2>4 DEF Typed
  <2>. QED BY <1>9, <2>5, <2>6 DEF Dial, history, Typed
<1>10. ASSUME NEW h \in Hosts, SessionEnds(h) PROVE Typed'
  <2>1. host[h].sock \in Sockets
    BY <1>10, <1>f DEF SessionEnds, AgentRecords
  <2>2. sock[host[h].sock] \in SocketRecords /\ sock[host[h].sock].rejected \in BOOLEAN
    BY <2>1 DEF Typed, SocketRecords
  <2>3. host' \in [Hosts -> AgentRecords]
    BY <1>10, <1>e, <1>h, <2>2 DEF SessionEnds
  <2>4. sock' \in [Sockets -> SocketRecords]
    BY <1>10, <2>1, <2>2, GoneIs DEF SessionEnds, Typed
  <2>. QED BY <1>10, <2>3, <2>4 DEF SessionEnds, history, Typed
<1>11. ASSUME (\E h \in Hosts : HostRestart(h)) \/ Reconfigure PROVE Typed'
  <2>1. PICK h \in Hosts, env \in 0..MaxTokens : Restarted(h, env)
    BY <1>c, <1>f, <1>11 DEF HostRestart, Reconfigure, Typed, AgentRecords
  <2>2. [host[h] EXCEPT !.pc = "boot", !.sock = 0, !.cred = 0, !.new = 0, !.first = TRUE, !.env = env]
           \in AgentRecords
    BY <1>c, <1>f DEF AgentRecords
  <2>3. host' \in [Hosts -> AgentRecords]
    BY <1>h, <2>1, <2>2 DEF Restarted
  <2>4. calls' \subseteq CallRecords
    <3>1. calls' = Abandoned(h)
      BY <2>1 DEF Restarted, Abandoned
    <3>. QED BY <3>1, RestartedCalls
  <2>5. events' \in 0..MaxEvents
    BY <1>v, <1>11 DEF HostRestart, Reconfigure, Typed
  <2>7. spoilt' \in BOOLEAN
    <3>1. (~(srv.exists /\ srv.fresh)) \in BOOLEAN
      OBVIOUS
    <3>. QED BY <1>11, <3>1 DEF HostRestart, Reconfigure, history, Typed
  <2>6. UNCHANGED <<srv, sock, cur, deleting, issued, from, used>>
    BY <1>11 DEF HostRestart, Reconfigure, history
  <2>. QED BY <2>3, <2>4, <2>5, <2>6, <2>7 DEF Typed
<1>12. ASSUME NEW s \in Sockets, Authenticate(s) PROVE Typed'
  <2>0. sock[s] \in SocketRecords
    BY DEF Typed
  <2>1. sock' \in [Sockets -> SocketRecords]
    <3>1. [sock[s] EXCEPT !.st = "upgrading"] \in SocketRecords
      BY <2>0 DEF SocketRecords, SocketStates
    <3>. QED BY <1>12, <3>1, FreeIs DEF Authenticate, Typed
  <2>2. host' \in [Hosts -> AgentRecords]
    BY <1>12, <1>e, <1>f DEF Authenticate, Typed
  <2>. QED BY <1>12, <2>1, <2>2 DEF Authenticate, history, Typed
<1>13. ASSUME NEW s \in Sockets, AcceptControl(s) \/ SocketDropped(s) \/ Forget(s) \/ PeerGone(s)
       PROVE  Typed'
  <2>0. sock[s] \in SocketRecords
    BY DEF Typed
  <2>1. /\ [sock[s] EXCEPT !.st = "hello"] \in SocketRecords
        /\ [sock[s] EXCEPT !.open = FALSE] \in SocketRecords
    BY <2>0 DEF SocketRecords, SocketStates
  <2>2. sock' \in [Sockets -> SocketRecords]
    BY <1>13, <2>0, <2>1, FreeIs, GoneIs DEF AcceptControl, SocketDropped, Forget, PeerGone, Typed
  <2>3. cur' \in Sockets \cup {0}
    BY <1>13 DEF AcceptControl, SocketDropped, Forget, PeerGone, Unregistered, Typed
  <2>. QED BY <1>c, <1>13, <2>2, <2>3 DEF AcceptControl, SocketDropped, Forget, PeerGone, history, Typed
<1>14. ASSUME NEW s \in Sockets, ConfirmControl(s) PROVE Typed'
  <2>0. sock[s] \in SocketRecords /\ sock[s].open \in BOOLEAN /\ sock[s].rejected \in BOOLEAN
    BY DEF Typed, SocketRecords
  <2>1. sock' \in [Sockets -> SocketRecords]
    <3>1. /\ [sock[s] EXCEPT !.st = "confirmed"] \in SocketRecords
          /\ [sock[s] EXCEPT !.st = "refused", !.open = FALSE, !.rejected = @ \/ sock[s].open]
                 \in SocketRecords
      BY <2>0 DEF SocketRecords, SocketStates
    <3>. QED BY <1>14, <3>1 DEF ConfirmControl, Typed
  <2>2. srv' \in RowRecords
    <3>1. Spent(srv) \in RowRecords
      BY <1>c DEF Spent, Typed, RowRecords
    <3>. QED BY <1>14, <3>1 DEF ConfirmControl, Typed
  <2>. QED BY <1>14, <2>1, <2>2 DEF ConfirmControl, Typed
<1>15. ASSUME NEW s \in Sockets, Register(s) PROVE Typed'
  <2>1. \A t \in Sockets : /\ sock[t] \in SocketRecords
                           /\ [sock[t] EXCEPT !.st = "registered"] \in SocketRecords
                           /\ [sock[t] EXCEPT !.open = FALSE] \in SocketRecords
    BY DEF Typed, SocketRecords, SocketStates
  <2>2. sock' \in [Sockets -> SocketRecords]
    BY <1>15, <2>1 DEF Register
  <2>. QED BY <1>15, <2>2 DEF Register, history, Typed
<1>16. ASSUME BackendRestart PROVE Typed'
  <2>1. ASSUME NEW s \in Sockets
        PROVE  [sock[s] EXCEPT !.open = FALSE, !.st = IF @ = "hello" THEN "refused" ELSE @] \in SocketRecords
    <3>1. sock[s] \in SocketRecords
      BY DEF Typed
    <3>2. (IF sock[s].st = "hello" THEN "refused" ELSE sock[s].st) \in SocketStates
      BY <3>1 DEF SocketRecords, SocketStates
    <3>. QED BY <3>1, <3>2 DEF SocketRecords
  <2>2. sock' \in [Sockets -> SocketRecords]
    BY <1>16, <2>1 DEF BackendRestart
  <2>3. host' \in [Hosts -> AgentRecords]
    BY <1>16, <1>f, <1>p DEF BackendRestart
  <2>4. /\ cur' = 0 /\ deleting' = FALSE /\ calls' = {}
        /\ UNCHANGED <<srv, issued, from, used, spoilt>>
    BY <1>16, Zenon DEF BackendRestart, history
  <2>5. events' \in 0..MaxEvents
    BY <1>v, <1>16, Zenon DEF BackendRestart
  <2>. QED BY <2>2, <2>3, <2>4, <2>5 DEF Typed
<1>17. CASE UNCHANGED enrollmentVars
  BY <1>17 DEF enrollmentVars, history, Typed
<1>. QED BY <1>1, <1>2, <1>3, <1>4, <1>5, <1>6, <1>7, <1>8, <1>9, <1>10, <1>11, <1>12, <1>13, <1>14,
            <1>15, <1>16, <1>17 DEF EnrollmentNext, HostStep, CallStep, SocketStep, Fault

--------------------------------------------------------------------------------
(***************************************************************************)
(* Hosts and their calls                                                     *)
(***************************************************************************)

\* The steps that leave hosts and calls alone.
BackendOnly ==
    \/ Issue \/ Expire \/ DeleteServer \/ ServerDeleted
    \/ \E s \in Sockets : AcceptControl(s) \/ ConfirmControl(s) \/ Register(s) \/ PeerGone(s)
                             \/ SocketDropped(s) \/ Forget(s)

\* They do.
LEMMA BackendOnlyIs == BackendOnly \/ UNCHANGED enrollmentVars => UNCHANGED <<host, calls>>
BY DEF BackendOnly, Issue, Expire, DeleteServer, ServerDeleted, AcceptControl, ConfirmControl,
       Register, PeerGone, SocketDropped, Forget, enrollmentVars

\* What a host that does not wait for a call makes of itself.
LEMMA HostOnly ==
    ASSUME Typed, Waits, NEW h \in Hosts,
           \/ Boot(h) \/ Store(h) \/ StoreFails(h) \/ LinkDropped(h) \/ Dial(h) \/ SessionEnds(h)
    PROVE  /\ calls' = calls /\ \A g \in Hosts : g # h => host'[g] = host[g]
           /\ host[h].pc # "waiting"
           /\ (host'[h].pc = "session") = (host'[h].sock # 0)
<1>1. /\ host \in [Hosts -> AgentRecords] /\ host[h] \in AgentRecords
      /\ (host[h].pc = "session") = (host[h].sock # 0)
  BY DEF Typed, Waits
<1>2. CASE Boot(h)
  <2>1. CASE Becomes(h, [host[h] EXCEPT !.pc = "dial", !.cred = host[h].stored, !.first = FALSE])
    BY <1>1, <1>2, <2>1 DEF Boot, Becomes, AgentRecords
  <2>2. CASE Becomes(h, [host[h] EXCEPT !.pc = "enroll", !.first = TRUE])
    BY <1>1, <1>2, <2>2 DEF Boot, Becomes, AgentRecords
  <2>. QED BY <1>2, <2>1, <2>2 DEF Boot
<1>3. CASE Store(h)
  BY <1>1, <1>3 DEF Store, Becomes, AgentRecords
<1>4. CASE StoreFails(h)
  BY <1>1, <1>4 DEF StoreFails, AfterFailure, Becomes, AgentRecords
<1>5. CASE LinkDropped(h)
  BY <1>1, <1>5 DEF LinkDropped, Becomes, AgentRecords
<1>6. CASE Dial(h)
  <2>1. PICK s \in FreeSockets : Becomes(h, [host[h] EXCEPT !.pc = "session", !.sock = s])
    BY <1>6, Chosen DEF Dial
  <2>2. s # 0
    BY EnrollmentConstants DEF FreeSockets
  <2>3. calls' = calls /\ host[h].pc = "dial"
    BY <1>6 DEF Dial
  <2>. QED BY <1>1, <2>1, <2>2, <2>3 DEF Becomes, AgentRecords
<1>7. CASE SessionEnds(h)
  <2>1. PICK rejected : Becomes(h, Ended(h, rejected))
    BY <1>7 DEF SessionEnds
  <2>2. Ended(h, rejected).pc # "session" /\ Ended(h, rejected).sock = 0
    BY <1>1 DEF Ended, AgentRecords
  <2>3. calls' = calls /\ host[h].sock # 0
    BY <1>7 DEF SessionEnds
  <2>. QED BY <1>1, <2>1, <2>2, <2>3 DEF Becomes
<1>. QED BY <1>2, <1>3, <1>4, <1>5, <1>6, <1>7

\* Every host keeps to one socket and one call.
LEMMA WaitsStep == ASSUME Typed, Waits, [EnrollmentNext]_enrollmentVars PROVE Waits'
<1>0. /\ host \in [Hosts -> AgentRecords] /\ \A h \in Hosts : host[h] \in AgentRecords
      /\ \A call \in calls : call \in CallRecords /\ call.host \in Hosts
  BY DEF Typed, CallRecords
<1>w. /\ \A h \in Hosts : (host[h].pc = "session") = (host[h].sock # 0)
      /\ \A call \in calls : call.awaited => host[call.host].pc = "waiting"
      /\ \A call, other \in calls :
            call.awaited /\ other.awaited /\ call.host = other.host => call = other
  BY DEF Waits
<1>1. ASSUME calls' = calls,
             \A g \in Hosts : \/ host'[g] = host[g]
                              \/ /\ host[g].pc # "waiting"
                                 /\ (host'[g].pc = "session") = (host'[g].sock # 0)
      PROVE  Waits'
  BY <1>0, <1>w, <1>1 DEF Waits
<1>2. ASSUME NEW call \in calls, NEW state \in {"sent", "committed", "done", "refused"},
             NEW c \in 0..MaxCreds, calls' = Turned(call, state, c), host' = host
      PROVE  Waits'
  <2>1. PICK turned \in CallRecords :
           /\ calls' = (calls \ {call}) \cup {turned}
           /\ turned.host = call.host /\ turned.awaited = call.awaited
    BY <1>2, TurnedIs
  <2>. QED BY <1>0, <1>w, <1>2, <2>1 DEF Waits
<1>3. ASSUME NEW h \in Hosts, NEW call \in calls, call.awaited, call.host = h,
             \A other \in calls' : other.awaited => other \in calls /\ other # call,
             \A g \in Hosts : g # h => host'[g] = host[g],
             host'[h].pc # "session" /\ host'[h].sock = host[h].sock
      PROVE  Waits'
  <2>1. \A other \in calls' : other.awaited => other.host # h
    BY <1>w, <1>3
  <2>2. host[h].sock = 0
    BY <1>w, <1>3
  <2>. QED BY <1>0, <1>w, <1>3, <2>1, <2>2 DEF Waits
<1>4. ASSUME NEW call \in calls, Enroll(call) PROVE Waits'
  <2>1. CASE Redeemable(call.token)
    <3>0. /\ Unknown # {} /\ calls' = Turned(call, "committed", CHOOSE c \in Unknown : TRUE)
      BY <1>4, <2>1 DEF Enroll
    <3>. DEFINE c == CHOOSE c \in Unknown : TRUE
    <3>c. c \in 0..MaxCreds
      BY <3>0, Chosen, EnrollmentConstants
    <3>. HIDE DEF c
    <3>1. calls' = Turned(call, "committed", c) /\ host' = host
      BY <1>4, <3>0 DEF c, Enroll
    <3>. QED BY <1>2, <3>c, <3>1
  <2>2. CASE ~Redeemable(call.token)
    BY <1>2, <1>4, <2>2, EnrollmentConstants DEF Enroll
  <2>. QED BY <2>1, <2>2
<1>5. ASSUME NEW call \in calls, EnrollCommitted(call) PROVE Waits'
  <2>1. call.cred \in 0..MaxCreds
    BY <1>0 DEF CallRecords
  <2>. QED BY <1>2, <1>5, <2>1 DEF EnrollCommitted
<1>6. ASSUME NEW h \in Hosts,
             \/ Boot(h) \/ Store(h) \/ StoreFails(h) \/ LinkDropped(h) \/ Dial(h) \/ SessionEnds(h)
      PROVE  Waits'
  BY <1>1, <1>6, HostOnly
<1>7. ASSUME NEW h \in Hosts, Exchange(h) PROVE Waits'
  <2>. DEFINE new == [host |-> h, token |-> host[h].env, state |-> "sent", cred |-> 0, awaited |-> TRUE]
  <2>1. host[h].pc = "enroll" /\ calls' = calls \cup {new}
    BY <1>7 DEF Exchange
  <2>2. /\ \A g \in Hosts : g # h => host'[g] = host[g]
        /\ host'[h].pc = "waiting" /\ host'[h].sock = host[h].sock
    BY <1>0, <1>7 DEF Exchange, Becomes, AgentRecords
  <2>3. new.host = h
    OBVIOUS
  <2>4. \A call \in calls : call.awaited => call.host # h
    BY <1>w, <2>1
  <2>. HIDE DEF new
  <2>5. \A g \in Hosts : (host'[g].pc = "session") = (host'[g].sock # 0)
    BY <1>w, <2>1, <2>2
  <2>6. \A call \in calls' : call.awaited => host'[call.host].pc = "waiting"
    BY <1>0, <1>w, <2>1, <2>2, <2>3, <2>4
  <2>7. \A call, other \in calls' :
            call.awaited /\ other.awaited /\ call.host = other.host => call = other
    BY <1>w, <2>1, <2>3, <2>4
  <2>. QED BY <2>5, <2>6, <2>7 DEF Waits
<1>8. ASSUME NEW call \in calls, Answer(call) PROVE Waits'
  <2>1. CASE ~call.awaited
    BY <1>0, <1>w, <1>8, <2>1 DEF Answer, Waits
  <2>2. CASE call.awaited
    <3>1. calls' = calls \ {call} /\ call.host \in Hosts /\ host[call.host] \in AgentRecords
      BY <1>0, <1>8 DEF Answer
    <3>2. PICK pc \in {"store", "boot", "dial"} :
             \/ Becomes(call.host, [host[call.host] EXCEPT !.pc = pc])
             \/ Becomes(call.host, [host[call.host] EXCEPT !.pc = pc, !.new = call.cred])
      BY <1>8, <2>2 DEF Answer
    <3>3. /\ \A g \in Hosts : g # call.host => host'[g] = host[g]
          /\ host'[call.host].pc # "session" /\ host'[call.host].sock = host[call.host].sock
      <4>1. CASE Becomes(call.host, [host[call.host] EXCEPT !.pc = pc])
        BY <1>0, <3>1, <3>2, <4>1 DEF Becomes, AgentRecords
      <4>2. CASE Becomes(call.host, [host[call.host] EXCEPT !.pc = pc, !.new = call.cred])
        BY <1>0, <3>1, <3>2, <4>2 DEF Becomes, AgentRecords
      <4>. QED BY <3>2, <4>1, <4>2
    <3>. QED BY <1>3, <2>2, <3>1, <3>3
  <2>. QED BY <2>1, <2>2
<1>9. ASSUME NEW call \in calls, ExchangeTimesOut(call) PROVE Waits'
  <2>0. call.host \in Hosts /\ call \in CallRecords
    BY <1>0
  <2>1. [call EXCEPT !.awaited = FALSE].awaited = FALSE
    BY <2>0 DEF CallRecords
  <2>2. \A other \in calls' : other.awaited => other \in calls /\ other # call
    BY <1>9, <2>1 DEF ExchangeTimesOut
  <2>3. AfterFailure(call.host) # "session"
    BY DEF AfterFailure
  <2>4. /\ \A g \in Hosts : g # call.host => host'[g] = host[g]
        /\ host'[call.host].pc # "session" /\ host'[call.host].sock = host[call.host].sock
    BY <1>0, <1>9, <2>0, <2>3 DEF ExchangeTimesOut, Becomes, AgentRecords
  <2>. QED BY <1>3, <1>9, <2>0, <2>2, <2>4 DEF ExchangeTimesOut
<1>10. ASSUME NEW h \in Hosts, NEW env, Restarted(h, env) PROVE Waits'
  <2>1. \A d \in calls' : d.awaited => d \in calls /\ d.host # h
    <3>1. calls' = Abandoned(h)
      BY <1>10 DEF Restarted, Abandoned
    <3>. QED BY <3>1, RestartedCalls
  <2>2. /\ \A g \in Hosts : g # h => host'[g] = host[g]
        /\ host'[h].pc = "boot" /\ host'[h].sock = 0
    BY <1>0, <1>10 DEF Restarted, Becomes, AgentRecords
  <2>. QED BY <1>0, <1>w, <2>1, <2>2 DEF Waits
<1>11. ASSUME NEW s \in Sockets, Authenticate(s) PROVE Waits'
  <2>1. calls' = calls
    BY <1>11 DEF Authenticate
  <2>2. \A g \in Hosts : host'[g] = host[g] \/ (host[g].sock = s /\ host'[g] = Ended(g, TRUE))
    BY <1>11 DEF Authenticate
  <2>3. \A g \in Hosts : Ended(g, TRUE).pc # "session" /\ Ended(g, TRUE).sock = 0
    BY <1>0 DEF Ended, AgentRecords
  <2>4. s # 0
    BY EnrollmentConstants
  <2>. QED BY <1>1, <1>w, <2>1, <2>2, <2>3, <2>4
<1>12. ASSUME BackendRestart PROVE Waits'
  <2>1. calls' = {}
    BY <1>12 DEF BackendRestart
  <2>2. ASSUME NEW g \in Hosts PROVE (host'[g].pc = "session") = (host'[g].sock # 0)
    <3>1. CASE \E c \in calls : c.awaited /\ c.host = g
      <4>1. host'[g] = [host[g] EXCEPT !.pc = AfterFailure(g)]
        BY <1>12, <3>1 DEF BackendRestart
      <4>2. host'[g].pc \in {"enroll", "dial"} /\ host'[g].sock = host[g].sock
        BY <1>0, <4>1 DEF AfterFailure, AgentRecords
      <4>3. host[g].pc = "waiting"
        BY <1>w, <3>1
      <4>. QED BY <1>w, <4>2, <4>3
    <3>2. CASE ~\E c \in calls : c.awaited /\ c.host = g
      <4>1. host'[g] = host[g]
        BY <1>12, <3>2 DEF BackendRestart
      <4>. QED BY <1>w, <4>1
    <3>. QED BY <3>1, <3>2
  <2>. QED BY <2>1, <2>2 DEF Waits
<1>13. BackendOnly \/ UNCHANGED enrollmentVars => Waits'
  BY BackendOnlyIs DEF Waits
<1>14. ASSUME (\E h \in Hosts : HostRestart(h)) \/ Reconfigure PROVE Waits'
  BY <1>10, <1>14, EnrollmentConstants DEF HostRestart, Reconfigure
<1>. QED BY <1>4, <1>5, <1>6, <1>7, <1>8, <1>9, <1>11, <1>12, <1>13, <1>14
         DEF EnrollmentNext, HostStep, CallStep, SocketStep, Fault, BackendOnly

--------------------------------------------------------------------------------
(***************************************************************************)
(* Sockets and revocation                                                    *)
(***************************************************************************)

\* Only socket s changes, and it is not one of the confirmed that are open.
Quits(s) ==
    /\ \A t \in Sockets : t # s => sock'[t] = sock[t]
    /\ ~sock'[s].open \/ sock'[s].st \notin {"confirmed", "registered"}
    /\ cur' = IF cur = s THEN 0 ELSE cur

\* confirmControl lets socket s through.
Confirms(s) ==
    /\ \A t \in Sockets : t # s => sock'[t] = sock[t]
    /\ sock[s].st = "hello" /\ sock'[s].st = "confirmed"
    /\ sock'[s].cred = srv.cred /\ srv'.cred = srv.cred /\ cur' = cur

\* Socket s is registered, and the one before it closed.
Registers(s) ==
    /\ sock[s].st = "confirmed" /\ sock[s].open /\ sock'[s].st = "registered" /\ sock'[s].open
    /\ sock'[s].cred = sock[s].cred
    /\ \A t \in Sockets : t # s => sock'[t] = sock[t] \/ (t = cur /\ ~sock'[t].open)
    /\ \A t \in Sockets : t = cur /\ t # s => ~sock'[t].open
    /\ cur' = s

\* Every socket is closed.
AllClosed == cur' = 0 /\ \A s \in Sockets : ~sock'[s].open

\* What a step does to the sockets.
LEMMA SocketKinds ==
    ASSUME Typed, OneRegistered, [EnrollmentNext]_enrollmentVars
    PROVE  \/ UNCHANGED <<sock, cur>>
           \/ Disconnect \/ AllClosed
           \/ \E s \in Sockets : Quits(s) \/ Confirms(s) \/ Registers(s)
<1>0. /\ sock \in [Sockets -> SocketRecords] /\ \A s \in Sockets : sock[s] \in SocketRecords
      /\ cur \in Sockets \cup {0} /\ 0 \notin Sockets
  BY EnrollmentConstants DEF Typed
<1>r. \A s \in Sockets : ~sock[s].open \/ sock[s].st # "registered" => cur # s
  BY <1>0 DEF OneRegistered
<1>1. ASSUME NEW s \in Sockets, NEW r, sock' = [sock EXCEPT ![s] = r],
             ~r.open \/ r.st \notin {"confirmed", "registered"},
             cur' = IF cur = s THEN 0 ELSE cur
      PROVE  Quits(s)
  BY <1>0, <1>1 DEF Quits
<1>2. ASSUME NEW h \in Hosts, Dial(h) PROVE \E s \in Sockets : Quits(s)
  <2>1. PICK s \in FreeSockets :
           sock' = [sock EXCEPT ![s] = [st |-> "auth", open |-> TRUE, host |-> h,
                                        cred |-> host[h].cred, rejected |-> FALSE]]
    BY <1>2, Chosen DEF Dial
  <2>2. s \in Sockets /\ cur # s /\ cur' = cur
    BY <1>2, <1>r DEF FreeSockets, Dial
  <2>. QED BY <1>1, <2>1, <2>2
<1>3. ASSUME NEW h \in Hosts, SessionEnds(h) PROVE \E s \in Sockets : Quits(s)
  <2>1. host[h].sock \in Sockets /\ ~sock[host[h].sock].open /\ cur' = cur
    BY <1>3 DEF SessionEnds, Typed, AgentRecords
  <2>2. sock' = [sock EXCEPT ![host[h].sock] = Gone(sock[host[h].sock])]
    BY <1>3 DEF SessionEnds
  <2>3. ~Gone(sock[host[h].sock]).open
    BY <1>0, <2>1, GoneIs
  <2>. QED BY <1>1, <1>r, <2>1, <2>2, <2>3
<1>4. ASSUME NEW s \in Sockets, Authenticate(s) PROVE Quits(s)
  <2>1. sock[s].st = "auth" /\ cur' = cur /\ cur # s
    BY <1>4, <1>r DEF Authenticate
  <2>2. CASE Valid(s)
    <3>1. sock' = [sock EXCEPT ![s] = [sock[s] EXCEPT !.st = "upgrading"]]
      BY <1>4, <2>2 DEF Authenticate
    <3>2. [sock[s] EXCEPT !.st = "upgrading"].st = "upgrading"
      BY <1>0 DEF SocketRecords
    <3>. QED BY <1>1, <2>1, <3>1, <3>2
  <2>3. CASE ~Valid(s)
    <3>1. sock' = [sock EXCEPT ![s] = Free]
      BY <1>4, <2>3 DEF Authenticate
    <3>. QED BY <1>1, <2>1, <3>1, FreeIs
  <2>. QED BY <2>2, <2>3
<1>5. ASSUME NEW s \in Sockets, AcceptControl(s) PROVE Quits(s)
  <2>1. sock' = [sock EXCEPT ![s] = [sock[s] EXCEPT !.st = "hello"]] /\ cur' = cur /\ cur # s
    BY <1>5, <1>r DEF AcceptControl
  <2>2. [sock[s] EXCEPT !.st = "hello"].st = "hello"
    BY <1>0 DEF SocketRecords
  <2>. QED BY <1>1, <2>1, <2>2
<1>6. ASSUME NEW s \in Sockets, PeerGone(s) PROVE Quits(s)
  <2>1. sock' = [sock EXCEPT ![s] = Gone(sock[s])] /\ cur' = IF cur = s THEN 0 ELSE cur
    BY <1>6 DEF PeerGone, Unregistered
  <2>. QED BY <1>0, <1>1, <2>1, GoneIs
<1>7. ASSUME NEW s \in Sockets, SocketDropped(s) PROVE Quits(s)
  <2>1. /\ sock' = [sock EXCEPT ![s] = [sock[s] EXCEPT !.open = FALSE]]
        /\ cur' = IF cur = s THEN 0 ELSE cur
    BY <1>7 DEF SocketDropped, Unregistered
  <2>2. [sock[s] EXCEPT !.open = FALSE].open = FALSE
    BY <1>0 DEF SocketRecords
  <2>. QED BY <1>1, <2>1, <2>2
<1>8. ASSUME NEW s \in Sockets, Forget(s) PROVE Quits(s)
  <2>1. sock' = [sock EXCEPT ![s] = Free] /\ cur' = cur /\ cur # s
    BY <1>8, <1>r DEF Forget
  <2>. QED BY <1>1, <2>1, FreeIs
<1>9. ASSUME NEW s \in Sockets, ConfirmControl(s) PROVE Quits(s) \/ Confirms(s)
  <2>1. sock[s].st = "hello" /\ cur' = cur /\ cur # s
    BY <1>9, <1>r DEF ConfirmControl
  <2>2. CASE Valid(s)
    <3>1. sock' = [sock EXCEPT ![s] = [sock[s] EXCEPT !.st = "confirmed"]] /\ srv' = Spent(srv)
      BY <1>9, <2>2 DEF ConfirmControl
    <3>2. /\ [sock[s] EXCEPT !.st = "confirmed"].st = "confirmed"
          /\ [sock[s] EXCEPT !.st = "confirmed"].cred = sock[s].cred
      BY <1>0 DEF SocketRecords
    <3>3. Spent(srv).cred = srv.cred
      BY DEF Spent, Typed, RowRecords
    <3>4. sock[s].cred = srv.cred
      BY <2>2 DEF Valid
    <3>. QED BY <1>0, <2>1, <3>1, <3>2, <3>3, <3>4 DEF Confirms
  <2>3. CASE ~Valid(s)
    <3>1. sock' = [sock EXCEPT ![s] = [sock[s] EXCEPT !.st = "refused", !.open = FALSE,
                                                      !.rejected = @ \/ sock[s].open]]
      BY <1>9, <2>3 DEF ConfirmControl
    <3>2. [sock[s] EXCEPT !.st = "refused", !.open = FALSE, !.rejected = @ \/ sock[s].open].open = FALSE
      BY <1>0 DEF SocketRecords
    <3>. QED BY <1>1, <2>1, <3>1, <3>2
  <2>. QED BY <2>2, <2>3
<1>10. ASSUME NEW s \in Sockets, Register(s) PROVE Registers(s)
  <2>1. sock[s].st = "confirmed" /\ sock[s].open /\ cur' = s /\ cur # s
    BY <1>10, <1>r DEF Register
  <2>2. \A t \in Sockets : sock'[t] = IF t = s THEN [sock[t] EXCEPT !.st = "registered"]
                                      ELSE IF t = cur THEN [sock[t] EXCEPT !.open = FALSE] ELSE sock[t]
    BY <1>10 DEF Register
  <2>3. \A t \in Sockets : /\ [sock[t] EXCEPT !.st = "registered"].st = "registered"
                           /\ [sock[t] EXCEPT !.st = "registered"].open = sock[t].open
                           /\ [sock[t] EXCEPT !.st = "registered"].cred = sock[t].cred
                           /\ [sock[t] EXCEPT !.open = FALSE].open = FALSE
    BY <1>0 DEF SocketRecords
  <2>. QED BY <2>1, <2>2, <2>3 DEF Registers
<1>11. ASSUME BackendRestart PROVE AllClosed
  <2>1. /\ cur' = 0
        /\ sock' = [s \in Sockets |-> [sock[s] EXCEPT
                       !.open = FALSE, !.st = IF @ = "hello" THEN "refused" ELSE @]]
    BY <1>11, Zenon DEF BackendRestart
  <2>. QED BY <1>0, <2>1 DEF AllClosed, SocketRecords
<1>12. ASSUME ServerDeleted \/ \E call \in calls : EnrollCommitted(call) PROVE Disconnect
  BY <1>12 DEF ServerDeleted, EnrollCommitted
<1>13. ASSUME \/ Issue \/ Expire \/ DeleteServer \/ Reconfigure \/ UNCHANGED enrollmentVars
              \/ \E call \in calls : Enroll(call) \/ Answer(call) \/ ExchangeTimesOut(call)
              \/ \E h \in Hosts : Boot(h) \/ Exchange(h) \/ Store(h) \/ StoreFails(h)
                                     \/ LinkDropped(h) \/ HostRestart(h)
       PROVE  UNCHANGED <<sock, cur>>
  BY <1>13 DEF Issue, Expire, DeleteServer, Reconfigure, enrollmentVars, Enroll, Answer, ExchangeTimesOut,
               Boot, Exchange, Store, StoreFails, LinkDropped, HostRestart
<1>. QED BY <1>2, <1>3, <1>4, <1>5, <1>6, <1>7, <1>8, <1>9, <1>10, <1>11, <1>12, <1>13
         DEF EnrollmentNext, HostStep, CallStep, SocketStep, Fault

\* The registry and the sockets keep agreeing.
LEMMA OneRegisteredStep == ASSUME Typed, OneRegistered, [EnrollmentNext]_enrollmentVars PROVE OneRegistered'
<1>0. cur \in Sockets \cup {0} /\ 0 \notin Sockets
  BY EnrollmentConstants DEF Typed
<1>1. CASE UNCHANGED <<sock, cur>>
  BY <1>1 DEF OneRegistered
<1>2. CASE Disconnect
  BY <1>2, DisconnectIs DEF OneRegistered
<1>3. CASE AllClosed
  BY <1>3 DEF AllClosed, OneRegistered
<1>4. ASSUME NEW s \in Sockets, Quits(s) PROVE OneRegistered'
  BY <1>0, <1>4 DEF Quits, OneRegistered
<1>5. ASSUME NEW s \in Sockets, Confirms(s) PROVE OneRegistered'
  BY <1>0, <1>5 DEF Confirms, OneRegistered
<1>6. ASSUME NEW s \in Sockets, Registers(s) PROVE OneRegistered'
  BY <1>0, <1>6 DEF Registers, OneRegistered
<1>. QED BY <1>1, <1>2, <1>3, <1>4, <1>5, <1>6, SocketKinds

\* A new credential, or none, always comes with a callback that disconnects; the
\* callback goes only by running, or with every connection of its process.
LEMMA RevokingStep ==
    ASSUME Typed, OneRegistered, [EnrollmentNext]_enrollmentVars
    PROVE  \/ Revoking' \/ Disconnect \/ AllClosed
           \/ srv'.cred = srv.cred /\ ~Revoking
<1>1. ASSUME Issue \/ Expire PROVE srv'.cred = srv.cred /\ (Revoking => Revoking')
  <2>1. srv'.cred = srv.cred
    BY <1>1 DEF Issue, Issued, Expire, Typed, RowRecords
  <2>. QED BY <1>1, <2>1 DEF Issue, Expire, Revoking
<1>2. ASSUME DeleteServer PROVE Revoking'
  BY <1>2 DEF DeleteServer, Revoking
<1>3. ASSUME NEW call \in calls, Enroll(call)
      PROVE  Revoking' \/ (srv'.cred = srv.cred /\ (Revoking => Revoking'))
  <2>1. CASE Redeemable(call.token)
    <3>0. Unknown # {} /\ calls' = Turned(call, "committed", CHOOSE c \in Unknown : TRUE)
      BY <1>3, <2>1 DEF Enroll
    <3>. DEFINE c == CHOOSE c \in Unknown : TRUE
    <3>c. c \in 0..MaxCreds
      BY <3>0, Chosen, EnrollmentConstants
    <3>. HIDE DEF c
    <3>1. calls' = Turned(call, "committed", c)
      BY <3>0 DEF c
    <3>. QED BY <3>c, <3>1, TurnedIs DEF Revoking
  <2>2. CASE ~Redeemable(call.token)
    <3>1. calls' = Turned(call, "refused", 0) /\ srv' = srv /\ deleting' = deleting /\ call.state = "sent"
      BY <1>3, <2>2 DEF Enroll
    <3>2. 0 \in 0..MaxCreds
      BY EnrollmentConstants
    <3>3. PICK turned \in CallRecords : calls' = (calls \ {call}) \cup {turned}
      BY <3>1, <3>2, TurnedIs
    <3>. QED BY <3>1, <3>3 DEF Revoking
  <2>. QED BY <2>1, <2>2
<1>4. ASSUME NEW call \in calls, Answer(call) \/ ExchangeTimesOut(call)
      PROVE  srv' = srv /\ (Revoking => Revoking')
  <2>0. call \in CallRecords
    BY DEF Typed
  <2>1. [call EXCEPT !.awaited = FALSE].state = call.state
    BY <2>0 DEF CallRecords
  <2>2. /\ srv' = srv /\ deleting' = deleting
        /\ \/ call.state # "committed" /\ calls' = calls \ {call}
           \/ calls' = (calls \ {call}) \cup {[call EXCEPT !.awaited = FALSE]}
    BY <1>4 DEF Answer, ExchangeTimesOut
  <2>. QED BY <2>1, <2>2 DEF Revoking
<1>5. ASSUME NEW h \in Hosts,
             \/ Boot(h) \/ Exchange(h) \/ Store(h) \/ StoreFails(h) \/ LinkDropped(h) \/ Dial(h)
             \/ SessionEnds(h)
      PROVE  srv' = srv /\ (Revoking => Revoking')
  BY <1>5 DEF Boot, Exchange, Store, StoreFails, LinkDropped, Dial, SessionEnds, Revoking
<1>6. ASSUME (\E h \in Hosts : HostRestart(h)) \/ Reconfigure
      PROVE  srv' = srv /\ (Revoking => Revoking')
  <2>1. PICK h \in Hosts : calls' = Abandoned(h)
    BY <1>6, EnrollmentConstants DEF HostRestart, Reconfigure, Restarted, Abandoned
  <2>2. srv' = srv /\ deleting' = deleting
    BY <1>6 DEF HostRestart, Reconfigure
  <2>. QED BY <2>1, <2>2, RestartedCalls DEF Revoking
<1>7. ASSUME NEW s \in Sockets,
             \/ Authenticate(s) \/ AcceptControl(s) \/ Register(s) \/ PeerGone(s)
             \/ SocketDropped(s) \/ Forget(s)
      PROVE  srv' = srv /\ (Revoking => Revoking')
  <2>1. UNCHANGED <<srv, calls, deleting>>
    BY <1>7 DEF Authenticate, AcceptControl, Register, PeerGone, SocketDropped, Forget
  <2>. QED BY <2>1 DEF Revoking
<1>8. ASSUME NEW s \in Sockets, ConfirmControl(s)
      PROVE  srv'.cred = srv.cred /\ (Revoking => Revoking')
  <2>1. Spent(srv).cred = srv.cred
    BY DEF Spent, Typed, RowRecords
  <2>2. srv'.cred = srv.cred
    BY <1>8, <2>1 DEF ConfirmControl
  <2>. QED BY <1>8, <2>2 DEF ConfirmControl, Revoking
<1>9. ASSUME ServerDeleted \/ \E call \in calls : EnrollCommitted(call) PROVE Disconnect
  BY <1>9 DEF ServerDeleted, EnrollCommitted
<1>10. ASSUME BackendRestart PROVE AllClosed
  <2>0. \A s \in Sockets : sock[s] \in SocketRecords
    BY DEF Typed
  <2>1. /\ cur' = 0
        /\ sock' = [s \in Sockets |-> [sock[s] EXCEPT
                       !.open = FALSE, !.st = IF @ = "hello" THEN "refused" ELSE @]]
    BY <1>10, Zenon DEF BackendRestart
  <2>. QED BY <2>0, <2>1 DEF AllClosed, SocketRecords
<1>11. UNCHANGED enrollmentVars => srv' = srv /\ (Revoking => Revoking')
  BY DEF enrollmentVars, Revoking
<1>. QED BY <1>1, <1>2, <1>3, <1>4, <1>5, <1>6, <1>7, <1>8, <1>9, <1>10, <1>11
         DEF EnrollmentNext, HostStep, CallStep, SocketStep, Fault

\* Whoever was confirmed with another credential than the row's is disconnected.
LEMMA RevocableStep ==
    ASSUME Typed, OneRegistered, Revocable, [EnrollmentNext]_enrollmentVars PROVE Revocable'
<1>. SUFFICES ASSUME NEW s \in Sockets, sock'[s].open, sock'[s].st \in {"confirmed", "registered"},
                     sock'[s].cred # srv'.cred, ~Revoking'
              PROVE  FALSE
  BY DEF Revocable
<1>1. ~Disconnect
  BY DisconnectIs DEF Pending, OneRegistered
<1>2. ~AllClosed
  BY DEF AllClosed
<1>3. srv'.cred = srv.cred /\ ~Revoking
  BY <1>1, <1>2, RevokingStep
<1>4. ASSUME NEW t \in Sockets, Quits(t) PROVE FALSE
  BY <1>3, <1>4 DEF Quits, Revocable
<1>5. ASSUME NEW t \in Sockets, Confirms(t) PROVE FALSE
  BY <1>3, <1>5 DEF Confirms, Revocable
<1>6. ASSUME NEW t \in Sockets, Registers(t) PROVE FALSE
  BY <1>3, <1>6 DEF Registers, Revocable
<1>7. CASE UNCHANGED <<sock, cur>>
  BY <1>3, <1>7 DEF Revocable
<1>. QED BY <1>1, <1>2, <1>4, <1>5, <1>6, <1>7, SocketKinds

--------------------------------------------------------------------------------
(***************************************************************************)
(* The token                                                                  *)
(***************************************************************************)

\* What a step does to token, credential and their history.
TokenStays ==
    /\ srv'.token = srv.token /\ srv'.unconfirmed = srv.unconfirmed /\ srv'.cred = srv.cred
    /\ from' = from /\ used' = used /\ issued' = issued
TokenReplaced ==
    /\ srv'.token = issued + 1 /\ srv'.unconfirmed = FALSE /\ srv'.cred = srv.cred
    /\ from' = from /\ used' = used /\ issued' = issued + 1
TokenDropped ==
    /\ srv'.token = 0 /\ srv'.exists = FALSE
    /\ from' = from /\ used' = used /\ issued' = issued
TokenRedeemed ==
    /\ srv.token # 0 /\ srv'.token = srv.token /\ srv'.unconfirmed = TRUE
    /\ from' = srv.token /\ used' = FALSE /\ issued' = issued
TokenSpent ==
    /\ srv.unconfirmed /\ srv'.token = 0 /\ srv'.cred = srv.cred
    /\ from' = from /\ used' = TRUE /\ issued' = issued
UsedAgain ==
    /\ ~srv.unconfirmed /\ srv' = srv
    /\ from' = from /\ used' = TRUE /\ issued' = issued

\* Every step is one of these.
LEMMA TokenKinds ==
    ASSUME Typed, [EnrollmentNext]_enrollmentVars
    PROVE  \/ TokenStays \/ TokenReplaced \/ TokenDropped \/ TokenRedeemed \/ TokenSpent
           \/ UsedAgain
<1>0. srv \in RowRecords
  BY DEF Typed
<1>1. CASE Issue
  BY <1>0, <1>1 DEF Issue, Issued, RowRecords, TokenReplaced
<1>2. CASE Expire
  BY <1>0, <1>2 DEF Expire, RowRecords, TokenStays
<1>3. CASE DeleteServer
  BY <1>0, <1>3 DEF DeleteServer, history, RowRecords, TokenDropped
<1>4. ASSUME NEW call \in calls, Enroll(call), Redeemable(call.token)
      PROVE  TokenRedeemed
  <2>0. /\ srv' = Enrolled(srv, CHOOSE c \in Unknown : TRUE)
        /\ from' = call.token /\ used' = FALSE /\ issued' = issued
    BY <1>4 DEF Enroll
  <2>1. \A c : Enrolled(srv, c).token = srv.token /\ Enrolled(srv, c).unconfirmed = TRUE
    BY <1>0 DEF Enrolled, RowRecords
  <2>2. srv.token # 0 /\ srv.token = call.token
    BY <1>4 DEF Redeemable
  <2>. QED BY <2>0, <2>1, <2>2 DEF TokenRedeemed
<1>5. ASSUME NEW s \in Sockets, ConfirmControl(s), Valid(s)
      PROVE  TokenSpent \/ UsedAgain
  <2>1. srv' = Spent(srv) /\ from' = from /\ used' = TRUE /\ issued' = issued
    BY <1>5 DEF ConfirmControl
  <2>. QED BY <1>0, <2>1 DEF Spent, RowRecords, TokenSpent, UsedAgain
<1>6. ASSUME \/ \E call \in calls : \/ Enroll(call) /\ ~Redeemable(call.token)
                                    \/ EnrollCommitted(call) \/ Answer(call) \/ ExchangeTimesOut(call)
             \/ \E s \in Sockets : ConfirmControl(s) /\ ~Valid(s)
             \/ ServerDeleted \/ Reconfigure \/ BackendRestart \/ UNCHANGED enrollmentVars
             \/ \E h \in Hosts : Boot(h) \/ Exchange(h) \/ Store(h) \/ StoreFails(h) \/ LinkDropped(h)
                                    \/ Dial(h) \/ SessionEnds(h) \/ HostRestart(h)
             \/ \E s \in Sockets : Authenticate(s) \/ AcceptControl(s) \/ Register(s) \/ PeerGone(s)
                                    \/ SocketDropped(s) \/ Forget(s)
      PROVE  TokenStays
  <2>. SUFFICES UNCHANGED <<srv, from, used, issued>>
    BY DEF TokenStays
  <2>1. CASE BackendRestart
    BY <2>1, Zenon DEF BackendRestart, history
  <2>2. CASE \E call \in calls : \/ Enroll(call) /\ ~Redeemable(call.token)
                                 \/ EnrollCommitted(call) \/ Answer(call) \/ ExchangeTimesOut(call)
    BY <2>2 DEF Enroll, EnrollCommitted, Answer, ExchangeTimesOut, history
  <2>3. CASE \E s \in Sockets : ConfirmControl(s) /\ ~Valid(s)
    BY <2>3 DEF ConfirmControl
  <2>4. CASE ServerDeleted \/ Reconfigure \/ UNCHANGED enrollmentVars
    BY <2>4 DEF ServerDeleted, Reconfigure, enrollmentVars, history
  <2>5. CASE \E h \in Hosts : Boot(h) \/ Exchange(h) \/ Store(h) \/ StoreFails(h) \/ LinkDropped(h)
                                 \/ Dial(h) \/ SessionEnds(h) \/ HostRestart(h)
    BY <2>5 DEF Boot, Exchange, Store, StoreFails, LinkDropped, Dial, SessionEnds, HostRestart, history
  <2>6. CASE \E s \in Sockets : Authenticate(s) \/ AcceptControl(s) \/ Register(s) \/ PeerGone(s)
                                 \/ SocketDropped(s) \/ Forget(s)
    BY <2>6 DEF Authenticate, AcceptControl, Register, PeerGone, SocketDropped, Forget, history
  <2>. QED BY <1>6, <2>1, <2>2, <2>3, <2>4, <2>5, <2>6
<1>. QED BY <1>1, <1>2, <1>3, <1>4, <1>5, <1>6 DEF EnrollmentNext, HostStep, CallStep, SocketStep, Fault

\* The history of the token is kept.
LEMMA TokenHistoryStep == ASSUME Typed, TokenHistory, [EnrollmentNext]_enrollmentVars PROVE TokenHistory'
<1>1. /\ srv.token \in Nat /\ issued \in Nat /\ from \in Nat /\ srv.unconfirmed \in BOOLEAN
      /\ used \in BOOLEAN
  BY EnrollmentConstants DEF Typed, RowRecords
<1>2. TokenStays \/ TokenReplaced => TokenHistory'
  BY <1>1 DEF TokenHistory, TokenStays, TokenReplaced
<1>3. TokenDropped \/ TokenRedeemed => TokenHistory'
  BY <1>1 DEF TokenHistory, TokenDropped, TokenRedeemed
<1>4. TokenSpent \/ UsedAgain => TokenHistory'
  BY <1>1 DEF TokenHistory, TokenSpent, UsedAgain
<1>. QED BY <1>2, <1>3, <1>4, TokenKinds

--------------------------------------------------------------------------------
(***************************************************************************)
(* The theorems                                                               *)
(***************************************************************************)

\* The first state satisfies the invariant.
LEMMA EnrollmentStarts == EnrollmentInit => EInv
<1>. SUFFICES ASSUME EnrollmentInit PROVE EInv
  OBVIOUS
<1>c. /\ 0 \in 0..MaxTokens /\ 1 \in 0..MaxTokens /\ 0 \in 0..MaxCreds /\ 1 \in 0..MaxCreds
      /\ 0 \in 0..MaxEvents /\ 0 \notin Sockets
  BY EnrollmentConstants
<1>1. PICK enrolled \in {0, 1} :
         /\ srv = [exists |-> TRUE, token |-> 1, fresh |-> TRUE, cred |-> enrolled, unconfirmed |-> FALSE]
         /\ host = [h \in Hosts |-> IF h = Owner THEN Agent(1, 0) ELSE Agent(0, enrolled)]
         /\ used = (enrolled = 1)
  BY DEF EnrollmentInit
<1>2. /\ calls = {} /\ sock = [s \in Sockets |-> Free] /\ cur = 0 /\ deleting = FALSE
      /\ issued = 1 /\ from = 0 /\ spoilt = FALSE /\ events = 0
  BY DEF EnrollmentInit
<1>3. \A env \in {0, 1}, stored \in {0, 1} :
         /\ Agent(env, stored) \in AgentRecords
         /\ Agent(env, stored).pc = "boot" /\ Agent(env, stored).sock = 0
  BY <1>c DEF Agent, AgentRecords
<1>4. Typed
  <2>1. srv \in RowRecords
    BY <1>c, <1>1 DEF RowRecords
  <2>2. host \in [Hosts -> AgentRecords]
    BY <1>1, <1>3
  <2>3. sock \in [Sockets -> SocketRecords]
    BY <1>2, FreeIs
  <2>. QED BY <1>c, <1>1, <1>2, <2>1, <2>2, <2>3 DEF Typed
<1>5. Waits
  BY <1>1, <1>2, <1>3 DEF Waits
<1>6. OneRegistered /\ Revocable
  BY <1>2, FreeIs DEF OneRegistered, Revocable
<1>7. TokenHistory
  BY <1>1, <1>2 DEF TokenHistory
<1>. QED BY <1>4, <1>5, <1>6, <1>7 DEF EInv

\* The invariant holds in every reachable state.
THEOREM EnrollmentInductive == EnrollmentSpec => []EInv
<1>1. EInv /\ [EnrollmentNext]_enrollmentVars => EInv'
  BY TypedStep, WaitsStep, OneRegisteredStep, RevocableStep, TokenHistoryStep DEF EInv
<1>. QED BY <1>1, EnrollmentStarts, PTL DEF EnrollmentSpec

\* Once the callback of the transaction that revoked it has run, no agent is
\* registered with a credential that is no longer the server's, wherever between
\* upgrade, hello and registration its socket was; registry and row agree.
THEOREM NoRevokedAgentStays == EnrollmentSpec => []AgentsAreCurrent
<1>1. ASSUME EInv PROVE AgentsAreCurrent
  <2>1. EnrollmentTypeOK
    BY <1>1 DEF EInv, Typed, Waits, OneRegistered, EnrollmentTypeOK, RowRecords, AgentRecords
  <2>2. NoRevokedAgent
    <3>1. SUFFICES ASSUME cur # 0, sock[cur].cred # srv.cred PROVE Revoking
      BY DEF NoRevokedAgent, Revoking
    <3>2. cur \in Sockets /\ sock[cur].open /\ sock[cur].st = "registered"
      BY <1>1, <3>1 DEF EInv, Typed, OneRegistered
    <3>. QED BY <1>1, <3>1, <3>2 DEF EInv, Revocable
  <2>. QED BY <2>1, <2>2 DEF AgentsAreCurrent
<1>. QED BY <1>1, EnrollmentInductive, PTL

\* A token is spent only by the first use of a credential minted from it, and no
\* late or repeated exchange of a token replaces a credential that was used.
THEOREM TokensServeOnce == EnrollmentSpec => TokenServesOnce
<1>1. ASSUME EInv, [EnrollmentNext]_enrollmentVars
      PROVE  /\ srv.token # 0 /\ srv'.token = 0 /\ srv'.exists =>
                  from = srv.token /\ ~used /\ used'
             /\ used /\ srv'.cred # srv.cred /\ srv'.exists => from' # from
  <2>1. Typed /\ TokenHistory
    BY <1>1 DEF EInv
  <2>2. /\ srv.token \in Nat /\ issued \in Nat /\ from \in Nat /\ srv.unconfirmed \in BOOLEAN
        /\ used \in BOOLEAN
    BY <2>1, EnrollmentConstants DEF Typed, RowRecords
  <2>3. CASE TokenStays \/ TokenDropped \/ UsedAgain
    BY <2>3 DEF TokenStays, TokenDropped, UsedAgain
  <2>4. CASE TokenReplaced
    BY <2>2, <2>4 DEF TokenReplaced
  <2>5. CASE TokenRedeemed
    BY <2>1, <2>2, <2>5 DEF TokenRedeemed, TokenHistory
  <2>6. CASE TokenSpent
    BY <2>1, <2>2, <2>6 DEF TokenSpent, TokenHistory
  <2>. QED BY <1>1, <2>1, <2>3, <2>4, <2>5, <2>6, TokenKinds
<1>. QED BY <1>1, EnrollmentInductive, PTL DEF EnrollmentSpec, TokenServesOnce

================================================================================
