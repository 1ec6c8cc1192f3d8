----------------------------- MODULE PlacementLock -----------------------------
(***************************************************************************)
(* What the reconcile claims promise to the code that runs under them: a      *)
(* worker acquires a placement only while nobody works on one that conflicts  *)
(* with it, and any number of workers may lose theirs at any moment (a pass   *)
(* ends, a lease lapses, a process dies).  ReconcileClaims implements it with *)
(* rows, leases, renewals and a skewed clock.                                 *)
(***************************************************************************)
CONSTANTS Workers,      \* worker ids
          Keys,         \* placements
          Conflicts     \* pairs of placements nobody may work on at once

VARIABLE holds          \* pairs <<worker, placement>> at work

Init == holds = {}

Acquire(w, k) ==
    /\ \A g \in holds : <<k, g[2]>> \notin Conflicts
    /\ holds' = holds \cup {<<w, k>>}

Lose == holds' \in SUBSET holds

Next == Lose \/ \E w \in Workers, k \in Keys : Acquire(w, k)

Spec == Init /\ [][Next]_holds
================================================================================
