---------------------------- MODULE MCReconcileQueue ----------------------------
(***************************************************************************)
(* Two resources of a server that takes one at a time, with a page of one. *)
(***************************************************************************)
EXTENDS ReconcileQueue, TLC

CONSTANTS i1, i2, r1, r2, s1

MCIntents == {i1, i2}
MCResources == {r1, r2}
MCHosts == {s1}
MCResourceOf == (i1 :> r1) @@ (i2 :> r2)
MCServerOf == (r1 :> s1) @@ (r2 :> s1)

================================================================================
