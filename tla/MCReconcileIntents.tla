--------------------------- MODULE MCReconcileIntents ---------------------------
(***************************************************************************)
(* Small instances of ReconcileIntents for TLC.                              *)
(***************************************************************************)
EXTENDS ReconcileIntents, TLC

WorkerSymmetry == Permutations(Workers)

================================================================================
