--------------------------- MODULE MCReconcileClaims ---------------------------
(***************************************************************************)
(* A small instance of ReconcileClaims: a volume with its destroy placement   *)
(* and a placement on the one server, and a container on that server.  Two    *)
(* of the three keys fill the server, so the capacity check decides, and a     *)
(* renewal is due one tick into the lease.                                     *)
(***************************************************************************)
EXTENDS ReconcileClaims

CONSTANTS v, c, s

MCKeys == {<<v, Destroy>>, <<v, s>>, <<c, s>>}
MCVolumes == {v}
MCServers == {s}

================================================================================
