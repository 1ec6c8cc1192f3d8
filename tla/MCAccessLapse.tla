----------------------------- MODULE MCAccessLapse -----------------------------
(***************************************************************************)
(* Two replicas on one pair, of either kind.                                  *)
(***************************************************************************)
EXTENDS AccessLapse

CONSTANTS p1, p2, pair

MCProcesses == {p1, p2}
MCPairs == {pair}

================================================================================
