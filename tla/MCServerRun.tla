---------------------------- MODULE MCServerRun ----------------------------
(* Small instances of ServerRun. *)
EXTENDS ServerRun, TLC

CONSTANTS r1, r2, r3

MCSymmetric == Permutations(Reqs)
=============================================================================
