---------------------------- MODULE MCClearCache ----------------------------
(***************************************************************************)
(* Small instances of ClearCache: process p1 reads r1, process p2 reads r2,*)
(* on one host.                                                            *)
(***************************************************************************)
EXTENDS ClearCache, TLC

CONSTANTS h1, p1, p2, k1, k2, o1, o2, r1, r2

MCOff == [p \in Procs |-> FALSE]
MCOneHost == [p \in Procs |-> h1]
MCProcOf == [r \in Reqs |-> IF r = r1 THEN p1 ELSE p2]

MCSymmetric == Permutations(Keys) \cup Permutations(Outputs)
=============================================================================
