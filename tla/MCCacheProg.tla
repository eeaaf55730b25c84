---------------------------- MODULE MCCacheProg ----------------------------
(***************************************************************************)
(* Small instances of CacheProg. Process p1 reads r1 and r2, p2 reads r3   *)
(* and, where there is one, p3 reads r4; the .cfg files choose the hosts.  *)
(***************************************************************************)
EXTENDS CacheProg, TLC

CONSTANTS h1, h2, h3, p1, p2, p3, k1, k2, o1, o2, r1, r2, r3, r4

MCOff == [p \in Procs |-> FALSE]
MCOn  == [p \in Procs |-> TRUE]
MCOnlyP1 == [p \in Procs |-> p = p1]
MCOnlyP2 == [p \in Procs |-> p = p2]

MCProcOf ==
    [r \in Reqs |-> CASE r \in {r1, r2} -> p1 [] r = r3 -> p2 [] OTHER -> p3]

MCOneHost == [p \in Procs |-> h1]
MCOwnHost == [p \in Procs |-> IF p = p2 THEN h2 ELSE h1]

MCThreeHosts == [p \in Procs |-> CASE p = p1 -> h1 [] p = p2 -> h2 [] OTHER -> h3]

MCSymmetric == Permutations(Outputs) \cup Permutations(Keys)
=============================================================================
