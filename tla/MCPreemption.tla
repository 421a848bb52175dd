----------------------------- MODULE MCPreemption -----------------------------
(* mid and high contend for the place of low, and then for each other's,   *)
(* and mid may be created again.  Any two pods are too much for the node.  *)
EXTENDS Preemption, TLC

CONSTANTS low, mid, high, s1, s2

Amount(c, m) == [cpu |-> c, memory |-> m]

MCNode     == [allocatable |-> Amount(2, 1), allowedPods |-> 2]
MCRequest  == [p \in Pods |-> CASE p = low -> Amount(1, 1) [] p = mid -> Amount(2, 1)
                                 [] OTHER -> Amount(1, 1)]
MCPriority == [p \in Pods |-> IF p = low THEN 0 ELSE 1]

Symmetry == Permutations(Schedulers)
=============================================================================
