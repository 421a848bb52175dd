----------------------------- MODULE MCPipeline -----------------------------
(***************************************************************************)
(* Small instances of Pipeline: p1 and p2 name the general purpose         *)
(* scheduler, p3 the short job scheduler; so do s1, s2 and s3.             *)
(***************************************************************************)
EXTENDS Pipeline, TLC

CONSTANTS p1, p2, p3, s1, s2, s3

MCKind   == [s \in Schedulers |-> IF s = s3 THEN "short" ELSE "general"]
MCWanted == [p \in Pods |-> IF p = p3 THEN "short" ELSE "general"]

(* A bound on the instance: p1 is created again only where p3 has not been *)
(* created, and p3 only where p1 has not been created again.  Only the     *)
(* user's CreatePod is held back, so that fairness asks for no step that   *)
(* the bound forbids.                                                      *)
MCOneOrTwice == api[p1].uid < 2 \/ api[p3].uid = 0

MCFairSpec == Init /\ [][Next /\ MCOneOrTwice']_vars /\ Fairness
=============================================================================
