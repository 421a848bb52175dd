----------------------------- MODULE AssumedView -----------------------------
(***************************************************************************)
(* What the comment on assumeCache promises of its objects: the version    *)
(* the informer has shown only grows, an assumption is one on the version  *)
(* shown, and a newer version always ends it.                              *)
(***************************************************************************)
EXTENDS Naturals

CONSTANT Objects

VARIABLES
    process,   \* which process of the scheduler it is
    shown,     \* the version of each object, 0 for one that is not known
    assumed    \* the objects of which something is assumed

vars == <<process, shown, assumed>>

Init == shown \in [Objects -> Nat] /\ assumed = {} /\ process = 0

(* An informer update always overrides the latest object.                  *)
Show(x) ==
    /\ shown'[x] > shown[x]
    /\ shown' = [shown EXCEPT ![x] = shown'[x]]
    /\ assumed' = assumed \ {x}
    /\ UNCHANGED process

Forget(x) ==
    /\ shown' = [shown EXCEPT ![x] = 0]
    /\ assumed' = assumed \ {x}
    /\ UNCHANGED process

(* Assume and Restore leave what the informer has shown.                   *)
Assume ==
    /\ assumed \subseteq assumed' /\ assumed' \subseteq Objects
    /\ \A x \in assumed' : shown[x] > 0
    /\ UNCHANGED <<process, shown>>

Restore == assumed' \subseteq assumed /\ UNCHANGED <<process, shown>>

(* A new process begins with what it lists.                                *)
Restart == process' = process + 1 /\ shown' \in [Objects -> Nat] /\ assumed' = {}

Next == (\E x \in Objects : Show(x) \/ Forget(x)) \/ Assume \/ Restore \/ Restart

Spec == Init /\ [][Next]_vars
=============================================================================
