---------------------------- MODULE PodLifecycle ----------------------------
(***************************************************************************)
(* The state machine internal/cache/interface.go draws for a pod in the    *)
(* scheduler's cache (lines 33-56).  Initial stands for Initial, Expired   *)
(* and Deleted, which "do not actually exist in cache".  Assumed is split  *)
(* by how far binding is: under way, finished with time left, or due.      *)
(* While the expiry sweep holds the lock (sweeping) a pod can only leave   *)
(* because it is due.                                                      *)
(***************************************************************************)
CONSTANT PodKeys

VARIABLES life, sweeping

AssumedStates == {"Binding", "Waiting", "Due"}
States        == {"Initial", "Added"} \cup AssumedStates

Assume == {<<"Initial", "Binding">>}
Finish == AssumedStates \X {"Waiting"}
Age    == {<<"Waiting", "Due">>}
Forget == AssumedStates \X {"Initial"}
Add    == ({"Initial"} \cup AssumedStates) \X {"Added"}
Remove == {<<"Added", "Initial">>}
Expire == {<<"Due", "Initial">>}

Stay  == {<<s, s>> : s \in States}
Moves == IF sweeping THEN Expire
         ELSE Assume \cup Finish \cup Age \cup Forget \cup Add \cup Remove

Init == life = [k \in PodKeys |-> "Initial"] /\ sweeping = FALSE

(* Time passes for several pods at once; every other move is of one pod.   *)
Next ==
    /\ sweeping' \in BOOLEAN
    /\ \A k \in PodKeys : <<life[k], life'[k]>> \in Moves \cup Stay
    /\ \/ \A k \in PodKeys : <<life[k], life'[k]>> \in Age \cup Stay
       \/ \E k \in PodKeys : \A other \in PodKeys \ {k} : life'[other] = life[other]

Spec == Init /\ [][Next]_<<life, sweeping>>

=============================================================================
