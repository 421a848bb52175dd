--------------------------- MODULE CacheSnapshot ----------------------------
(***************************************************************************)
(* What UpdateSnapshot promises (internal/cache/interface.go:100-102:      *)
(* "updates the passed infoSnapshot to the current contents of Cache"),    *)
(* without generations, lists or incremental copies: a snapshot is taken   *)
(* at once, and then shows every node of the cache exactly as it is; as    *)
(* long as it counts as current there is nothing to update.                *)
(* Entries of nodes the cache no longer has may linger unchanged; when     *)
(* they go is not promised here.                                           *)
(***************************************************************************)
VARIABLES content,      \* node name -> what the cache holds of the node
          seen,         \* node name -> what the snapshot shows of it
          current       \* whether another snapshot would change nothing

Init == DOMAIN content = {} /\ DOMAIN seen = {} /\ current = TRUE

Shows == \A n \in DOMAIN content : n \in DOMAIN seen /\ seen[n] = content[n]

(* The handlers and the scheduler change the cache, never the snapshot.    *)
Change == UNCHANGED seen /\ (current' => Shows')

TakeSnapshot ==
    /\ UNCHANGED content
    /\ current' = TRUE
    /\ Shows'
    /\ \A n \in DOMAIN seen' \ DOMAIN content : n \in DOMAIN seen /\ seen'[n] = seen[n]

Next == Change \/ TakeSnapshot

Spec == Init /\ [][Next]_<<content, seen, current>>

=============================================================================
