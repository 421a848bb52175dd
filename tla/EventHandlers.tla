--------------------------- MODULE EventHandlers ----------------------------
(***************************************************************************)
(* The scheduler cache as the general purpose scheduler drives it: the     *)
(* handlers of event_handlers.go call it from the goroutines of the node   *)
(* and the pod informer, and the scheduling loop takes snapshots.  Nothing *)
(* is ever assumed: the binary calls neither AssumePod nor FinishBinding.  *)
(*                                                                         *)
(* Each informer delivers the history of an object in order, but nothing   *)
(* orders the two informers: a pod may be seen on a node before the node   *)
(* is, or after it was deleted.  Unlike upstream, the pod handlers do not  *)
(* filter: a pod is in the cache under the nameless node until it is bound.*)
(* A UID is bound at most once and never comes back once it is gone; the   *)
(* name of a pod may, with another UID.                                    *)
(***************************************************************************)
EXTENDS SchedulerCache

CONSTANTS
    Unseen, Gone,     \* what is known of a pod before and after its life
    Removable,        \* the nodes that may be deleted
    AddedOn,          \* the nodes (or NoNode) pods may be on when first seen
    MissedDeletes     \* whether a watch may break over a deletion

ASSUME HandlersAssumption ==
    /\ Unseen # Gone
    /\ {Unseen, Gone} \cap AllNames = {}
    /\ Removable \subseteq Names
    /\ AddedOn \subseteq AllNames
    /\ MissedDeletes \in BOOLEAN

VARIABLES
    podView,          \* the node of each pod in the pod informer's store
    nodeView,         \* each node in the node informer's store
    listed,           \* pods in the informer's store of this process
    renewed           \* history: pods of which this process saw only an update
                      \* from one to the other, no deletion and no addition

views   == <<podView, nodeView, listed, renewed>>
allVars == <<vars, views>>

Pod(key, node) == [key |-> key, node |-> node]

HandlersInit ==
    /\ Init
    /\ podView = [k \in PodKeys |-> Unseen]
    /\ nodeView = [n \in Names |-> Null]
    /\ listed = {}
    /\ renewed = {}

(* A pod that was seen on a node stays there. *)
Possible(key, node) == podView[key] \in Names => node = podView[key]

OnPodAdd(key, node) ==
    /\ key \notin listed
    /\ podView[key] # Gone
    /\ node \in AddedOn
    /\ Possible(key, node)
    /\ AddPod(Pod(key, node))
    /\ podView' = [podView EXCEPT ![key] = node]
    /\ listed' = listed \cup {key}
    /\ UNCHANGED <<nodeView, renewed>>

OnPodUpdate(key, node) ==
    /\ key \in listed
    /\ Possible(key, node)
    /\ UpdatePod(Pod(key, podView[key]), Pod(key, node))
    /\ podView' = [podView EXCEPT ![key] = node]
    /\ UNCHANGED <<nodeView, listed, renewed>>

OnPodDelete(key) ==
    /\ key \in listed
    /\ RemovePod(Pod(key, podView[key]))
    /\ podView' = [podView EXCEPT ![key] = Gone]
    /\ listed' = listed \ {key}
    /\ UNCHANGED <<nodeView, renewed>>

(* A deletion found out by relisting arrives as a DeletedFinalStateUnknown,*)
(* which the handlers' unchecked type assertions do not expect.            *)
OnPodDeleteMissed(key) ==
    /\ MissedDeletes /\ CanChange
    /\ key \in listed
    /\ Panic
    /\ podView' = [podView EXCEPT ![key] = Gone]
    /\ listed' = listed \ {key}
    /\ UNCHANGED <<nodeView, renewed>>

(* When the pod was created again under its name before the watch is back, *)
(* the informer, which knows objects by name, finds no deletion: it hands  *)
(* the handler one update from the old UID to the new one.                 *)
OnPodRenewed(old, new, node) ==
    /\ MissedDeletes
    /\ old \in listed
    /\ podView[new] = Unseen
    /\ node \in AddedOn
    /\ UpdatePod(Pod(old, podView[old]), Pod(new, node))
    /\ podView' = [podView EXCEPT ![old] = Gone, ![new] = node]
    /\ listed' = (listed \ {old}) \cup {new}
    /\ renewed' = renewed \cup {old, new}
    /\ UNCHANGED nodeView

OnNodeAdd(obj) ==
    /\ nodeView[obj.name] = Null
    /\ AddNode(obj)
    /\ nodeView' = [nodeView EXCEPT ![obj.name] = obj]
    /\ UNCHANGED <<podView, listed, renewed>>

OnNodeUpdate(obj) ==
    /\ nodeView[obj.name] # Null
    /\ UpdateNode(nodeView[obj.name], obj)
    /\ nodeView' = [nodeView EXCEPT ![obj.name] = obj]
    /\ UNCHANGED <<podView, listed, renewed>>

OnNodeDelete(name) ==
    /\ name \in Removable
    /\ nodeView[name] # Null
    /\ RemoveNode(nodeView[name])
    /\ nodeView' = [nodeView EXCEPT ![name] = Null]
    /\ UNCHANGED <<podView, listed, renewed>>

OnNodeDeleteMissed(name) ==
    /\ MissedDeletes /\ CanChange
    /\ name \in Removable
    /\ nodeView[name] # Null
    /\ Panic
    /\ nodeView' = [nodeView EXCEPT ![name] = Null]
    /\ UNCHANGED <<podView, listed, renewed>>

(* The start of a scheduling cycle. *)
Snapshot == UpdateSnapshot /\ UNCHANGED views

(* Kubernetes restarts the container: an empty cache, and informers that   *)
(* list everything again.                                                  *)
Restart ==
    /\ dead
    /\ store' = [nodes |-> [n \in {} |-> Null], list |-> <<>>, generation |-> 0]
    /\ podStates' = [k \in {} |-> Null]
    /\ assumedPods' = {} /\ sweep' = {}
    /\ tree' = EmptyTree
    /\ imageStates' = [i \in Images |-> {}]
    /\ snapshot' = [map |-> [n \in {} |-> Null], list |-> <<>>, affinity |-> <<>>, gen |-> 0]
    /\ dead' = FALSE
    /\ listed' = {} /\ renewed' = {}
    /\ nodeView' = [n \in Names |-> Null]
    /\ UNCHANGED podView

HandlersNext ==
    \/ \E key \in PodKeys, node \in AllNames : OnPodAdd(key, node) \/ OnPodUpdate(key, node)
    \/ \E key \in PodKeys : OnPodDelete(key) \/ OnPodDeleteMissed(key)
    \/ \E old, new \in PodKeys, node \in AllNames : OnPodRenewed(old, new, node)
    \/ \E obj \in Objects : OnNodeAdd(obj) \/ OnNodeUpdate(obj)
    \/ \E name \in Names : OnNodeDelete(name) \/ OnNodeDeleteMissed(name)
    \/ Snapshot
    \/ Restart

HandlersSpec == HandlersInit /\ [][HandlersNext]_allVars

-----------------------------------------------------------------------------
InCache(n) == n \in DOMAIN store.nodes /\ store.nodes[n].obj # Null

(* No interleaving of the two informers counts a pod on two nodes, nor     *)
(* twice on one: NodeInfo.Requested never charges a pod more than once.    *)
CountedAtMostOnce ==
    \A k \in PodKeys :
        /\ \A n \in DOMAIN store.nodes : store.nodes[n].pods[k] <= 1
        /\ \A m, n \in DOMAIN store.nodes :
              store.nodes[m].pods[k] > 0 /\ store.nodes[n].pods[k] > 0 => m = n

(* What a named node is charged for is bound to it now: deletions and      *)
(* moves that find the pod elsewhere never leave it behind on a real node. *)
(* That holds of the pods whose deletion was delivered as one.  A pod that *)
(* an update renewed stays charged after it is deleted: it has no state of *)
(* its own, and OnPodDelete finds nothing to subtract (cache.go:544).      *)
ChargedPodsAreBound ==
    ~dead => \A n \in DOMAIN store.nodes \ {NoNode}, k \in PodKeys \ renewed :
        store.nodes[n].pods[k] > 0 => k \in listed /\ podView[k] = n

(* The object the cache holds of a listed pod has the node the informer    *)
(* last delivered, also after updates that failed or returned early, so    *)
(* that RemovePod never meets the mismatch it ends the process for         *)
(* ("Schedulercache is corrupted", cache.go:534-537), although the same    *)
(* check in UpdatePod is commented out (cache.go:505-508).  A pod that     *)
(* came with an update from another UID has no state at all, which spares  *)
(* the process the mismatch, too.                                          *)
CachedPodMatchesInformer ==
    ~dead => \A k \in listed :
        IF k \in renewed THEN ~Known(k) ELSE Added(k) /\ podStates[k].pod.node = podView[k]

(* The tree has exactly the nodes of the node informer, each once and in   *)
(* the zone of its latest labels; numNodes counts them.                    *)
TreeMatchesInformer ==
    ~dead =>
    /\ \A z \in DOMAIN tree.tree :
          /\ IsInjective(tree.tree[z].nodes)
          /\ NamesOf(tree, z) = {n \in Names : nodeView[n] # Null /\ nodeView[n].zone = z}
    /\ tree.numNodes = Cardinality({n \in Names : nodeView[n] # Null})
    /\ tree.numNodes = Cardinality({n \in Names : InCache(n)})

(* An image has an entry exactly for the nodes whose latest status lists   *)
(* it, through updates, removals and placeholders.                         *)
ImagesExact ==
    ~dead => \A i \in Images :
        imageStates[i] = {n \in Names : nodeView[n] # Null /\ i \in nodeView[n].images}

(* Tree, map and images agree with what the node informer has delivered.   *)
NodesMatchInformer == TreeMatchesInformer /\ ImagesExact

(* No host port stays taken on a node without a pod that uses it.          *)
PortsHaveUsers ==
    \A n \in DOMAIN store.nodes :
        store.nodes[n].ports \subseteq
            UNION {HostPort[k] : k \in {p \in PodKeys : store.nodes[n].pods[p] > 0}}

(* A cycle starts with a list as long as the tree has nodes, also when a   *)
(* deletion was hidden from the walk and the old list was too long: the    *)
(* error path repairs it at once, which Schedule, ignoring the error,      *)
(* depends on.  The length is all that is compared, here as in the code.   *)
SnapshotHasLength ==
    [][UpdateSnapshot => Len(snapshot'.list) = tree.numNodes]_allVars

-----------------------------------------------------------------------------
(* cache.go:427-429, on an update that finds no node: "This is not a       *)
(* problem in the case where a pod update arrives before the node          *)
(* creation, because we will always have a create pod event before that,   *)
(* which will create the placeholder node item."  Then a pod bound to a    *)
(* node that both informers have shown is charged to it.                   *)
BoundPodIsCharged ==
    \A k \in listed, n \in Names :
        podView[k] = n /\ InCache(n) => store.nodes[n].pods[k] = 1

=============================================================================
