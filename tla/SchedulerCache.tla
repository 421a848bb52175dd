--------------------------- MODULE SchedulerCache ---------------------------
(***************************************************************************)
(* internal/cache/cache.go: what the general purpose scheduler remembers   *)
(* of nodes and pods, and the incremental snapshot it schedules from.      *)
(* Every exported method runs under cache.mu, so each is one action; the   *)
(* expiry sweep, which also holds the lock, is a step per assumed pod      *)
(* during which no other action is enabled.  The caller is arbitrary: any  *)
(* method may be called with any pod or node object, the legal orders are  *)
(* the business of the modules that compose this one.                      *)
(*                                                                         *)
(* A pod object is its key (the UID) and its spec.nodeName; affinity terms *)
(* and host ports never change during the life of a UID, so they are       *)
(* functions of the key.  A node object is name, zone and images.  klog.   *)
(* Fatalf and nil dereferences end the process: dead.                      *)
(***************************************************************************)
EXTENDS NodeTreeOps, FiniteSets

CONSTANTS
    Images,          \* container images
    PodKeys,         \* pod UIDs
    Ports,           \* host ports
    HostPort,        \* [PodKeys -> SUBSET Ports]: the host ports of a pod
    Affinity,        \* the pods that carry (anti-)affinity terms
    Null,            \* the nil node of a placeholder NodeInfo
    TTL,             \* ticks after FinishBinding before an assumed pod expires
    MaxGeneration    \* bound: callers stop changing the cache from here on

AllNames == Names \cup {NoNode}
Objects  == [name : Names, zone : Zones, images : SUBSET Images]
Pods     == [key : PodKeys, node : AllNames]

ASSUME CacheAssumption ==
    /\ NoNode \notin Names
    /\ Null \notin Objects
    /\ HostPort \in [PodKeys -> SUBSET Ports]
    /\ Affinity \subseteq PodKeys
    /\ TTL \in Nat
    /\ MaxGeneration \in Nat

VARIABLES
    store,           \* nodes, the linked list from headNode on, and the global
                     \* generation counter: [nodes, list, generation]
    podStates,       \* pod key -> [pod, finished, left]
    assumedPods,     \* keys of the assumed pods
    sweep,           \* keys a running cleanupAssumedPods has still to visit
    tree,            \* nodeTree
    imageStates,     \* image -> nodes that have it ({}: no entry)
    snapshot,        \* the Snapshot of the scheduler: [map, list, affinity, gen]
    dead             \* the process has panicked or called klog.Fatalf

vars == <<store, podStates, assumedPods, sweep, tree, imageStates, snapshot, dead>>

-----------------------------------------------------------------------------
(* NodeInfo (framework/v1alpha1/types.go).  pods counts the entries of the *)
(* Pods slice per key; Requested and NonZeroRequested are sums over that   *)
(* slice, changed in the same statements, and PodsWithAffinity is the part *)
(* of it in Affinity.  The number of nodes in an image summary is kept as  *)
(* the set it counts.                                                      *)
NewNodeInfo ==
    [obj |-> Null, pods |-> [k \in PodKeys |-> 0], ports |-> {},
     summary |-> [i \in {} |-> {}], gen |-> 0]

InfoAddPod(info, key, g) ==
    [info EXCEPT !.pods[key] = @ + 1, !.ports = @ \cup HostPort[key], !.gen = g]

(* Mutant: the ports of a removed pod stay taken. *)
InfoRemovePodKeepsPorts(info, key, g) == [info EXCEPT !.pods[key] = @ - 1, !.gen = g]

InfoRemovePod(info, key, g) ==
    [info EXCEPT !.pods[key] = @ - 1, !.ports = @ \ HostPort[key], !.gen = g]

HasAffinity(info) == \E k \in Affinity : info.pods[k] > 0

(* The store s: nodes and their list.  A change creates the NodeInfo if    *)
(* need be, which takes a generation of its own, numbers the change and    *)
(* moves the node to the head of the list.                                 *)
InfoOf(s, name)  == IF name \in DOMAIN s.nodes THEN s.nodes[name] ELSE NewNodeInfo
NextGen(s, name) == IF name \in DOMAIN s.nodes THEN s.generation + 1 ELSE s.generation + 2

(* Mutant: a node that is in the list stays where it is. *)
MoveToHeadOnce(list, name) == IF Contains(list, name) THEN list ELSE Cons(name, list)

MoveToHead(list, name) == Cons(name, RemoveFirst(list, name))

DecreasingGen(s) ==
    \A i, j \in DOMAIN s.list :
        i < j => s.nodes[s.list[i]].gen > s.nodes[s.list[j]].gen

Put(s, name, info) ==
    [nodes |-> [n \in DOMAIN s.nodes \cup {name} |-> IF n = name THEN info ELSE s.nodes[n]],
     list |-> MoveToHead(s.list, name),
     generation |-> info.gen]

Unlink(s, name) ==
    [nodes |-> Restrict(s.nodes, DOMAIN s.nodes \ {name}),
     list |-> RemoveFirst(s.list, name),
     generation |-> s.generation]

StoreAddPod(s, pod) ==
    Put(s, pod.node, InfoAddPod(InfoOf(s, pod.node), pod.key, NextGen(s, pod.node)))

(* removePod: nothing to do, done, or the pod is not on its node, which is *)
(* an error whose message dereferences the node object, nil in a           *)
(* placeholder.                                                            *)
RemoveOutcome(s, pod) ==
    IF pod.node \notin DOMAIN s.nodes THEN "nil"
    ELSE IF s.nodes[pod.node].pods[pod.key] > 0 THEN "removed"
    ELSE IF s.nodes[pod.node].obj = Null THEN "panic" ELSE "error"

(* Mutant: the pod stays on its node. *)
StoreRemovePodNot(s, pod) == s

StoreRemovePod(s, pod) ==
    IF RemoveOutcome(s, pod) # "removed" THEN s
    ELSE Put(s, pod.node, InfoRemovePod(s.nodes[pod.node], pod.key, s.generation + 1))

StoreSetNode(s, obj, summary) ==
    Put(s, obj.name, [InfoOf(s, obj.name) EXCEPT !.obj = obj, !.summary = summary,
                                                 !.gen = NextGen(s, obj.name)])

AddImages(states, obj) ==
    [i \in Images |-> IF i \in obj.images THEN states[i] \cup {obj.name} ELSE states[i]]

(* Mutant: images are never released. *)
RemoveImagesNot(states, obj) == states

RemoveImages(states, obj) ==
    IF obj = Null THEN states
    ELSE [i \in Images |-> IF i \in obj.images THEN states[i] \ {obj.name} ELSE states[i]]

-----------------------------------------------------------------------------
Init ==
    /\ store = [nodes |-> [n \in {} |-> Null], list |-> <<>>, generation |-> 0]
    /\ podStates = [k \in {} |-> Null]
    /\ assumedPods = {}
    /\ sweep = {}
    /\ tree = EmptyTree
    /\ imageStates = [i \in Images |-> {}]
    /\ snapshot = [map |-> [n \in {} |-> Null], list |-> <<>>, affinity |-> <<>>, gen |-> 0]
    /\ dead = FALSE

(* The lock is free and the bound on changes not reached. *)
Callable == ~dead /\ sweep = {}
CanChange == Callable /\ store.generation < MaxGeneration

Known(key)   == key \in DOMAIN podStates
Assumed(key) == Known(key) /\ key \in assumedPods
Added(key)   == Known(key) /\ key \notin assumedPods

PutState(key, state) ==
    podStates' = [k \in DOMAIN podStates \cup {key} |->
                    IF k = key THEN state ELSE podStates[k]]
DropState(key) == podStates' = Restrict(podStates, DOMAIN podStates \ {key})
FreshState(pod) == [pod |-> pod, finished |-> FALSE, left |-> 0]

(* The call returns an error and changes nothing. *)
Refused == UNCHANGED vars

Panic ==
    /\ dead' = TRUE
    /\ UNCHANGED <<store, podStates, assumedPods, sweep, tree, imageStates, snapshot>>

-----------------------------------------------------------------------------
AssumePod(pod) ==
    /\ CanChange
    /\ ~Known(pod.key)
    /\ store' = StoreAddPod(store, pod)
    /\ PutState(pod.key, FreshState(pod))
    /\ assumedPods' = assumedPods \cup {pod.key}
    /\ UNCHANGED <<sweep, tree, imageStates, snapshot, dead>>

FinishBinding(key) ==
    /\ Callable
    /\ Assumed(key)
    /\ podStates' = [podStates EXCEPT ![key].finished = TRUE, ![key].left = TTL + 1]
    /\ UNCHANGED <<store, assumedPods, sweep, tree, imageStates, snapshot, dead>>

(* Mutant: the key stays in assumedPods. *)
ForgetPodKeepsKey(pod) ==
    /\ CanChange
    /\ Assumed(pod.key)
    /\ RemoveOutcome(store, pod) \in {"nil", "removed"}
    /\ store' = StoreRemovePod(store, pod)
    /\ DropState(pod.key)
    /\ UNCHANGED <<assumedPods, sweep, tree, imageStates, snapshot, dead>>

ForgetPod(pod) ==
    /\ CanChange
    /\ Assumed(pod.key)
    /\ podStates[pod.key].pod.node = pod.node
    /\ \/ /\ RemoveOutcome(store, pod) \in {"nil", "removed"}
          /\ store' = StoreRemovePod(store, pod)
          /\ assumedPods' = assumedPods \ {pod.key}
          /\ DropState(pod.key)
          /\ UNCHANGED <<sweep, tree, imageStates, snapshot, dead>>
       \/ RemoveOutcome(store, pod) = "panic" /\ Panic

(* AddPod confirms an assumed pod.  When it arrives on another node than   *)
(* the assumed one it is moved there, whatever removePod reported.         *)
ConfirmPod(pod) ==
    LET old == podStates[pod.key].pod
    IN  /\ CanChange
        /\ Assumed(pod.key)
        /\ \/ /\ old.node = pod.node \/ RemoveOutcome(store, old) # "panic"
              /\ store' = IF old.node = pod.node THEN store
                          ELSE StoreAddPod(StoreRemovePod(store, old), pod)
              /\ assumedPods' = assumedPods \ {pod.key}
              /\ podStates' = [podStates EXCEPT ![pod.key].pod = pod, ![pod.key].left = 0]
              /\ UNCHANGED <<sweep, tree, imageStates, snapshot, dead>>
           \/ old.node # pod.node /\ RemoveOutcome(store, old) = "panic" /\ Panic

(* AddPod of a pod that is not in the cache: never assumed, or expired.    *)
AddNewPod(pod) ==
    /\ CanChange
    /\ ~Known(pod.key)
    /\ store' = StoreAddPod(store, pod)
    /\ PutState(pod.key, FreshState(pod))
    /\ UNCHANGED <<assumedPods, sweep, tree, imageStates, snapshot, dead>>

AddPod(pod) ==
    \/ ConfirmPod(pod)
    \/ AddNewPod(pod)
    \/ CanChange /\ Added(pod.key) /\ Refused

(* Mutant: the state keeps the old object. *)
UpdatePodStaleState(old, new) ==
    /\ CanChange
    /\ Added(old.key) /\ RemoveOutcome(store, old) \in {"nil", "removed"}
    /\ store' = IF new.node \in DOMAIN store.nodes
                THEN StoreAddPod(StoreRemovePod(store, old), new) ELSE store
    /\ UNCHANGED <<podStates, assumedPods, sweep, tree, imageStates, snapshot, dead>>

(* updatePod returns early when the new node is not in the cache: the old  *)
(* object stays counted where it was.  The state stays under the key of    *)
(* the old object, also when the new one is another pod.                   *)
UpdatePod(old, new) ==
    /\ CanChange
    /\ \/ /\ Added(old.key)
          /\ new.node \notin DOMAIN store.nodes
          /\ podStates' = [podStates EXCEPT ![old.key].pod = new]
          /\ UNCHANGED <<store, assumedPods, sweep, tree, imageStates, snapshot, dead>>
       \/ /\ Added(old.key)
          /\ new.node \in DOMAIN store.nodes
          /\ RemoveOutcome(store, old) \in {"nil", "removed"}
          /\ store' = StoreAddPod(StoreRemovePod(store, old), new)
          /\ podStates' = [podStates EXCEPT ![old.key].pod = new]
          /\ UNCHANGED <<assumedPods, sweep, tree, imageStates, snapshot, dead>>
       \/ /\ Added(old.key)
          /\ new.node \in DOMAIN store.nodes
          /\ RemoveOutcome(store, old) = "panic"
          /\ Panic
       \/ /\ Added(old.key) =>
                new.node \in DOMAIN store.nodes /\ RemoveOutcome(store, old) = "error"
          /\ Refused

(* The state is dropped only when the pod was taken off its node: an error *)
(* of removePod leaves it behind.                                          *)
RemovePod(pod) ==
    LET cached == podStates[pod.key].pod
    IN  /\ CanChange
        /\ \/ /\ Added(pod.key)
              /\ cached.node = pod.node
              /\ RemoveOutcome(store, cached) \in {"nil", "removed"}
              /\ store' = StoreRemovePod(store, cached)
              /\ DropState(pod.key)
              /\ UNCHANGED <<assumedPods, sweep, tree, imageStates, snapshot, dead>>
           \/ /\ Added(pod.key)
              /\ cached.node # pod.node \/ RemoveOutcome(store, cached) = "panic"
              /\ Panic
           \/ /\ Added(pod.key) =>
                    cached.node = pod.node /\ RemoveOutcome(store, cached) = "error"
              /\ Refused

-----------------------------------------------------------------------------
AddNode(obj) ==
    LET cached == IF obj.name \in DOMAIN store.nodes THEN store.nodes[obj.name].obj ELSE Null
        images == AddImages(RemoveImages(imageStates, cached), obj)
    IN  /\ CanChange
        /\ tree' = TreeAddNode(tree, obj)
        /\ imageStates' = images
        /\ store' = StoreSetNode(store, obj, [i \in obj.images |-> images[i]])
        /\ UNCHANGED <<podStates, assumedPods, sweep, snapshot, dead>>

UpdateNode(old, new) ==
    LET has    == new.name \in DOMAIN store.nodes
        cached == IF has THEN store.nodes[new.name].obj ELSE Null
        images == AddImages(RemoveImages(imageStates, cached), new)
    IN  /\ CanChange
        /\ tree' = TreeUpdateNode(IF has THEN tree ELSE TreeAddNode(tree, new), old, new)
        /\ imageStates' = images
        /\ store' = StoreSetNode(store, new, [i \in new.images |-> images[i]])
        /\ UNCHANGED <<podStates, assumedPods, sweep, snapshot, dead>>

(* The images are released only when the tree had the node.                *)
RemoveNode(obj) ==
    /\ CanChange
    /\ \/ /\ obj.name \in DOMAIN store.nodes
          /\ store' = Unlink(store, obj.name)
          /\ tree' = TreeRemoveNode(tree, obj)
          /\ imageStates' = IF TreeHas(tree, obj) THEN RemoveImages(imageStates, obj)
                            ELSE imageStates
          /\ UNCHANGED <<podStates, assumedPods, sweep, snapshot, dead>>
       \/ obj.name \notin DOMAIN store.nodes /\ Refused

-----------------------------------------------------------------------------
(* cleanupAssumedPods: the map is visited in any order under the lock, at  *)
(* the time read when it starts; Tick waits for the sweep.                 *)
(* Mutant: the sweep skips the pods it is for. *)
StartSweepUnfinished ==
    /\ Callable
    /\ sweep' = {k \in assumedPods : ~podStates[k].finished}
    /\ UNCHANGED <<store, podStates, assumedPods, tree, imageStates, snapshot, dead>>

StartSweep ==
    /\ Callable
    /\ sweep' = assumedPods
    /\ UNCHANGED <<store, podStates, assumedPods, tree, imageStates, snapshot, dead>>

(* Mutant: a pod whose binding is not finished expires. *)
ExpiredUnfinished(key) == Known(key) /\ podStates[key].left = 0

Expired(key) == Known(key) /\ podStates[key].finished /\ podStates[key].left = 0

SweepPod(key) ==
    LET pod == podStates[key].pod
    IN  /\ ~dead
        /\ key \in sweep
        /\ \/ /\ Expired(key)
              /\ RemoveOutcome(store, pod) \in {"nil", "removed"}
              /\ store' = StoreRemovePod(store, pod)
              /\ assumedPods' = assumedPods \ {key}
              /\ DropState(key)
              /\ sweep' = sweep \ {key}
              /\ UNCHANGED <<tree, imageStates, snapshot, dead>>
           \/ /\ Known(key)
              /\ Expired(key) => RemoveOutcome(store, pod) = "error"
              /\ sweep' = sweep \ {key}
              /\ UNCHANGED <<store, podStates, assumedPods, tree, imageStates, snapshot, dead>>
           \/ ~Known(key) /\ Panic
           \/ Expired(key) /\ RemoveOutcome(store, pod) = "panic" /\ Panic

Tick ==
    /\ Callable
    /\ \E key \in assumedPods : podStates[key].left > 0
    /\ podStates' = [k \in DOMAIN podStates |->
                       [podStates[k] EXCEPT !.left = IF @ > 0 THEN @ - 1 ELSE 0]]
    /\ UNCHANGED <<store, assumedPods, sweep, tree, imageStates, snapshot, dead>>

-----------------------------------------------------------------------------
(* Mutant: a change of the generation after the snapshot's is missed. *)
FreshOffByOne ==
    {store.list[i] : i \in {j \in DOMAIN store.list :
        \A k \in 1..j : store.nodes[store.list[k]].gen > snapshot.gen + 1}}

(* UpdateSnapshot walks the list from its head and stops at the first      *)
(* entry that is not newer than the snapshot.                              *)
Fresh ==
    {store.list[i] : i \in {j \in DOMAIN store.list :
        \A k \in 1..j : store.nodes[store.list[k]].gen > snapshot.gen}}

(* Placeholders are skipped: a snapshot holds nodes the API server has.    *)
Copied == {n \in Fresh : store.nodes[n].obj # Null}

CopiedMap ==
    [n \in DOMAIN snapshot.map \cup Copied |->
        IF n \in Copied THEN store.nodes[n] ELSE snapshot.map[n]]

(* Mutant: the affinity list is made with the node list only. *)
AffinityNeverFlips == FALSE

AffinityFlipped ==
    \E n \in Copied :
        HasAffinity(store.nodes[n]) #
            (n \in DOMAIN snapshot.map /\ HasAffinity(snapshot.map[n]))

Excess == Cardinality(DOMAIN CopiedMap) - Cardinality(DOMAIN store.nodes)

(* removeDeletedNodesFromSnapshot: as many of the names that are gone from *)
(* the cache as the map has in excess, in the order of a Go map.           *)
Deletions ==
    LET gone == DOMAIN CopiedMap \ DOMAIN store.nodes
        most == IF Excess > 0 THEN Excess ELSE 0
    IN  {D \in SUBSET gone : Cardinality(D) = most}

(* What the loops of updateNodeInfoSnapshotList append: the elements of a  *)
(* list that are in S, one after the other.                                *)
Kept(list, S) ==
    LET kept[i \in 0..Len(list)] ==
          IF i = 0 THEN <<>>
          ELSE IF list[i] \in S THEN Append(kept[i-1], list[i]) ELSE kept[i-1]
    IN  kept[Len(list)]

WithAffinity(m) == {n \in DOMAIN m : HasAffinity(m[n])}

(* updateNodeInfoSnapshotList(updateAll) for the map m: from the tree, or  *)
(* only the affinity list again.                                           *)
ListsFromTree(t, m) ==
    LET taken == TreeTake(t, t.numNodes)
    IN  [tree |-> taken.tree, list |-> Kept(taken.names, DOMAIN m),
         affinity |-> Kept(taken.names, WithAffinity(m))]

AffinityFromList(t, m, list) ==
    [tree |-> t, list |-> list, affinity |-> Kept(list, WithAffinity(m))]

(* Mutant: lists of the wrong length are reported and kept. *)
RepairedNot(lists, m) == lists

(* When the list still has not as many nodes as the tree, the lists are    *)
(* made again and the caller gets an error.                                *)
Repaired(lists, m) ==
    IF Len(lists.list) # tree.numNodes THEN ListsFromTree(lists.tree, m) ELSE lists

(* The lists point into the map, so they hold names.                       *)
UpdateSnapshot ==
    \E D \in Deletions :
        LET m     == Restrict(CopiedMap, DOMAIN CopiedMap \ D)
            isNew == Copied \ DOMAIN snapshot.map # {}
            first == IF isNew \/ Excess > 0 THEN ListsFromTree(tree, m)
                     ELSE IF AffinityFlipped THEN AffinityFromList(tree, m, snapshot.list)
                     ELSE [tree |-> tree, list |-> snapshot.list, affinity |-> snapshot.affinity]
            lists == Repaired(first, m)
        IN  /\ Callable
            /\ snapshot' = [map |-> m, list |-> lists.list, affinity |-> lists.affinity,
                            gen |-> IF store.list = <<>> THEN snapshot.gen
                                    ELSE store.nodes[store.list[1]].gen]
            /\ tree' = lists.tree
            /\ UNCHANGED <<store, podStates, assumedPods, sweep, imageStates, dead>>

Next ==
    \/ \E pod \in Pods : AssumePod(pod) \/ ForgetPod(pod) \/ AddPod(pod) \/ RemovePod(pod)
    \/ \E old, new \in Pods : UpdatePod(old, new)
    \/ \E obj \in Objects : AddNode(obj) \/ RemoveNode(obj)
    \/ \E old, new \in Objects : old.name = new.name /\ UpdateNode(old, new)
    \/ \E key \in PodKeys : FinishBinding(key) \/ SweepPod(key)
    \/ StartSweep \/ Tick \/ UpdateSnapshot

Spec == Init /\ [][Next]_vars

-----------------------------------------------------------------------------
NodeInfos ==
    [obj : Objects \cup {Null}, pods : [PodKeys -> Nat], ports : SUBSET Ports,
     summary : UNION {[I -> SUBSET Names] : I \in SUBSET Images}, gen : Nat]

PodStates == [pod : Pods, finished : BOOLEAN, left : Nat]

(* Shape of the state; the lists of the snapshot and the tree are typed by *)
(* ListsPointIntoMap here and by TreeMatchesNodes of NodeTree.             *)
TypeOK ==
    /\ DOMAIN store.nodes \subseteq AllNames
    /\ \A n \in DOMAIN store.nodes : store.nodes[n] \in NodeInfos
    /\ store.list \in Seq(AllNames)
    /\ store.generation \in Nat
    /\ DOMAIN podStates \subseteq PodKeys
    /\ \A k \in DOMAIN podStates : podStates[k] \in PodStates
    /\ assumedPods \subseteq PodKeys
    /\ sweep \subseteq PodKeys
    /\ imageStates \in [Images -> SUBSET Names]
    /\ DOMAIN snapshot.map \subseteq AllNames
    /\ \A n \in DOMAIN snapshot.map : snapshot.map[n] \in NodeInfos
    /\ snapshot.gen \in Nat
    /\ dead \in BOOLEAN

(* The linked list holds every NodeInfo once, most recently changed first, *)
(* whatever mix of calls moved them (cache.go:49-50: "When a NodeInfo is   *)
(* updated, it goes to the head of the list").  UpdateSnapshot stops at    *)
(* the first old entry because of it.                                      *)
ListSorted ==
    /\ Range(store.list) = DOMAIN store.nodes
    /\ DecreasingGen(store)

(* A node that is not newer than the snapshot is in it exactly as the      *)
(* cache has it: skipping it loses nothing, even when it was removed and   *)
(* added back under the same name, the case nextGeneration is numbered     *)
(* for (types.go:243-246).                                                 *)
SnapshotFresh ==
    \A n \in DOMAIN store.nodes :
        store.nodes[n].obj # Null /\ store.nodes[n].gen <= snapshot.gen =>
            n \in DOMAIN snapshot.map /\ snapshot.map[n] = store.nodes[n]

(* cleanupAssumedPods ends the process when an assumed key has no state    *)
(* ("Key found in assumed set but not in podStates", cache.go:713); no     *)
(* order of calls gets it there.                                           *)
AssumedHaveState == assumedPods \subseteq DOMAIN podStates

(* The affinity list is the part of the node list whose pods carry         *)
(* affinity terms, although it is made again only when a node comes, goes  *)
(* or changes sides: the inter-pod affinity plugin looks at nothing else.  *)
AffinityListExact ==
    snapshot.affinity = Kept(snapshot.list, WithAffinity(snapshot.map))

(* Every listed node has an entry in the map, also when entries of deleted *)
(* nodes were dropped: the lists hold pointers to those entries.           *)
ListsPointIntoMap == Range(snapshot.list) \subseteq DOMAIN snapshot.map

(* The two lists of a snapshot, as they are made again only in part.       *)
SnapshotListsExact == ListsPointIntoMap /\ AffinityListExact

-----------------------------------------------------------------------------
(* Each pod goes through the states interface.go draws, under any caller;  *)
(* in particular a pod that is being bound, or whose time is not up, is    *)
(* never expired, and a confirmed pod leaves only when it is removed.      *)
LifeOf(key) ==
    IF ~Known(key) THEN "Initial"
    ELSE IF key \notin assumedPods THEN "Added"
    ELSE IF ~podStates[key].finished THEN "Binding"
    ELSE IF podStates[key].left > 0 THEN "Waiting" ELSE "Due"

Lifecycle == INSTANCE PodLifecycle
    WITH life <- [k \in PodKeys |-> LifeOf(k)], sweeping <- (sweep # {})

FollowsLifecycle == Lifecycle!Spec

(* The incremental snapshot is indistinguishable from a full copy taken at *)
(* once, as far as the nodes the cache has are concerned; when its walk    *)
(* would stop at the head of the list, there is nothing to copy.           *)
Content(infos) ==
    [n \in {m \in DOMAIN infos : infos[m].obj # Null} |->
        [obj |-> infos[n].obj, pods |-> infos[n].pods, ports |-> infos[n].ports,
         summary |-> infos[n].summary]]

Atomic == INSTANCE CacheSnapshot
    WITH content <- Content(store.nodes), seen <- Content(snapshot.map),
         current <- (Fresh = {})

SnapshotIsAtomic == Atomic!Spec

(* The sweep runs every second for as long as the process lives, and time  *)
(* passes; nothing is assumed of the callers.                              *)
FairSpec ==
    /\ Spec
    /\ WF_vars(StartSweep)
    /\ WF_vars(\E key \in PodKeys : SweepPod(key))
    /\ WF_vars(Tick)

(* A pod whose time is up does not keep its resources: it is expired,      *)
(* confirmed, forgotten or bound anew, unless removePod fails because the  *)
(* node was removed and added back while the pod was assumed on it.        *)
DueIsReleased ==
    \A key \in PodKeys :
        (key \in assumedPods /\ Expired(key)) ~>
            \/ dead \/ key \notin assumedPods \/ ~Expired(key)
            \/ RemoveOutcome(store, podStates[key].pod) = "error"

=============================================================================
