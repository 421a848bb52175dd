----------------------------- MODULE CacheProofs -----------------------------
(***************************************************************************)
(* The cache, first under any caller: for any sets of nodes, pods, zones,  *)
(* images and ports, type correctness, the order of the linked list, the   *)
(* freshness of the incremental snapshot and that it implements an atomic  *)
(* one.  Then as the informers' handlers drive it, for any interleaving of *)
(* the two informers, and restarts: no pod is charged twice, what a named  *)
(* node is charged for is bound to it, and the cache, the tree and the     *)
(* images follow the informers.  Last the node tree alone: it holds the    *)
(* known nodes, and a node that a listing leaves out is in the next one.   *)
(***************************************************************************)
EXTENDS EventHandlers, NodeTree, ListTheorems

-----------------------------------------------------------------------------
(* The inductive invariant.  StoreOK: NodeInfos are typed, the list holds  *)
(* each once in decreasing order of generation, and the global counter is  *)
(* ahead of them all.  SnapshotOK: the snapshot is not newer than the      *)
(* counter, so whatever changes next is newer than the snapshot.           *)
StoreOK(s) ==
    /\ DOMAIN s.nodes \subseteq AllNames
    /\ \A n \in DOMAIN s.nodes : s.nodes[n] \in NodeInfos
    /\ s.list \in Seq(AllNames)
    /\ s.generation \in Nat
    /\ Range(s.list) = DOMAIN s.nodes
    /\ DecreasingGen(s)
    /\ \A n \in DOMAIN s.nodes : s.nodes[n].gen <= s.generation

SnapshotOK ==
    /\ DOMAIN snapshot.map \subseteq AllNames
    /\ \A n \in DOMAIN snapshot.map : snapshot.map[n] \in NodeInfos
    /\ snapshot.gen \in Nat
    /\ snapshot.gen <= store.generation
    /\ SnapshotFresh

StatesOK ==
    /\ DOMAIN podStates \subseteq PodKeys
    /\ \A k \in DOMAIN podStates : podStates[k] \in PodStates
    /\ assumedPods \subseteq DOMAIN podStates
    /\ sweep \subseteq assumedPods
    /\ imageStates \in [Images -> SUBSET Names]
    /\ dead \in BOOLEAN

IInv == StoreOK(store) /\ SnapshotOK /\ StatesOK

(* From s to t nothing changed without a generation newer than s.          *)
Advances(s, t) ==
    /\ t.generation >= s.generation
    /\ \A n \in DOMAIN t.nodes :
          \/ n \in DOMAIN s.nodes /\ t.nodes[n] = s.nodes[n]
          \/ t.nodes[n].gen > s.generation

-----------------------------------------------------------------------------
(* A list in decreasing order of generation has no repetitions.            *)
LEMMA ListInjective ==
    ASSUME NEW s, StoreOK(s)
    PROVE  IsInjective(s.list)
<1> USE DEF StoreOK
<1>1. DOMAIN s.list = 1..Len(s.list) /\ Len(s.list) \in Nat
  OBVIOUS
<1>2. \A i \in DOMAIN s.list : s.nodes[s.list[i]].gen \in Nat
  BY DEF Range, NodeInfos
<1>3. QED
  BY <1>1, <1>2 DEF IsInjective, DecreasingGen

(* Changing a NodeInfo under a new generation and moving it to the head    *)
(* keeps the store in order, and is an advance.                            *)
LEMMA PutOK ==
    ASSUME NEW s, StoreOK(s), NEW name \in AllNames, NEW info \in NodeInfos,
           info.gen > s.generation
    PROVE  StoreOK(Put(s, name, info)) /\ Advances(s, Put(s, name, info))
<1> DEFINE t    == Put(s, name, info)
           rest == RemoveFirst(s.list, name)
<1>1. /\ t.nodes = [n \in DOMAIN s.nodes \cup {name} |->
                      IF n = name THEN info ELSE s.nodes[n]]
      /\ t.list = Cons(name, rest)
      /\ t.generation = info.gen
  BY DEF Put, MoveToHead
<1>2. /\ rest \in Seq(AllNames)
      /\ Range(rest) = DOMAIN s.nodes \ {name}
      /\ \A i, j \in DOMAIN rest : i < j =>
            \E k, l \in DOMAIN s.list : k < l /\ s.list[k] = rest[i] /\ s.list[l] = rest[j]
  BY ListInjective, RemoveFirstFacts DEF StoreOK
<1> HIDE DEF rest, t
<1>3. /\ t.list \in Seq(AllNames)
      /\ DOMAIN t.list = 1..Len(rest)+1
      /\ t.list[1] = name
      /\ \A i \in 2..Len(rest)+1 : i-1 \in DOMAIN rest /\ t.list[i] = rest[i-1]
      /\ Range(t.list) = Range(rest) \cup {name}
  <2>1. /\ Cons(name, rest) \in Seq(AllNames)
        /\ DOMAIN Cons(name, rest) = 1..Len(rest)+1
        /\ Cons(name, rest)[1] = name
        /\ \A i \in 2..Len(rest)+1 :
              i-1 \in DOMAIN rest /\ Cons(name, rest)[i] = rest[i-1]
        /\ Range(Cons(name, rest)) = Range(rest) \cup {name}
    <3>1. rest \in Seq(AllNames)
      BY <1>2
    <3>2. Cons(name, rest) \in Seq(AllNames)
      BY <3>1, ConsFacts
    <3>3. DOMAIN Cons(name, rest) = 1..Len(rest)+1
      BY <3>1, ConsFacts
    <3>4. Cons(name, rest)[1] = name
      BY <3>1, ConsFacts
    <3>5. \A i \in 2..Len(rest)+1 : i-1 \in DOMAIN rest /\ Cons(name, rest)[i] = rest[i-1]
      BY <3>1, ConsFacts
    <3>6. Range(Cons(name, rest)) = Range(rest) \cup {name}
      BY <3>1, ConsFacts
    <3>7. QED
      BY <3>2, <3>3, <3>4, <3>5, <3>6
  <2>2. QED
    BY <1>1, <2>1
<1>4. info.gen \in Nat /\ s.generation \in Nat
  BY DEF NodeInfos, StoreOK
<1>5. \A n \in DOMAIN s.nodes : s.nodes[n].gen \in Nat /\ s.nodes[n].gen <= s.generation
  BY DEF NodeInfos, StoreOK
<1>6. DecreasingGen(t)
  <2> SUFFICES ASSUME NEW i \in DOMAIN t.list, NEW j \in DOMAIN t.list, i < j
               PROVE  t.nodes[t.list[i]].gen > t.nodes[t.list[j]].gen
    BY DEF DecreasingGen
  <2>0. Len(rest) \in Nat
    BY <1>2
  <2>1. j \in 2..Len(rest)+1 /\ t.list[j] \in DOMAIN s.nodes \ {name}
    <3>1. j \in 2..Len(rest)+1
      BY <1>3, <2>0
    <3>2. QED
      BY <1>2, <1>3, <3>1 DEF Range
  <2>2. t.nodes[t.list[j]] = s.nodes[t.list[j]]
    BY <1>1, <2>1
  <2>3. CASE i = 1
    <3>1. t.nodes[t.list[i]] = info
      BY <1>1, <1>3, <2>3
    <3>2. QED
      BY <1>4, <1>5, <2>1, <2>2, <3>1
  <2>4. CASE i # 1
    <3>1. i \in 2..Len(rest)+1
      BY <1>3, <2>0, <2>4
    <3>2. i-1 \in DOMAIN rest /\ t.list[i] = rest[i-1] /\ t.list[i] \in DOMAIN s.nodes \ {name}
      <4>1. i-1 \in DOMAIN rest /\ t.list[i] = rest[i-1]
        BY <1>3, <3>1
      <4>2. rest[i-1] \in Range(rest)
        BY <4>1 DEF Range
      <4>3. QED
        BY <1>2, <4>1, <4>2
    <3>3. t.nodes[t.list[i]] = s.nodes[t.list[i]]
      BY <1>1, <3>2
    <3>4. PICK k \in DOMAIN s.list, l \in DOMAIN s.list :
             k < l /\ s.list[k] = rest[i-1] /\ s.list[l] = rest[j-1]
      <4> DEFINE a == i-1
                 b == j-1
      <4>1. a < b
        BY <2>0, <2>1, <3>1
      <4>2. a \in DOMAIN rest /\ b \in DOMAIN rest
        BY <1>3, <2>1, <3>1
      <4> HIDE DEF a, b
      <4>3. \E k, l \in DOMAIN s.list : k < l /\ s.list[k] = rest[a] /\ s.list[l] = rest[b]
        BY <1>2, <4>1, <4>2
      <4>4. QED
        BY <4>3 DEF a, b
    <3>5. s.nodes[s.list[k]].gen > s.nodes[s.list[l]].gen
      BY <3>4 DEF StoreOK, DecreasingGen
    <3>6. QED
      BY <1>3, <2>1, <2>2, <3>1, <3>3, <3>4, <3>5
  <2>5. QED
    BY <2>3, <2>4
<1>7. StoreOK(t)
  <2>1. DOMAIN t.nodes = DOMAIN s.nodes \cup {name}
    BY <1>1
  <2>2. Range(t.list) = DOMAIN t.nodes
    BY <1>2, <1>3, <2>1
  <2>3. \A n \in DOMAIN t.nodes : t.nodes[n] \in NodeInfos /\ t.nodes[n].gen <= t.generation
    BY <1>1, <1>4, <1>5, <2>1 DEF StoreOK
  <2>4. QED
    BY <1>1, <1>3, <1>4, <1>6, <2>1, <2>2, <2>3 DEF StoreOK
<1>8. Advances(s, t)
  BY <1>1, <1>4 DEF Advances
<1>9. QED
  BY <1>7, <1>8 DEF t

(* Unlinking a node keeps the rest in order.                               *)
LEMMA UnlinkOK ==
    ASSUME NEW s, StoreOK(s), NEW name
    PROVE  StoreOK(Unlink(s, name)) /\ Advances(s, Unlink(s, name))
<1> DEFINE t    == Unlink(s, name)
           rest == RemoveFirst(s.list, name)
<1>1. /\ DOMAIN t.nodes = DOMAIN s.nodes \ {name}
      /\ \A n \in DOMAIN t.nodes : t.nodes[n] = s.nodes[n]
      /\ t.list = rest
      /\ t.generation = s.generation
  BY DEF Unlink, Restrict
<1>2. /\ rest \in Seq(AllNames)
      /\ Range(rest) = DOMAIN s.nodes \ {name}
      /\ \A i, j \in DOMAIN rest : i < j =>
            \E k, l \in DOMAIN s.list : k < l /\ s.list[k] = rest[i] /\ s.list[l] = rest[j]
  BY ListInjective, RemoveFirstFacts, SMTT(20) DEF StoreOK
<1> HIDE DEF rest, t
<1>3. DecreasingGen(t)
  <2> SUFFICES ASSUME NEW i \in DOMAIN rest, NEW j \in DOMAIN rest, i < j
               PROVE  t.nodes[rest[i]].gen > t.nodes[rest[j]].gen
    BY <1>1 DEF DecreasingGen
  <2>1. PICK k \in DOMAIN s.list, l \in DOMAIN s.list :
           k < l /\ s.list[k] = rest[i] /\ s.list[l] = rest[j]
    BY <1>2
  <2>2. rest[i] \in DOMAIN t.nodes /\ rest[j] \in DOMAIN t.nodes
    BY <1>1, <1>2 DEF Range
  <2>3. s.nodes[s.list[k]].gen > s.nodes[s.list[l]].gen
    BY <2>1 DEF StoreOK, DecreasingGen
  <2>4. QED
    BY <1>1, <2>1, <2>2, <2>3
<1>4. StoreOK(t)
  <2>1. Range(t.list) = DOMAIN t.nodes
    BY <1>1, <1>2
  <2>2. QED
    BY <1>1, <1>2, <1>3, <2>1 DEF StoreOK
<1>5. Advances(s, t)
  BY <1>1 DEF Advances, StoreOK
<1>6. QED
  BY <1>4, <1>5 DEF t

LEMMA AdvancesTransitive ==
    ASSUME NEW s, NEW t, NEW u, StoreOK(s), StoreOK(t), StoreOK(u),
           Advances(s, t), Advances(t, u)
    PROVE  Advances(s, u)
<1>1. s.generation \in Nat /\ t.generation \in Nat /\ u.generation \in Nat
  BY DEF StoreOK
<1>2. \A n \in DOMAIN u.nodes : u.nodes[n].gen \in Nat
  BY DEF StoreOK, NodeInfos
<1>3. QED
  BY <1>1, <1>2 DEF Advances

LEMMA AdvancesReflexive ==
    ASSUME NEW s, StoreOK(s)
    PROVE  Advances(s, s)
  BY DEF Advances, StoreOK

-----------------------------------------------------------------------------
(* The operations of NodeInfo and of the store.                            *)
LEMMA NewNodeInfoType == NewNodeInfo \in NodeInfos
<1>1. [i \in {} |-> {}] \in UNION {[I -> SUBSET Names] : I \in SUBSET Images}
  <2>1. [i \in {} |-> {}] \in [{} -> SUBSET Names]
    OBVIOUS
  <2>2. {} \in SUBSET Images
    OBVIOUS
  <2>3. QED
    BY <2>1, <2>2, Zenon
<1>2. QED
  BY <1>1 DEF NewNodeInfo, NodeInfos

LEMMA InfoTypes ==
    ASSUME NEW info \in NodeInfos, NEW key \in PodKeys, NEW g \in Nat
    PROVE  /\ InfoAddPod(info, key, g) \in NodeInfos
           /\ InfoAddPod(info, key, g).gen = g
           /\ info.pods[key] > 0 => InfoRemovePod(info, key, g) \in NodeInfos
           /\ InfoRemovePod(info, key, g).gen = g
<1>1. HostPort[key] \subseteq Ports
  BY CacheAssumption
<1>2. info.pods \in [PodKeys -> Nat]
  BY DEF NodeInfos
<1>3. InfoAddPod(info, key, g) \in NodeInfos /\ InfoAddPod(info, key, g).gen = g
  <2>1. [info.pods EXCEPT ![key] = @ + 1] \in [PodKeys -> Nat]
    BY <1>2
  <2>2. InfoAddPod(info, key, g) \in NodeInfos
    BY <1>1, <2>1 DEF InfoAddPod, NodeInfos
  <2>3. QED
    BY <2>2 DEF InfoAddPod, NodeInfos
<1>4. InfoRemovePod(info, key, g).gen = g
  BY DEF InfoRemovePod, NodeInfos
<1>5. ASSUME info.pods[key] > 0 PROVE InfoRemovePod(info, key, g) \in NodeInfos
  <2>1. [info.pods EXCEPT ![key] = @ - 1] \in [PodKeys -> Nat]
    BY <1>2, <1>5
  <2>2. QED
    BY <1>1, <2>1 DEF InfoRemovePod, NodeInfos
<1>6. QED
  BY <1>3, <1>4, <1>5

LEMMA AddOK ==
    ASSUME NEW s, StoreOK(s), NEW pod \in Pods
    PROVE  StoreOK(StoreAddPod(s, pod)) /\ Advances(s, StoreAddPod(s, pod))
<1>1. pod.node \in AllNames /\ pod.key \in PodKeys
  BY DEF Pods
<1>2. InfoOf(s, pod.node) \in NodeInfos
  BY NewNodeInfoType DEF InfoOf, StoreOK
<1>3. NextGen(s, pod.node) \in Nat /\ NextGen(s, pod.node) > s.generation
  BY DEF NextGen, StoreOK
<1>4. QED
  BY <1>1, <1>2, <1>3, InfoTypes, PutOK DEF StoreAddPod

LEMMA RemoveOK ==
    ASSUME NEW s, StoreOK(s), NEW pod \in Pods
    PROVE  StoreOK(StoreRemovePod(s, pod)) /\ Advances(s, StoreRemovePod(s, pod))
<1>1. pod.node \in AllNames /\ pod.key \in PodKeys
  BY DEF Pods
<1>2. CASE RemoveOutcome(s, pod) # "removed"
  BY <1>2, AdvancesReflexive DEF StoreRemovePod
<1>3. CASE RemoveOutcome(s, pod) = "removed"
  <2>1. pod.node \in DOMAIN s.nodes /\ s.nodes[pod.node].pods[pod.key] > 0
    BY <1>3 DEF RemoveOutcome
  <2>2. s.nodes[pod.node] \in NodeInfos
    BY <2>1 DEF StoreOK
  <2>3. s.generation + 1 \in Nat /\ s.generation + 1 > s.generation
    BY DEF StoreOK
  <2>4. QED
    BY <1>1, <1>3, <2>1, <2>2, <2>3, InfoTypes, PutOK DEF StoreRemovePod
<1>4. QED
  BY <1>2, <1>3

LEMMA SetNodeOK ==
    ASSUME NEW s, StoreOK(s), NEW obj \in Objects, NEW summary \in [obj.images -> SUBSET Names]
    PROVE  StoreOK(StoreSetNode(s, obj, summary)) /\ Advances(s, StoreSetNode(s, obj, summary))
<1> DEFINE info == [InfoOf(s, obj.name) EXCEPT !.obj = obj, !.summary = summary,
                                               !.gen = NextGen(s, obj.name)]
<1>1. obj.name \in AllNames /\ obj.images \in SUBSET Images
  BY DEF Objects, AllNames
<1>2. InfoOf(s, obj.name) \in NodeInfos
  BY NewNodeInfoType DEF InfoOf, StoreOK
<1>3. NextGen(s, obj.name) \in Nat /\ NextGen(s, obj.name) > s.generation
  BY DEF NextGen, StoreOK
<1>4. summary \in UNION {[I -> SUBSET Names] : I \in SUBSET Images}
  BY <1>1
<1>5. info \in NodeInfos /\ info.gen = NextGen(s, obj.name)
  BY <1>2, <1>3, <1>4 DEF NodeInfos
<1>6. QED
  BY <1>1, <1>3, <1>5, PutOK DEF StoreSetNode

-----------------------------------------------------------------------------
(* The parts of the state the actions change.                              *)
LEMMA StoreAdvances ==
    ASSUME IInv, StoreOK(store'), Advances(store, store'), snapshot' = snapshot
    PROVE  SnapshotOK'
<1>1. store.generation \in Nat /\ store'.generation \in Nat /\ snapshot.gen \in Nat
  BY DEF IInv, StoreOK, SnapshotOK
<1>2. \A n \in DOMAIN store'.nodes : store'.nodes[n].gen \in Nat
  BY DEF StoreOK, NodeInfos
<1>3. SnapshotFresh'
  <2> SUFFICES ASSUME NEW n \in DOMAIN store'.nodes,
                      store'.nodes[n].obj # Null, store'.nodes[n].gen <= snapshot.gen
               PROVE  n \in DOMAIN snapshot.map /\ snapshot.map[n] = store'.nodes[n]
    BY DEF SnapshotFresh
  <2>1. ~(store'.nodes[n].gen > store.generation)
    BY <1>1, <1>2 DEF IInv, SnapshotOK
  <2>2. n \in DOMAIN store.nodes /\ store'.nodes[n] = store.nodes[n]
    BY <2>1 DEF Advances
  <2>3. QED
    BY <2>2 DEF IInv, SnapshotOK, SnapshotFresh
<1>4. QED
  BY <1>1, <1>3 DEF IInv, SnapshotOK, Advances

(* A change of the store that leaves the snapshot alone.                   *)
LEMMA StoreStep ==
    ASSUME IInv, NEW t, StoreOK(t), Advances(store, t), store' = t, snapshot' = snapshot
    PROVE  StoreOK(store)' /\ SnapshotOK'
  BY StoreAdvances

LEMMA StoreUnchanged ==
    ASSUME IInv, store' = store, snapshot' = snapshot
    PROVE  StoreOK(store)' /\ SnapshotOK'
<1>1. StoreOK(store) /\ Advances(store, store)
  BY AdvancesReflexive DEF IInv
<1>2. QED
  BY <1>1, StoreStep

LEMMA PutStateOK ==
    ASSUME StatesOK, NEW key \in PodKeys, NEW state \in PodStates, PutState(key, state)
    PROVE  /\ DOMAIN podStates' = DOMAIN podStates \cup {key}
           /\ DOMAIN podStates' \subseteq PodKeys
           /\ \A k \in DOMAIN podStates' : podStates'[k] \in PodStates
  BY DEF StatesOK, PutState

LEMMA DropStateOK ==
    ASSUME StatesOK, NEW key, DropState(key)
    PROVE  /\ DOMAIN podStates' = DOMAIN podStates \ {key}
           /\ DOMAIN podStates' \subseteq PodKeys
           /\ \A k \in DOMAIN podStates' : podStates'[k] \in PodStates
  BY DEF StatesOK, DropState, Restrict

LEMMA FreshStateType ==
    ASSUME NEW pod \in Pods
    PROVE  FreshState(pod) \in PodStates
  BY DEF FreshState, PodStates

LEMMA ImagesOK ==
    ASSUME NEW states \in [Images -> SUBSET Names], NEW obj \in Objects
    PROVE  /\ AddImages(states, obj) \in [Images -> SUBSET Names]
           /\ RemoveImages(states, obj) \in [Images -> SUBSET Names]
           /\ RemoveImages(states, Null) \in [Images -> SUBSET Names]
  BY DEF AddImages, RemoveImages, Objects

(* A panic changes nothing but dead.                                       *)
LEMMA PanicStep ==
    ASSUME IInv, Panic
    PROVE  IInv'
<1>1. StoreOK(store)' /\ SnapshotOK'
  BY StoreUnchanged DEF Panic
<1>2. StatesOK'
  BY DEF IInv, StatesOK, Panic
<1>3. QED
  BY <1>1, <1>2 DEF IInv

LEMMA StutterStep ==
    ASSUME IInv, UNCHANGED vars
    PROVE  IInv'
<1>1. StoreOK(store)' /\ SnapshotOK'
  BY StoreUnchanged DEF vars
<1>2. StatesOK'
  BY DEF IInv, StatesOK, vars
<1>3. QED
  BY <1>1, <1>2 DEF IInv

-----------------------------------------------------------------------------
(* Every operation of the cache preserves the invariant.                   *)
LEMMA AssumePodStep ==
    ASSUME IInv, NEW pod \in Pods, AssumePod(pod)
    PROVE  IInv'
<1>1. StoreOK(store)' /\ SnapshotOK'
  BY AddOK, StoreStep DEF AssumePod, IInv
<1>2. pod.key \in PodKeys
  BY DEF Pods
<1>3. StatesOK'
  <2>1. StatesOK /\ FreshState(pod) \in PodStates
    BY FreshStateType DEF IInv
  <2>2. PutState(pod.key, FreshState(pod))
    BY DEF AssumePod
  <2>3. /\ DOMAIN podStates' = DOMAIN podStates \cup {pod.key}
        /\ DOMAIN podStates' \subseteq PodKeys
        /\ \A k \in DOMAIN podStates' : podStates'[k] \in PodStates
    BY <1>2, <2>1, <2>2, PutStateOK
  <2>4. QED
    BY <2>1, <2>3 DEF AssumePod, StatesOK
<1>4. QED
  BY <1>1, <1>3 DEF IInv

LEMMA FinishBindingStep ==
    ASSUME IInv, NEW key \in PodKeys, FinishBinding(key)
    PROVE  IInv'
<1>1. StoreOK(store)' /\ SnapshotOK'
  BY StoreUnchanged DEF FinishBinding
<1>2. TTL + 1 \in Nat
  BY CacheAssumption
<1>3. \A k \in DOMAIN podStates : podStates'[k] \in PodStates
  <2> SUFFICES ASSUME NEW k \in DOMAIN podStates
               PROVE  podStates'[k] \in PodStates
    OBVIOUS
  <2>1. podStates[k] \in PodStates
    BY DEF IInv, StatesOK
  <2>2. CASE k = key
    <3>1. podStates'[k] = [podStates[k] EXCEPT !.finished = TRUE, !.left = TTL + 1]
      BY <2>2 DEF FinishBinding
    <3>2. QED
      BY <1>2, <2>1, <3>1 DEF PodStates
  <2>3. CASE k # key
    BY <2>1, <2>3 DEF FinishBinding
  <2>4. QED
    BY <2>2, <2>3
<1>4. StatesOK'
  BY <1>3 DEF FinishBinding, IInv, StatesOK
<1>5. QED
  BY <1>1, <1>4 DEF IInv

(* A pod leaves: its state and its key in assumedPods go together.         *)
LEMMA LeaveStep ==
    ASSUME IInv, NEW pod \in Pods, NEW key,
           store' = StoreRemovePod(store, pod), snapshot' = snapshot,
           DropState(key), assumedPods' = assumedPods \ {key},
           sweep' \subseteq assumedPods', imageStates' = imageStates, dead' = dead
    PROVE  IInv'
<1>1. StoreOK(store)' /\ SnapshotOK'
  BY RemoveOK, StoreStep DEF IInv
<1>2. StatesOK'
  BY DropStateOK DEF IInv, StatesOK
<1>3. QED
  BY <1>1, <1>2 DEF IInv

LEMMA ForgetPodStep ==
    ASSUME IInv, NEW pod \in Pods, ForgetPod(pod)
    PROVE  IInv'
  BY LeaveStep, PanicStep DEF ForgetPod, CanChange, Callable

(* The cached object of a known pod.                                       *)
LEMMA CachedPodType ==
    ASSUME IInv, NEW key, Known(key)
    PROVE  key \in PodKeys /\ podStates[key].pod \in Pods
  BY DEF IInv, StatesOK, Known, PodStates

(* A pod moves: taken from where old says and put where new says.          *)
LEMMA MoveOK ==
    ASSUME IInv, NEW old \in Pods, NEW new \in Pods
    PROVE  LET t == StoreAddPod(StoreRemovePod(store, old), new)
           IN  StoreOK(t) /\ Advances(store, t)
<1> DEFINE r == StoreRemovePod(store, old)
<1>0. StoreOK(store)
  BY DEF IInv
<1>1. StoreOK(r) /\ Advances(store, r)
  BY <1>0, RemoveOK
<1>2. StoreOK(StoreAddPod(r, new)) /\ Advances(r, StoreAddPod(r, new))
  BY <1>1, AddOK
<1>3. QED
  BY <1>0, <1>1, <1>2, AdvancesTransitive

LEMMA ConfirmPodStep ==
    ASSUME IInv, NEW pod \in Pods, ConfirmPod(pod)
    PROVE  IInv'
<1> DEFINE old == podStates[pod.key].pod
<1>1. pod.key \in DOMAIN podStates /\ old \in Pods
  BY CachedPodType DEF ConfirmPod, Assumed, Known
<1>2. CASE Panic
  BY <1>2, PanicStep
<1>3. CASE ~Panic
  <2>1. /\ store' = IF old.node = pod.node THEN store
                    ELSE StoreAddPod(StoreRemovePod(store, old), pod)
        /\ assumedPods' = assumedPods \ {pod.key}
        /\ podStates' = [podStates EXCEPT ![pod.key].pod = pod, ![pod.key].left = 0]
        /\ UNCHANGED <<sweep, tree, imageStates, snapshot, dead>>
    BY <1>3 DEF ConfirmPod
  <2>2. StoreOK(store)' /\ SnapshotOK'
    <3>1. CASE old.node = pod.node
      BY <2>1, <3>1, StoreUnchanged
    <3>2. CASE old.node # pod.node
      BY <1>1, <2>1, <3>2, MoveOK, StoreStep
    <3>3. QED
      BY <3>1, <3>2
  <2>3. \A k \in DOMAIN podStates : podStates'[k] \in PodStates
    <3> SUFFICES ASSUME NEW k \in DOMAIN podStates
                 PROVE  podStates'[k] \in PodStates
      OBVIOUS
    <3>1. podStates[k] \in PodStates
      BY DEF IInv, StatesOK
    <3>2. CASE k = pod.key
      <4>1. podStates'[k] = [podStates[k] EXCEPT !.pod = pod, !.left = 0]
        BY <2>1, <3>2
      <4>2. 0 \in Nat
        OBVIOUS
      <4>3. QED
        BY <3>1, <4>1, <4>2 DEF PodStates
    <3>3. CASE k # pod.key
      BY <2>1, <3>1, <3>3
    <3>4. QED
      BY <3>2, <3>3
  <2>4. StatesOK'
    BY <2>1, <2>3 DEF IInv, StatesOK, ConfirmPod, CanChange, Callable
  <2>5. QED
    BY <2>2, <2>4 DEF IInv
<1>4. QED
  BY <1>2, <1>3

LEMMA AddPodStep ==
    ASSUME IInv, NEW pod \in Pods, AddPod(pod)
    PROVE  IInv'
<1>1. CASE ConfirmPod(pod)
  BY <1>1, ConfirmPodStep
<1>2. CASE AddNewPod(pod)
  <2>1. StoreOK(store)' /\ SnapshotOK'
    BY <1>2, AddOK, StoreStep DEF AddNewPod, IInv
  <2>2. pod.key \in PodKeys
    BY DEF Pods
  <2>3. StatesOK'
    BY <1>2, <2>2, FreshStateType, PutStateOK DEF AddNewPod, IInv, StatesOK
  <2>4. QED
    BY <2>1, <2>3 DEF IInv
<1>3. CASE Refused
  BY <1>3, StutterStep DEF Refused
<1>4. QED
  BY <1>1, <1>2, <1>3 DEF AddPod

LEMMA UpdatePodStep ==
    ASSUME IInv, NEW old \in Pods, NEW new \in Pods, UpdatePod(old, new)
    PROVE  IInv'
<1>1. CASE Panic
  BY <1>1, PanicStep
<1>2. CASE Refused
  BY <1>2, StutterStep DEF Refused
<1>3. CASE ~Panic /\ ~Refused
  <2>1. /\ Added(old.key)
        /\ podStates' = [podStates EXCEPT ![old.key].pod = new]
        /\ UNCHANGED <<assumedPods, sweep, tree, imageStates, snapshot, dead>>
        /\ \/ store' = store
           \/ store' = StoreAddPod(StoreRemovePod(store, old), new)
    BY <1>3 DEF UpdatePod
  <2>2. StoreOK(store)' /\ SnapshotOK'
    BY <2>1, StoreUnchanged, MoveOK, StoreStep
  <2>3. \A k \in DOMAIN podStates : podStates'[k] \in PodStates
    <3> SUFFICES ASSUME NEW k \in DOMAIN podStates
                 PROVE  podStates'[k] \in PodStates
      OBVIOUS
    <3>1. podStates[k] \in PodStates
      BY DEF IInv, StatesOK
    <3>2. CASE k = old.key
      <4>1. podStates'[k] = [podStates[k] EXCEPT !.pod = new]
        BY <2>1, <3>2
      <4>2. QED
        BY <3>1, <4>1 DEF PodStates
    <3>3. CASE k # old.key
      BY <2>1, <3>1, <3>3
    <3>4. QED
      BY <3>2, <3>3
  <2>4. StatesOK'
    BY <2>1, <2>3 DEF IInv, StatesOK
  <2>5. QED
    BY <2>2, <2>4 DEF IInv
<1>4. QED
  BY <1>1, <1>2, <1>3

LEMMA RemovePodStep ==
    ASSUME IInv, NEW pod \in Pods, RemovePod(pod)
    PROVE  IInv'
<1> DEFINE cached == podStates[pod.key].pod
<1>1. CASE Panic
  BY <1>1, PanicStep
<1>2. CASE Refused
  BY <1>2, StutterStep DEF Refused
<1>3. CASE ~Panic /\ ~Refused
  <2>1. /\ Added(pod.key)
        /\ store' = StoreRemovePod(store, cached)
        /\ DropState(pod.key)
        /\ UNCHANGED <<assumedPods, sweep, tree, imageStates, snapshot, dead>>
    BY <1>3 DEF RemovePod
  <2>2. cached \in Pods /\ assumedPods' = assumedPods \ {pod.key} /\ sweep' = {}
    BY <2>1, CachedPodType DEF Added, RemovePod, CanChange, Callable
  <2>3. QED
    BY <2>1, <2>2, LeaveStep
<1>4. QED
  BY <1>1, <1>2, <1>3

-----------------------------------------------------------------------------
LEMMA SetNodeStep ==
    ASSUME IInv, NEW obj \in Objects, NEW images \in [Images -> SUBSET Names],
           store' = StoreSetNode(store, obj, [i \in obj.images |-> images[i]]),
           imageStates' = images,
           UNCHANGED <<podStates, assumedPods, sweep, snapshot, dead>>
    PROVE  IInv'
<1>1. [i \in obj.images |-> images[i]] \in [obj.images -> SUBSET Names]
  BY DEF Objects
<1>2. StoreOK(store)' /\ SnapshotOK'
  BY <1>1, SetNodeOK, StoreStep DEF IInv
<1>3. StatesOK'
  BY DEF IInv, StatesOK
<1>4. QED
  BY <1>2, <1>3 DEF IInv

(* Replacing the images of the node object the cache holds.                *)
LEMMA ReplaceImagesOK ==
    ASSUME IInv, NEW obj \in Objects,
           NEW cached \in Objects \cup {Null}
    PROVE  AddImages(RemoveImages(imageStates, cached), obj) \in [Images -> SUBSET Names]
<1>1. imageStates \in [Images -> SUBSET Names]
  BY DEF IInv, StatesOK
<1>2. RemoveImages(imageStates, cached) \in [Images -> SUBSET Names]
  <2>1. CASE cached \in Objects
    BY <1>1, <2>1, ImagesOK
  <2>2. CASE cached = Null
    BY <1>1, <2>2 DEF RemoveImages
  <2>3. QED
    BY <2>1, <2>2
<1>3. QED
  BY <1>2, ImagesOK

LEMMA CachedNodeType ==
    ASSUME IInv, NEW n, n \in DOMAIN store.nodes
    PROVE  store.nodes[n].obj \in Objects \cup {Null}
  BY DEF IInv, StoreOK, NodeInfos

LEMMA AddNodeStep ==
    ASSUME IInv, NEW obj \in Objects, AddNode(obj)
    PROVE  IInv'
<1> DEFINE cached == IF obj.name \in DOMAIN store.nodes THEN store.nodes[obj.name].obj ELSE Null
           images == AddImages(RemoveImages(imageStates, cached), obj)
<1>1. cached \in Objects \cup {Null}
  BY CachedNodeType
<1>2. images \in [Images -> SUBSET Names]
  BY <1>1, ReplaceImagesOK
<1>3. /\ store' = StoreSetNode(store, obj, [i \in obj.images |-> images[i]])
      /\ imageStates' = images
      /\ UNCHANGED <<podStates, assumedPods, sweep, snapshot, dead>>
  BY DEF AddNode
<1> HIDE DEF images
<1>4. QED
  BY <1>2, <1>3, SetNodeStep

LEMMA UpdateNodeStep ==
    ASSUME IInv, NEW old \in Objects, NEW new \in Objects, UpdateNode(old, new)
    PROVE  IInv'
<1> DEFINE cached == IF new.name \in DOMAIN store.nodes THEN store.nodes[new.name].obj ELSE Null
           images == AddImages(RemoveImages(imageStates, cached), new)
<1>1. cached \in Objects \cup {Null}
  BY CachedNodeType
<1>2. images \in [Images -> SUBSET Names]
  BY <1>1, ReplaceImagesOK
<1>3. /\ store' = StoreSetNode(store, new, [i \in new.images |-> images[i]])
      /\ imageStates' = images
      /\ UNCHANGED <<podStates, assumedPods, sweep, snapshot, dead>>
  BY DEF UpdateNode
<1> HIDE DEF images
<1>4. QED
  BY <1>2, <1>3, SetNodeStep

LEMMA RemoveNodeStep ==
    ASSUME IInv, NEW obj \in Objects, RemoveNode(obj)
    PROVE  IInv'
<1>1. CASE Refused
  BY <1>1, StutterStep DEF Refused
<1>2. CASE ~Refused
  <2>1. /\ store' = Unlink(store, obj.name)
        /\ imageStates' \in {RemoveImages(imageStates, obj), imageStates}
        /\ UNCHANGED <<podStates, assumedPods, sweep, snapshot, dead>>
    BY <1>2 DEF RemoveNode
  <2>2. StoreOK(store)' /\ SnapshotOK'
    BY <2>1, UnlinkOK, StoreStep DEF IInv
  <2>3. imageStates' \in [Images -> SUBSET Names]
    BY <2>1, ImagesOK DEF IInv, StatesOK
  <2>4. StatesOK'
    BY <2>1, <2>3 DEF IInv, StatesOK
  <2>5. QED
    BY <2>2, <2>4 DEF IInv
<1>3. QED
  BY <1>1, <1>2

(* A sweep visits a pod that is assumed, or ends the process.              *)
LEMMA SweepPodStep ==
    ASSUME IInv, NEW key \in PodKeys, SweepPod(key)
    PROVE  IInv'
<1> DEFINE pod == podStates[key].pod
<1>1. CASE Panic
  BY <1>1, PanicStep
<1>2. CASE /\ Known(key)
           /\ store' = StoreRemovePod(store, pod)
           /\ assumedPods' = assumedPods \ {key}
           /\ DropState(key)
           /\ sweep' = sweep \ {key}
           /\ UNCHANGED <<tree, imageStates, snapshot, dead>>
  <2>1. pod \in Pods /\ sweep' \subseteq assumedPods'
    BY <1>2, CachedPodType DEF IInv, StatesOK
  <2>2. QED
    BY <1>2, <2>1, LeaveStep
<1>3. CASE /\ sweep' = sweep \ {key}
           /\ UNCHANGED <<store, podStates, assumedPods, tree, imageStates, snapshot, dead>>
  <2>1. StoreOK(store)' /\ SnapshotOK'
    BY <1>3, StoreUnchanged
  <2>2. StatesOK'
    BY <1>3 DEF IInv, StatesOK
  <2>3. QED
    BY <2>1, <2>2 DEF IInv
<1>4. QED
  BY <1>1, <1>2, <1>3 DEF SweepPod, Expired

LEMMA StartSweepStep ==
    ASSUME IInv, StartSweep
    PROVE  IInv'
<1>1. StoreOK(store)' /\ SnapshotOK'
  BY StoreUnchanged DEF StartSweep
<1>2. StatesOK'
  BY DEF StartSweep, IInv, StatesOK
<1>3. QED
  BY <1>1, <1>2 DEF IInv

LEMMA TickStep ==
    ASSUME IInv, Tick
    PROVE  IInv'
<1>1. StoreOK(store)' /\ SnapshotOK'
  BY StoreUnchanged DEF Tick
<1>2. ASSUME NEW k \in DOMAIN podStates
      PROVE  podStates'[k] \in PodStates
  <2>1. podStates[k] \in PodStates
    BY DEF IInv, StatesOK
  <2>2. podStates'[k] = [podStates[k] EXCEPT !.left = IF @ > 0 THEN @ - 1 ELSE 0]
    BY DEF Tick
  <2>3. (IF podStates[k].left > 0 THEN podStates[k].left - 1 ELSE 0) \in Nat
    BY <2>1 DEF PodStates
  <2>4. QED
    BY <2>1, <2>2, <2>3 DEF PodStates
<1>3. DOMAIN podStates' = DOMAIN podStates
  BY DEF Tick
<1>4. StatesOK'
  BY <1>2, <1>3 DEF Tick, IInv, StatesOK
<1>5. QED
  BY <1>1, <1>4 DEF IInv

-----------------------------------------------------------------------------
(* The walk of UpdateSnapshot stops at the first entry that is not newer   *)
(* than the snapshot; the order of the list makes it miss none.            *)
LEMMA FreshIsNewer ==
    ASSUME IInv, NEW n \in DOMAIN store.nodes
    PROVE  n \in Fresh \/ store.nodes[n].gen <= snapshot.gen
<1>1. PICK j \in DOMAIN store.list : store.list[j] = n
  BY DEF IInv, StoreOK, Range
<1>2. DOMAIN store.list = 1..Len(store.list) /\ Len(store.list) \in Nat
  BY DEF IInv, StoreOK
<1>3. \A k \in DOMAIN store.list : store.nodes[store.list[k]].gen \in Nat
  BY DEF IInv, StoreOK, NodeInfos, Range
<1>4. snapshot.gen \in Nat
  BY DEF IInv, SnapshotOK
<1>5. ASSUME n \notin Fresh
      PROVE  store.nodes[n].gen <= snapshot.gen
  <2>1. PICK k \in 1..j : ~(store.nodes[store.list[k]].gen > snapshot.gen)
    BY <1>1, <1>5 DEF Fresh
  <2>2. k \in DOMAIN store.list /\ (k = j \/ k < j)
    BY <1>2, <2>1
  <2>3. CASE k = j
    BY <1>1, <1>3, <1>4, <2>1, <2>3
  <2>4. CASE k < j
    <3>1. store.nodes[store.list[k]].gen > store.nodes[store.list[j]].gen
      BY <1>1, <2>2, <2>4 DEF IInv, StoreOK, DecreasingGen
    <3>2. QED
      BY <1>1, <1>3, <1>4, <2>1, <2>2, <3>1
  <2>5. QED
    BY <2>2, <2>3, <2>4
<1>6. QED
  BY <1>5

LEMMA CopiedInStore ==
    ASSUME IInv
    PROVE  Copied \subseteq DOMAIN store.nodes
  BY DEF Copied, Fresh, IInv, StoreOK, Range

(* What a cycle sees: the map after UpdateSnapshot.                        *)
LEMMA SnapshotContents ==
    ASSUME IInv, UpdateSnapshot
    PROVE  /\ \A n \in DOMAIN store.nodes : store.nodes[n].obj # Null =>
                 n \in DOMAIN snapshot'.map /\ snapshot'.map[n] = store.nodes[n]
           /\ \A n \in DOMAIN snapshot'.map :
                 \/ n \in Copied /\ snapshot'.map[n] = store.nodes[n]
                 \/ n \in DOMAIN snapshot.map /\ snapshot'.map[n] = snapshot.map[n]
<1>0. PICK D \in Deletions : \E list, affinity, gen :
         snapshot' = [map |-> Restrict(CopiedMap, DOMAIN CopiedMap \ D),
                      list |-> list, affinity |-> affinity, gen |-> gen]
  BY Zenon DEF UpdateSnapshot
<1>1. snapshot'.map = Restrict(CopiedMap, DOMAIN CopiedMap \ D)
  <2>1. PICK list, affinity, gen :
           snapshot' = [map |-> Restrict(CopiedMap, DOMAIN CopiedMap \ D),
                        list |-> list, affinity |-> affinity, gen |-> gen]
    BY <1>0
  <2>2. QED
    BY <2>1
<1>2. D \cap DOMAIN store.nodes = {}
  BY DEF Deletions
<1>3. DOMAIN CopiedMap = DOMAIN snapshot.map \cup Copied
  BY DEF CopiedMap
<1>4. ASSUME NEW n \in DOMAIN store.nodes, store.nodes[n].obj # Null
      PROVE  n \in DOMAIN CopiedMap /\ CopiedMap[n] = store.nodes[n]
  <2>1. CASE n \in Fresh
    BY <1>4, <2>1 DEF CopiedMap, Copied
  <2>2. CASE n \notin Fresh
    <3>1. store.nodes[n].gen <= snapshot.gen
      BY <2>2, FreshIsNewer
    <3>2. n \in DOMAIN snapshot.map /\ snapshot.map[n] = store.nodes[n]
      BY <1>4, <3>1 DEF IInv, SnapshotOK, SnapshotFresh
    <3>3. QED
      BY <3>2 DEF CopiedMap
  <2>3. QED
    BY <2>1, <2>2
<1>5. \A n \in DOMAIN CopiedMap :
         \/ n \in Copied /\ CopiedMap[n] = store.nodes[n]
         \/ n \in DOMAIN snapshot.map /\ CopiedMap[n] = snapshot.map[n]
  BY DEF CopiedMap
<1>6. /\ DOMAIN snapshot'.map = DOMAIN CopiedMap \ D
      /\ \A n \in DOMAIN CopiedMap \ D : snapshot'.map[n] = CopiedMap[n]
  BY <1>1 DEF Restrict
<1>7. QED
  BY <1>2, <1>4, <1>5, <1>6

LEMMA UpdateSnapshotStep ==
    ASSUME IInv, UpdateSnapshot
    PROVE  IInv'
<1>1. /\ UNCHANGED <<store, podStates, assumedPods, sweep, imageStates, dead>>
      /\ snapshot'.gen = IF store.list = <<>> THEN snapshot.gen
                         ELSE store.nodes[store.list[1]].gen
  BY DEF UpdateSnapshot
<1>2. StoreOK(store)'
  BY <1>1 DEF IInv, StoreOK, DecreasingGen
<1>3. StatesOK'
  BY <1>1 DEF IInv, StatesOK
<1>4. snapshot'.gen \in Nat /\ snapshot'.gen <= store'.generation
  <2>1. CASE store.list = <<>>
    BY <1>1, <2>1 DEF IInv, SnapshotOK
  <2>2. CASE store.list # <<>>
    <3>1. 1 \in DOMAIN store.list
      BY <2>2 DEF IInv, StoreOK
    <3>2. store.list[1] \in DOMAIN store.nodes
      BY <3>1 DEF IInv, StoreOK, Range
    <3>3. QED
      BY <1>1, <2>2, <3>2 DEF IInv, StoreOK, NodeInfos
  <2>3. QED
    BY <2>1, <2>2
<1>5. DOMAIN snapshot'.map \subseteq AllNames
  BY SnapshotContents, CopiedInStore DEF IInv, StoreOK, SnapshotOK
<1>6. \A n \in DOMAIN snapshot'.map : snapshot'.map[n] \in NodeInfos
  BY SnapshotContents, CopiedInStore DEF IInv, StoreOK, SnapshotOK
<1>7. SnapshotFresh'
  BY <1>1, SnapshotContents DEF SnapshotFresh
<1>8. QED
  BY <1>2, <1>3, <1>4, <1>5, <1>6, <1>7 DEF IInv, SnapshotOK

-----------------------------------------------------------------------------
LEMMA InitOK == Init => IInv
<1> SUFFICES ASSUME Init PROVE IInv
  OBVIOUS
<1>1. StoreOK(store)
  <2>1. <<>> \in Seq(AllNames) /\ DOMAIN <<>> = {} /\ 0 \in Nat
    OBVIOUS
  <2>2. DOMAIN store.nodes = {} /\ store.list = <<>> /\ store.generation = 0
    BY DEF Init
  <2>3. QED
    BY <2>1, <2>2 DEF StoreOK, DecreasingGen, Range
<1>2. SnapshotOK
  BY DEF Init, SnapshotOK, SnapshotFresh
<1>3. StatesOK
  BY DEF Init, StatesOK
<1>4. QED
  BY <1>1, <1>2, <1>3 DEF IInv

LEMMA NextOK == IInv /\ [Next]_vars => IInv'
<1> SUFFICES ASSUME IInv, [Next]_vars PROVE IInv'
  OBVIOUS
<1>1. ASSUME NEW pod \in Pods, AssumePod(pod) PROVE IInv'
  BY <1>1, AssumePodStep
<1>2. ASSUME NEW pod \in Pods, ForgetPod(pod) PROVE IInv'
  BY <1>2, ForgetPodStep
<1>3. ASSUME NEW pod \in Pods, AddPod(pod) PROVE IInv'
  BY <1>3, AddPodStep
<1>4. ASSUME NEW pod \in Pods, RemovePod(pod) PROVE IInv'
  BY <1>4, RemovePodStep
<1>5. ASSUME NEW old \in Pods, NEW new \in Pods, UpdatePod(old, new) PROVE IInv'
  BY <1>5, UpdatePodStep
<1>6. ASSUME NEW obj \in Objects, AddNode(obj) PROVE IInv'
  BY <1>6, AddNodeStep
<1>7. ASSUME NEW obj \in Objects, RemoveNode(obj) PROVE IInv'
  BY <1>7, RemoveNodeStep
<1>8. ASSUME NEW old \in Objects, NEW new \in Objects, UpdateNode(old, new) PROVE IInv'
  BY <1>8, UpdateNodeStep
<1>9. ASSUME NEW key \in PodKeys, FinishBinding(key) PROVE IInv'
  BY <1>9, FinishBindingStep
<1>10. ASSUME NEW key \in PodKeys, SweepPod(key) PROVE IInv'
  BY <1>10, SweepPodStep
<1>11. CASE StartSweep
  BY <1>11, StartSweepStep
<1>12. CASE Tick
  BY <1>12, TickStep
<1>13. CASE UpdateSnapshot
  BY <1>13, UpdateSnapshotStep
<1>14. CASE UNCHANGED vars
  BY <1>14, StutterStep
<1>15. QED
  BY <1>1, <1>2, <1>3, <1>4, <1>5, <1>6, <1>7, <1>8, <1>9, <1>10, <1>11, <1>12, <1>13, <1>14
     DEF Next

LEMMA InvariantHolds == Spec => []IInv
  BY InitOK, NextOK, PTL DEF Spec

(* Type correctness of the cache, whatever the order of the calls.         *)
THEOREM TypeCorrect == Spec => []TypeOK
<1>1. IInv => TypeOK
  BY DEF IInv, StoreOK, SnapshotOK, StatesOK, TypeOK
<1>2. QED
  BY <1>1, InvariantHolds, PTL

(* The linked list always holds every NodeInfo once, newest first          *)
(* (cache.go:126-172 and every caller of moveNodeInfoToHead).              *)
THEOREM ListOrder == Spec => []ListSorted
<1>1. IInv => ListSorted
  BY DEF IInv, StoreOK, ListSorted
<1>2. QED
  BY <1>1, InvariantHolds, PTL

(* A node UpdateSnapshot will skip is in the snapshot exactly as in the    *)
(* cache (cache.go:202-276): the generation check loses no change.         *)
THEOREM SnapshotNeverStale == Spec => []SnapshotFresh
<1>1. IInv => SnapshotFresh
  BY DEF IInv, SnapshotOK
<1>2. QED
  BY <1>1, InvariantHolds, PTL

(* The expiry sweep never finds an assumed key without a state             *)
(* (cache.go:711-714).                                                     *)
THEOREM AssumedPodsHaveState == Spec => []AssumedHaveState
<1>1. IInv => AssumedHaveState
  BY DEF IInv, StatesOK, AssumedHaveState
<1>2. QED
  BY <1>1, InvariantHolds, PTL

-----------------------------------------------------------------------------
(* Only UpdateSnapshot touches the snapshot.                               *)
LEMMA OnlyUpdateSnapshot ==
    ASSUME [Next]_vars, ~UpdateSnapshot
    PROVE  snapshot' = snapshot
<1>1. ASSUME NEW pod \in Pods, AddPod(pod) PROVE snapshot' = snapshot
  BY <1>1 DEF AddPod, ConfirmPod, AddNewPod, Refused, Panic, vars
<1>2. ASSUME NEW pod \in Pods, AssumePod(pod) \/ ForgetPod(pod) \/ RemovePod(pod)
      PROVE  snapshot' = snapshot
  BY <1>2 DEF AssumePod, ForgetPod, RemovePod, Refused, Panic, vars
<1>3. ASSUME NEW old \in Pods, NEW new \in Pods, UpdatePod(old, new)
      PROVE  snapshot' = snapshot
  BY <1>3 DEF UpdatePod, Refused, Panic, vars
<1>4. ASSUME NEW obj \in Objects, AddNode(obj) \/ RemoveNode(obj)
      PROVE  snapshot' = snapshot
  BY <1>4 DEF AddNode, RemoveNode, Refused, vars
<1>5. ASSUME NEW old \in Objects, NEW new \in Objects, UpdateNode(old, new)
      PROVE  snapshot' = snapshot
  BY <1>5 DEF UpdateNode
<1>6. ASSUME NEW key \in PodKeys, FinishBinding(key) \/ SweepPod(key)
      PROVE  snapshot' = snapshot
  BY <1>6 DEF FinishBinding, SweepPod, Panic
<1>7. CASE StartSweep \/ Tick
  BY <1>7 DEF StartSweep, Tick
<1>8. CASE UNCHANGED vars
  BY <1>8 DEF vars
<1>9. QED
  BY <1>1, <1>2, <1>3, <1>4, <1>5, <1>6, <1>7, <1>8 DEF Next

(* After a snapshot the walk stops at once.                                *)
LEMMA NothingFresh ==
    ASSUME IInv, UpdateSnapshot
    PROVE  Fresh' = {}
<1>1. store' = store
  BY DEF UpdateSnapshot
<1>2. snapshot'.gen = IF store.list = <<>> THEN snapshot.gen
                      ELSE store.nodes[store.list[1]].gen
  BY DEF UpdateSnapshot
<1>3. Fresh' = {store.list[i] : i \in {j \in DOMAIN store.list :
                   \A k \in 1..j : store.nodes[store.list[k]].gen > snapshot'.gen}}
  BY <1>1 DEF Fresh
<1>4. ASSUME NEW j \in DOMAIN store.list
      PROVE  \E k \in 1..j : ~(store.nodes[store.list[k]].gen > snapshot'.gen)
  <2>1. store.list # <<>> /\ j \in 1..Len(store.list) /\ Len(store.list) \in Nat
    BY <1>4 DEF IInv, StoreOK
  <2>2. 1 \in 1..j /\ 1 \in DOMAIN store.list
    BY <2>1
  <2>3. store.nodes[store.list[1]].gen \in Nat
    BY <2>2 DEF IInv, StoreOK, NodeInfos, Range
  <2>4. ~(store.nodes[store.list[1]].gen > snapshot'.gen)
    BY <1>2, <2>1, <2>3
  <2>5. QED
    BY <2>2, <2>4
<1>5. QED
  BY <1>3, <1>4

(* A snapshot shows all of the cache at one moment.                        *)
LEMMA SnapshotTaken ==
    ASSUME IInv, UpdateSnapshot
    PROVE  Atomic!TakeSnapshot
<1>1. store' = store
  BY DEF UpdateSnapshot
<1>2. Content(store.nodes)' = Content(store.nodes)
  BY <1>1 DEF Content
<1>3. ASSUME NEW n \in DOMAIN Content(store.nodes)
      PROVE  /\ n \in DOMAIN Content(snapshot'.map)
             /\ Content(snapshot'.map)[n] = Content(store.nodes)[n]
  BY SnapshotContents DEF Content
<1>4. ASSUME NEW n \in DOMAIN Content(snapshot'.map) \ DOMAIN Content(store.nodes)
      PROVE  /\ n \in DOMAIN Content(snapshot.map)
             /\ Content(snapshot'.map)[n] = Content(snapshot.map)[n]
  <2>1. n \notin Copied
    BY <1>4, CopiedInStore DEF Content, Copied
  <2>2. n \in DOMAIN snapshot.map /\ snapshot'.map[n] = snapshot.map[n]
    BY <1>4, <2>1, SnapshotContents DEF Content
  <2>3. QED
    BY <1>4, <2>2 DEF Content
<1>5. Atomic!Shows'
  BY <1>2, <1>3 DEF Atomic!Shows, Content
<1>6. (Fresh = {})' = TRUE
  BY NothingFresh
<1>7. QED
  BY <1>2, <1>4, <1>5, <1>6 DEF Atomic!TakeSnapshot, Content

(* When the walk would stop at once, the snapshot is exact.                *)
LEMMA CurrentShows == IInv => (Fresh = {} => Atomic!Shows)
<1> SUFFICES ASSUME IInv, Fresh = {}, NEW n \in DOMAIN Content(store.nodes)
             PROVE  /\ n \in DOMAIN Content(snapshot.map)
                    /\ Content(snapshot.map)[n] = Content(store.nodes)[n]
  BY DEF Atomic!Shows
<1>1. n \in DOMAIN store.nodes /\ store.nodes[n].obj # Null
  BY DEF Content
<1>2. store.nodes[n].gen <= snapshot.gen
  BY <1>1, FreshIsNewer
<1>3. n \in DOMAIN snapshot.map /\ snapshot.map[n] = store.nodes[n]
  BY <1>1, <1>2 DEF IInv, SnapshotOK, SnapshotFresh
<1>4. QED
  BY <1>1, <1>3 DEF Content

(* The incremental snapshot, with its generations and its list walk,       *)
(* implements a snapshot copied at once (interface.go:100-102).            *)
THEOREM SnapshotImplementsAtomic == Spec => SnapshotIsAtomic
<1>1. Init => Atomic!Init
  BY DEF Init, Atomic!Init, Content, Fresh
<1>2. IInv /\ IInv' /\ (IInv' => (Fresh = {} => Atomic!Shows)') /\ [Next]_vars
        => [Atomic!Next]_<<Content(store.nodes), Content(snapshot.map), (Fresh = {})>>
  <2> SUFFICES ASSUME IInv, IInv', IInv' => (Fresh = {} => Atomic!Shows)', [Next]_vars
               PROVE  Atomic!Next
    OBVIOUS
  <2>1. CASE UpdateSnapshot
    BY <2>1, SnapshotTaken DEF Atomic!Next
  <2>2. CASE ~UpdateSnapshot
    <3>1. snapshot' = snapshot
      BY <2>2, OnlyUpdateSnapshot
    <3>2. (Fresh = {})' => Atomic!Shows'
      OBVIOUS
    <3>3. Content(snapshot.map)' = Content(snapshot.map)
      BY <3>1 DEF Content
    <3>4. Atomic!Change
      BY <3>2, <3>3 DEF Atomic!Change
    <3>5. QED
      BY <3>4 DEF Atomic!Next
  <2>3. QED
    BY <2>1, <2>2
<1>3. QED
  BY <1>1, <1>2, CurrentShows, InvariantHolds, PTL DEF Spec, SnapshotIsAtomic, Atomic!Spec

-----------------------------------------------------------------------------
(* The life of a pod depends on its own entries only.                      *)
LEMMA SameLife ==
    ASSUME NEW k,
           k \in DOMAIN podStates' <=> k \in DOMAIN podStates,
           k \in assumedPods' <=> k \in assumedPods,
           k \in DOMAIN podStates /\ k \in assumedPods =>
               /\ podStates'[k].finished = podStates[k].finished
               /\ podStates'[k].left = podStates[k].left
    PROVE  LifeOf(k)' = LifeOf(k)
  BY DEF LifeOf, Known

LEMMA LifeIsState ==
    \A k : LifeOf(k) \in Lifecycle!States
  BY DEF LifeOf, Lifecycle!States, Lifecycle!AssumedStates

LEMMA MoveIsNext ==
    ASSUME NEW key \in PodKeys,
           <<LifeOf(key), LifeOf(key)'>> \in Lifecycle!Moves \cup Lifecycle!Stay,
           \A k \in PodKeys \ {key} : LifeOf(k)' = LifeOf(k)
    PROVE  Lifecycle!Next
<1>1. \A k \in PodKeys \ {key} : <<LifeOf(k), LifeOf(k)'>> \in Lifecycle!Stay
  BY LifeIsState DEF Lifecycle!Stay
<1>2. QED
  BY <1>1 DEF Lifecycle!Next

LEMMA StayIsNext ==
    ASSUME \A k \in PodKeys : LifeOf(k)' = LifeOf(k)
    PROVE  Lifecycle!Next
<1>1. \A k \in PodKeys : <<LifeOf(k), LifeOf(k)'>> \in Lifecycle!Stay
  BY LifeIsState DEF Lifecycle!Stay
<1>2. QED
  BY <1>1 DEF Lifecycle!Next

LEMMA UnchangedIsNext ==
    ASSUME UNCHANGED <<podStates, assumedPods>>
    PROVE  Lifecycle!Next
<1>1. \A k \in PodKeys : LifeOf(k)' = LifeOf(k)
  BY SameLife
<1>2. QED
  BY <1>1, StayIsNext

(* With the lock free, a pod that leaves was assumed or added.             *)
LEMMA LeaveIsNext ==
    ASSUME NEW key \in PodKeys, Known(key), sweep = {},
           DropState(key), assumedPods' = assumedPods \ {key}
    PROVE  Lifecycle!Next
<1>1. DOMAIN podStates' = DOMAIN podStates \ {key}
  BY DEF DropState, Restrict
<1>2. \A k \in PodKeys \ {key} : LifeOf(k)' = LifeOf(k)
  BY <1>1, SameLife DEF DropState, Restrict
<1>3. LifeOf(key)' = "Initial" /\ LifeOf(key) # "Initial"
  BY <1>1 DEF LifeOf, Known
<1>4. <<LifeOf(key), LifeOf(key)'>> \in Lifecycle!Moves
  BY <1>3, LifeIsState DEF Lifecycle!Moves, Lifecycle!Forget, Lifecycle!Remove,
     Lifecycle!States
<1>5. QED
  BY <1>2, <1>4, MoveIsNext

(* Moves of a pod that is not in the cache.                                *)
LEMMA EnterIsNext ==
    ASSUME IInv, NEW key \in PodKeys, NEW state, ~Known(key), sweep = {},
           PutState(key, state), ~state.finished,
           assumedPods' \in {assumedPods, assumedPods \cup {key}}
    PROVE  Lifecycle!Next
<1>1. DOMAIN podStates' = DOMAIN podStates \cup {key} /\ podStates'[key] = state
  BY DEF PutState
<1>2. \A k \in PodKeys \ {key} : LifeOf(k)' = LifeOf(k)
  BY <1>1, SameLife DEF PutState
<1>3. LifeOf(key) = "Initial" /\ key \notin assumedPods
  BY DEF LifeOf, Known, IInv, StatesOK
<1>4. LifeOf(key)' \in {"Added", "Binding"}
  BY <1>1, <1>3 DEF LifeOf, Known
<1>5. <<LifeOf(key), LifeOf(key)'>> \in Lifecycle!Moves
  BY <1>3, <1>4 DEF Lifecycle!Moves, Lifecycle!Assume, Lifecycle!Add
<1>6. QED
  BY <1>2, <1>5, MoveIsNext

LEMMA FinishIsNext ==
    ASSUME NEW key \in PodKeys, FinishBinding(key)
    PROVE  Lifecycle!Next
<1>1. key \in DOMAIN podStates /\ key \in assumedPods /\ sweep = {}
  BY DEF FinishBinding, Assumed, Known, Callable
<1>2. \A k \in PodKeys \ {key} : LifeOf(k)' = LifeOf(k)
  BY SameLife DEF FinishBinding
<1>3. LifeOf(key) \in Lifecycle!AssumedStates
  BY <1>1 DEF LifeOf, Known, Lifecycle!AssumedStates
<1>4. LifeOf(key)' = "Waiting"
  <2>1. podStates'[key] = [podStates[key] EXCEPT !.finished = TRUE, !.left = TTL + 1]
    BY <1>1 DEF FinishBinding
  <2>2. TTL + 1 > 0
    BY CacheAssumption
  <2>3. key \in DOMAIN podStates' /\ key \in assumedPods'
    BY <1>1 DEF FinishBinding
  <2>4. podStates'[key].finished = TRUE /\ podStates'[key].left = TTL + 1
    BY <2>1
  <2>5. QED
    BY <2>2, <2>3, <2>4 DEF LifeOf, Known
<1>5. <<LifeOf(key), LifeOf(key)'>> \in Lifecycle!Moves
  BY <1>1, <1>3, <1>4 DEF Lifecycle!Moves, Lifecycle!Finish
<1>6. QED
  BY <1>2, <1>5, MoveIsNext

LEMMA ConfirmIsNext ==
    ASSUME NEW pod \in Pods, ConfirmPod(pod)
    PROVE  Lifecycle!Next
<1>1. CASE Panic
  BY <1>1, UnchangedIsNext DEF Panic
<1>2. CASE ~Panic
  <2>1. /\ assumedPods' = assumedPods \ {pod.key}
        /\ DOMAIN podStates' = DOMAIN podStates
        /\ \A k \in DOMAIN podStates \ {pod.key} : podStates'[k] = podStates[k]
    BY <1>2 DEF ConfirmPod
  <2>2. /\ pod.key \in DOMAIN podStates /\ pod.key \in assumedPods /\ sweep = {}
        /\ pod.key \in PodKeys
    BY DEF ConfirmPod, Assumed, Known, CanChange, Callable, Pods
  <2>3. \A k \in PodKeys \ {pod.key} : LifeOf(k)' = LifeOf(k)
    BY <2>1, SameLife
  <2>4. LifeOf(pod.key) \in Lifecycle!AssumedStates
    BY <2>2 DEF LifeOf, Known, Lifecycle!AssumedStates
  <2>5. LifeOf(pod.key)' = "Added"
    BY <2>1, <2>2 DEF LifeOf, Known
  <2>6. <<LifeOf(pod.key), LifeOf(pod.key)'>> \in Lifecycle!Moves
    BY <2>2, <2>4, <2>5 DEF Lifecycle!Moves, Lifecycle!Add
  <2>7. QED
    BY <2>2, <2>3, <2>6, MoveIsNext
<1>3. QED
  BY <1>1, <1>2

LEMMA UpdateIsNext ==
    ASSUME NEW old \in Pods, NEW new \in Pods, UpdatePod(old, new)
    PROVE  Lifecycle!Next
<1>1. CASE Panic \/ Refused
  BY <1>1, UnchangedIsNext DEF Panic, Refused, vars
<1>2. CASE ~(Panic \/ Refused)
  <2>1. /\ Added(old.key)
        /\ podStates' = [podStates EXCEPT ![old.key].pod = new]
        /\ assumedPods' = assumedPods
    BY <1>2 DEF UpdatePod
  <2>2. \A k \in PodKeys : LifeOf(k)' = LifeOf(k)
    <3>1. \A k \in DOMAIN podStates \ {old.key} : podStates'[k] = podStates[k]
      BY <2>1
    <3>2. DOMAIN podStates' = DOMAIN podStates /\ old.key \notin assumedPods
      BY <2>1 DEF Added
    <3>3. QED
      BY <2>1, <3>1, <3>2, SameLife
  <2>3. QED
    BY <2>2, StayIsNext
<1>3. QED
  BY <1>1, <1>2

LEMMA TickIsNext ==
    ASSUME IInv, Tick
    PROVE  Lifecycle!Next
<1>1. sweep = {} /\ assumedPods' = assumedPods /\ DOMAIN podStates' = DOMAIN podStates
  BY DEF Tick, Callable
<1>2. ASSUME NEW k \in PodKeys
      PROVE  <<LifeOf(k), LifeOf(k)'>> \in Lifecycle!Age \cup Lifecycle!Stay
  <2>1. CASE k \in DOMAIN podStates /\ k \in assumedPods
    <3>1. podStates[k] \in PodStates
      BY <2>1 DEF IInv, StatesOK
    <3>2. podStates'[k] = [podStates[k] EXCEPT !.left = IF @ > 0 THEN @ - 1 ELSE 0]
      BY <2>1 DEF Tick
    <3>3. /\ podStates'[k].finished = podStates[k].finished
          /\ podStates'[k].left =
                IF podStates[k].left > 0 THEN podStates[k].left - 1 ELSE 0
      BY <3>1, <3>2 DEF PodStates
    <3>4. podStates[k].left \in Nat
      BY <3>1 DEF PodStates
    <3>5. LifeOf(k)' = LifeOf(k) \/ (LifeOf(k) = "Waiting" /\ LifeOf(k)' = "Due")
      BY <1>1, <2>1, <3>3, <3>4 DEF LifeOf, Known
    <3>6. QED
      BY <3>5, LifeIsState DEF Lifecycle!Age, Lifecycle!Stay
  <2>2. CASE ~(k \in DOMAIN podStates /\ k \in assumedPods)
    <3>1. LifeOf(k)' = LifeOf(k)
      BY <1>1, <2>2, SameLife
    <3>2. QED
      BY <3>1, LifeIsState DEF Lifecycle!Stay
  <2>3. QED
    BY <2>1, <2>2
<1>3. \A k \in PodKeys : <<LifeOf(k), LifeOf(k)'>> \in Lifecycle!Moves \cup Lifecycle!Stay
  BY <1>1, <1>2 DEF Lifecycle!Moves
<1>4. QED
  BY <1>2, <1>3 DEF Lifecycle!Next

(* The sweep holds the lock: the only pod that leaves is one that is due.  *)
LEMMA SweepIsNext ==
    ASSUME IInv, NEW key \in PodKeys, SweepPod(key)
    PROVE  Lifecycle!Next
<1>1. CASE UNCHANGED <<podStates, assumedPods>>
  BY <1>1, UnchangedIsNext
<1>2. CASE Expired(key) /\ DropState(key) /\ assumedPods' = assumedPods \ {key}
  <2>1. DOMAIN podStates' = DOMAIN podStates \ {key}
    BY <1>2 DEF DropState, Restrict
  <2>2. \A k \in PodKeys \ {key} : LifeOf(k)' = LifeOf(k)
    BY <1>2, <2>1, SameLife DEF DropState, Restrict
  <2>3. key \in sweep /\ key \in assumedPods
    BY DEF SweepPod, IInv, StatesOK
  <2>4. LifeOf(key) = "Due"
    BY <1>2, <2>3 DEF Expired, LifeOf, Known
  <2>5. LifeOf(key)' = "Initial"
    BY <2>1 DEF LifeOf, Known
  <2>6. <<LifeOf(key), LifeOf(key)'>> \in Lifecycle!Moves
    BY <2>3, <2>4, <2>5 DEF Lifecycle!Moves, Lifecycle!Expire
  <2>7. QED
    BY <2>2, <2>6, MoveIsNext
<1>3. QED
  BY <1>1, <1>2 DEF SweepPod, Panic

(* Under any caller each pod goes through the states interface.go draws    *)
(* (lines 33-56); in particular a sweep releases only what is due.         *)
THEOREM PodsFollowLifecycle == Spec => FollowsLifecycle
<1>1. Init => Lifecycle!Init
  BY DEF Init, Lifecycle!Init, LifeOf, Known
<1>2. IInv /\ [Next]_vars =>
         [Lifecycle!Next]_<<[k \in PodKeys |-> LifeOf(k)], (sweep # {})>>
  <2> SUFFICES ASSUME IInv, [Next]_vars
               PROVE  Lifecycle!Next
    OBVIOUS
  <2>1. ASSUME NEW pod \in Pods, AssumePod(pod) PROVE Lifecycle!Next
    BY <2>1, EnterIsNext DEF AssumePod, FreshState, CanChange, Callable, Pods
  <2>2. ASSUME NEW pod \in Pods, ForgetPod(pod) PROVE Lifecycle!Next
    BY <2>2, LeaveIsNext, UnchangedIsNext
       DEF ForgetPod, Assumed, CanChange, Callable, Pods, Panic
  <2>3. ASSUME NEW pod \in Pods, AddPod(pod) PROVE Lifecycle!Next
    <3>1. CASE ConfirmPod(pod)
      BY <3>1, ConfirmIsNext
    <3>2. CASE AddNewPod(pod)
      BY <3>2, EnterIsNext DEF AddNewPod, FreshState, CanChange, Callable, Pods
    <3>3. CASE Refused
      BY <3>3, UnchangedIsNext DEF Refused, vars
    <3>4. QED
      BY <2>3, <3>1, <3>2, <3>3 DEF AddPod
  <2>4. ASSUME NEW pod \in Pods, RemovePod(pod) PROVE Lifecycle!Next
    <3>1. CASE Panic \/ Refused
      BY <3>1, UnchangedIsNext DEF Panic, Refused, vars
    <3>2. CASE ~(Panic \/ Refused)
      <4>1. Added(pod.key) /\ DropState(pod.key) /\ assumedPods' = assumedPods /\ sweep = {}
        BY <2>4, <3>2 DEF RemovePod, CanChange, Callable
      <4>2. assumedPods' = assumedPods \ {pod.key} /\ Known(pod.key) /\ pod.key \in PodKeys
        BY <4>1 DEF Added, Pods
      <4>3. QED
        BY <4>1, <4>2, LeaveIsNext
    <3>3. QED
      BY <3>1, <3>2
  <2>5. ASSUME NEW old \in Pods, NEW new \in Pods, UpdatePod(old, new) PROVE Lifecycle!Next
    BY <2>5, UpdateIsNext
  <2>6. ASSUME NEW obj \in Objects, AddNode(obj) \/ RemoveNode(obj) PROVE Lifecycle!Next
    BY <2>6, UnchangedIsNext DEF AddNode, RemoveNode, Refused, vars
  <2>7. ASSUME NEW old \in Objects, NEW new \in Objects, UpdateNode(old, new)
        PROVE  Lifecycle!Next
    BY <2>7, UnchangedIsNext DEF UpdateNode
  <2>8. ASSUME NEW key \in PodKeys, FinishBinding(key) PROVE Lifecycle!Next
    BY <2>8, FinishIsNext
  <2>9. ASSUME NEW key \in PodKeys, SweepPod(key) PROVE Lifecycle!Next
    BY <2>9, SweepIsNext
  <2>10. CASE Tick
    BY <2>10, TickIsNext
  <2>11. CASE StartSweep \/ UpdateSnapshot
    BY <2>11, UnchangedIsNext DEF StartSweep, UpdateSnapshot
  <2>12. CASE UNCHANGED vars
    BY <2>12, UnchangedIsNext DEF vars
  <2>13. QED
    BY <2>1, <2>2, <2>3, <2>4, <2>5, <2>6, <2>7, <2>8, <2>9, <2>10, <2>11, <2>12 DEF Next
<1>3. QED
  BY <1>1, <1>2, InvariantHolds, PTL DEF Spec, FollowsLifecycle, Lifecycle!Spec

-----------------------------------------------------------------------------
(* The node tree.  Every zone of the tree has an array of at least one     *)
(* name, without repetitions, and the list of zones names each zone once.  *)
Arrays == [nodes : Seq(Names), lastIndex : Nat]

IsRecord(t) ==
    t = [tree |-> t.tree, zones |-> t.zones, zoneIndex |-> t.zoneIndex, numNodes |-> t.numNodes]

TreeOK(t) ==
    /\ IsRecord(t)
    /\ t.zones \in Seq(Zones) /\ t.zoneIndex \in Nat /\ t.numNodes \in Int
    /\ DOMAIN t.tree \subseteq Zones /\ t.tree \in [DOMAIN t.tree -> Arrays]
    /\ IsInjective(t.zones) /\ Range(t.zones) = DOMAIN t.tree
    /\ \A z \in DOMAIN t.tree : IsInjective(t.tree[z].nodes) /\ t.tree[z].nodes # <<>>

(* No index is larger than the number of zones, or of nodes, there can be. *)
Bounded(t) ==
    /\ t.zoneIndex <= Cardinality(Zones)
    /\ \A z \in DOMAIN t.tree : t.tree[z].lastIndex <= Cardinality(Names)

IsObj(obj) == obj.name \in Names /\ obj.zone \in Zones

LEMMA ObjectsAreObjs == \A obj \in Objects : IsObj(obj)
  BY DEF Objects, IsObj

(* AddNode appends the name to the array of its zone, once.                *)
LEMMA TreeAddOK ==
    ASSUME NEW t, TreeOK(t), NEW obj, IsObj(obj)
    PROVE  LET u == TreeAddNode(t, obj)
           IN  /\ TreeOK(u)
               /\ \A z : NamesOf(u, z) = IF z = obj.zone THEN NamesOf(t, z) \cup {obj.name}
                                         ELSE NamesOf(t, z)
               /\ u.numNodes = IF obj.name \in NamesOf(t, obj.zone) THEN t.numNodes
                               ELSE t.numNodes + 1
               /\ Bounded(t) => Bounded(u)
<1> DEFINE u == TreeAddNode(t, obj)
           name == obj.name
           zone == obj.zone
<1>0. name \in Names /\ zone \in Zones
  BY DEF IsObj
<1> HIDE DEF name, zone
<1>1. CASE name \in NamesOf(t, zone)
  <2>1. u = t
    BY <1>1 DEF TreeAddNode, name, zone
  <2>2. QED
    BY <1>1, <2>1 DEF name, zone
<1>2. CASE name \notin NamesOf(t, zone) /\ zone \in DOMAIN t.tree
  <2>1. u = [t EXCEPT !.tree[zone].nodes = Append(@, name), !.numNodes = @ + 1]
    BY <1>2 DEF TreeAddNode, name, zone
  <2> HIDE DEF u
  <2> DEFINE old == t.tree[zone].nodes
             new == Append(old, name)
             arr == [t.tree[zone] EXCEPT !.nodes = new]
  <2>2. t.tree[zone] \in Arrays /\ old \in Seq(Names) /\ IsInjective(old) /\ name \notin Range(old)
    BY <1>2 DEF TreeOK, NamesOf, Arrays
  <2>3. /\ new \in Seq(Names) /\ new # <<>> /\ Range(new) = Range(old) \cup {name}
        /\ IsInjective(new)
    BY <1>0, <2>2, AppendFacts
  <2>4. /\ IsRecord(u)
        /\ u.zones = t.zones
        /\ u.zoneIndex = t.zoneIndex
        /\ u.numNodes = t.numNodes + 1
        /\ u.tree = [t.tree EXCEPT ![zone] = arr]
    BY <2>1 DEF TreeOK, IsRecord
  <2> HIDE DEF new
  <2>5. arr \in Arrays /\ arr.nodes = new /\ arr.lastIndex = t.tree[zone].lastIndex
    BY <2>2, <2>3 DEF Arrays
  <2> HIDE DEF old, arr
  <2>6. /\ DOMAIN u.tree = DOMAIN t.tree
        /\ \A z \in DOMAIN t.tree : u.tree[z] = IF z = zone THEN arr ELSE t.tree[z]
        /\ u.tree \in [DOMAIN u.tree -> Arrays]
    BY <1>2, <2>4, <2>5 DEF TreeOK
  <2>7. TreeOK(u)
    BY <2>3, <2>4, <2>5, <2>6 DEF TreeOK
  <2>8. \A z : NamesOf(u, z) = IF z = zone THEN NamesOf(t, z) \cup {name} ELSE NamesOf(t, z)
    BY <1>2, <2>3, <2>5, <2>6 DEF NamesOf, old
  <2>9. Bounded(t) => Bounded(u)
    BY <1>2, <2>4, <2>5, <2>6 DEF Bounded
  <2>10. QED
    BY <1>2, <2>4, <2>7, <2>8, <2>9 DEF u, name, zone
<1>3. CASE name \notin NamesOf(t, zone) /\ zone \notin DOMAIN t.tree
  <2> DEFINE arr == [nodes |-> <<name>>, lastIndex |-> 0]
             trees == [z \in DOMAIN t.tree \cup {zone} |-> IF z = zone THEN arr ELSE t.tree[z]]
  <2>1. u = [t EXCEPT !.zones = Append(@, zone), !.tree = trees, !.numNodes = @ + 1]
    BY <1>3 DEF TreeAddNode, TreeOK, name, zone
  <2> HIDE DEF u
  <2>2. /\ t.zones \in Seq(Zones) /\ zone \notin Range(t.zones)
        /\ IsInjective(t.zones) /\ Range(t.zones) = DOMAIN t.tree
    BY <1>3 DEF TreeOK
  <2>3. /\ Append(t.zones, zone) \in Seq(Zones)
        /\ Range(Append(t.zones, zone)) = Range(t.zones) \cup {zone}
        /\ IsInjective(Append(t.zones, zone))
    BY <1>0, <2>2, AppendFacts
  <2>4. /\ arr \in Arrays /\ arr.lastIndex = 0
        /\ IsInjective(arr.nodes) /\ arr.nodes # <<>> /\ Range(arr.nodes) = {name}
    BY <1>0 DEF Arrays, IsInjective, Range
  <2> HIDE DEF arr
  <2>5. /\ DOMAIN trees = DOMAIN t.tree \cup {zone}
        /\ \A z \in DOMAIN trees : trees[z] = IF z = zone THEN arr ELSE t.tree[z]
        /\ trees \in [DOMAIN trees -> Arrays]
    BY <2>4 DEF TreeOK
  <2> HIDE DEF trees
  <2>6. /\ IsRecord(u)
        /\ u.zones = Append(t.zones, zone)
        /\ u.zoneIndex = t.zoneIndex
        /\ u.numNodes = t.numNodes + 1
        /\ u.tree = trees
    BY <2>1, <2>3 DEF TreeOK, IsRecord
  <2>7. DOMAIN u.tree \subseteq Zones
    BY <1>0, <2>5, <2>6 DEF TreeOK
  <2>8. \A z \in DOMAIN u.tree : IsInjective(u.tree[z].nodes) /\ u.tree[z].nodes # <<>>
    BY <2>4, <2>5, <2>6 DEF TreeOK
  <2>9. TreeOK(u)
    BY <2>2, <2>3, <2>5, <2>6, <2>7, <2>8 DEF TreeOK
  <2>10. \A z : NamesOf(u, z) = IF z = zone THEN NamesOf(t, z) \cup {name} ELSE NamesOf(t, z)
    BY <1>3, <2>4, <2>5, <2>6 DEF NamesOf
  <2>11. Bounded(t) => Bounded(u)
    <3>1. Cardinality(Names) \in Nat
      BY NamesAssumption, FS_CardinalityType
    <3>2. QED
      BY <2>4, <2>5, <2>6, <3>1 DEF Bounded
  <2>12. QED
    BY <1>3, <2>6, <2>9, <2>10, <2>11 DEF u, name, zone
<1>4. QED
  BY <1>1, <1>2, <1>3

(* RemoveNode takes the name off the array of its zone, and the zone off   *)
(* the tree with its last name.                                            *)
LEMMA TreeRemoveOK ==
    ASSUME NEW t, TreeOK(t), NEW obj, IsObj(obj)
    PROVE  LET u == TreeRemoveNode(t, obj)
           IN  /\ TreeOK(u)
               /\ \A z : NamesOf(u, z) = IF z = obj.zone THEN NamesOf(t, z) \ {obj.name}
                                         ELSE NamesOf(t, z)
               /\ u.numNodes = IF obj.name \in NamesOf(t, obj.zone) THEN t.numNodes - 1
                               ELSE t.numNodes
               /\ Bounded(t) => Bounded(u)
<1> DEFINE u    == TreeRemoveNode(t, obj)
           name == obj.name
           zone == obj.zone
           old  == t.tree[zone].nodes
           left == RemoveFirst(old, name)
           cut  == [t EXCEPT !.tree[zone].nodes = left, !.numNodes = @ - 1]
<1>0. name \in Names /\ zone \in Zones
  BY DEF IsObj
<1> HIDE DEF name, zone
<1>1. CASE name \notin NamesOf(t, zone)
  <2>1. u = t
    BY <1>1 DEF TreeRemoveNode, TreeHas, name, zone
  <2>2. QED
    BY <1>1, <2>1 DEF name, zone
<1>2. CASE name \in NamesOf(t, zone)
  <2>1. u = IF left = <<>> THEN TreeRemoveZone(cut, zone) ELSE cut
    BY <1>2 DEF TreeRemoveNode, TreeHas, name, zone
  <2>2. /\ zone \in DOMAIN t.tree /\ t.tree[zone] \in Arrays
        /\ old \in Seq(Names) /\ IsInjective(old)
    BY <1>2 DEF TreeOK, NamesOf, Arrays
  <2> DEFINE arr == [t.tree[zone] EXCEPT !.nodes = left]
  <2>3. left \in Seq(Names) /\ IsInjective(left) /\ Range(left) = Range(old) \ {name}
    BY <2>2, RemoveFirstFacts, RemoveFirstInjective
  <2>a. cut = [t EXCEPT !.tree[zone].nodes = left, !.numNodes = @ - 1]
    OBVIOUS
  <2> HIDE DEF left, u, cut
  <2>4. /\ IsRecord(cut)
        /\ cut.zones = t.zones
        /\ cut.zoneIndex = t.zoneIndex
        /\ cut.numNodes = t.numNodes - 1
        /\ cut.tree = [t.tree EXCEPT ![zone] = arr]
    BY <2>a DEF TreeOK, IsRecord
  <2>5. arr \in Arrays /\ arr.nodes = left /\ arr.lastIndex = t.tree[zone].lastIndex
    BY <2>2, <2>3 DEF Arrays
  <2> HIDE DEF arr
  <2>6. /\ DOMAIN cut.tree = DOMAIN t.tree
        /\ \A z \in DOMAIN t.tree : cut.tree[z] = IF z = zone THEN arr ELSE t.tree[z]
    BY <2>2, <2>4, <2>5 DEF TreeOK
  <2>7. CASE left # <<>>
    <3>1. u = cut
      BY <2>1, <2>7
    <3>2. u.tree \in [DOMAIN u.tree -> Arrays]
      BY <2>2, <2>4, <2>5, <3>1 DEF TreeOK
    <3>3. TreeOK(u)
      BY <2>3, <2>4, <2>5, <2>6, <2>7, <3>1, <3>2 DEF TreeOK
    <3>4. \A z : NamesOf(u, z) = IF z = zone THEN NamesOf(t, z) \ {name} ELSE NamesOf(t, z)
      BY <2>2, <2>3, <2>5, <2>6, <3>1 DEF NamesOf, old
    <3>5. Bounded(t) => Bounded(u)
      BY <2>2, <2>4, <2>5, <2>6, <3>1 DEF Bounded
    <3>6. QED
      BY <1>2, <2>4, <3>1, <3>3, <3>4, <3>5 DEF u, name, zone
  <2>8. CASE left = <<>>
    <3> DEFINE zones == RemoveFirst(t.zones, zone)
    <3>1. t.zones \in Seq(Zones) /\ IsInjective(t.zones) /\ Range(t.zones) = DOMAIN t.tree
      BY DEF TreeOK
    <3>2. zones \in Seq(Zones) /\ IsInjective(zones) /\ Range(zones) = Range(t.zones) \ {zone}
      BY <3>1, RemoveFirstFacts, RemoveFirstInjective
    <3> HIDE DEF zones
    <3>3. u = [cut EXCEPT !.tree = Restrict(cut.tree, DOMAIN cut.tree \ {zone}), !.zones = zones]
      BY <2>1, <2>4, <2>8 DEF TreeRemoveZone, zones, IsRecord
    <3>4. /\ IsRecord(u)
          /\ u.zones = zones
          /\ u.zoneIndex = t.zoneIndex
          /\ u.numNodes = t.numNodes - 1
          /\ u.tree = Restrict(cut.tree, DOMAIN cut.tree \ {zone})
      BY <2>4, <3>3 DEF IsRecord
    <3>5. /\ DOMAIN u.tree = DOMAIN t.tree \ {zone}
          /\ \A z \in DOMAIN u.tree : u.tree[z] = t.tree[z]
          /\ u.tree \in [DOMAIN u.tree -> Arrays]
      <4>1. /\ DOMAIN u.tree = DOMAIN t.tree \ {zone}
            /\ \A z \in DOMAIN u.tree : u.tree[z] = cut.tree[z]
        BY <2>6, <3>4 DEF Restrict
      <4>2. \A z \in DOMAIN u.tree : u.tree[z] = t.tree[z] /\ u.tree[z] \in Arrays
        BY <2>6, <4>1 DEF TreeOK
      <4>3. u.tree = [z \in DOMAIN u.tree |-> u.tree[z]]
        BY <3>4 DEF Restrict
      <4>4. QED
        BY <4>1, <4>2, <4>3
    <3>6. TreeOK(u)
      <4>1. u.zones \in Seq(Zones) /\ u.zoneIndex \in Nat /\ u.numNodes \in Int
        BY <3>2, <3>4 DEF TreeOK
      <4>2. IsInjective(u.zones) /\ Range(u.zones) = DOMAIN u.tree
        BY <3>1, <3>2, <3>4, <3>5
      <4>3. \A z \in DOMAIN u.tree : IsInjective(u.tree[z].nodes) /\ u.tree[z].nodes # <<>>
        BY <3>5 DEF TreeOK
      <4>4. DOMAIN u.tree \subseteq Zones
        BY <3>5 DEF TreeOK
      <4>5. QED
        BY <3>4, <3>5, <4>1, <4>2, <4>3, <4>4 DEF TreeOK
    <3>7. Range(old) \ {name} = {}
      BY <2>3, <2>8 DEF Range
    <3>8. \A z : NamesOf(u, z) = IF z = zone THEN NamesOf(t, z) \ {name} ELSE NamesOf(t, z)
      BY <2>2, <3>5, <3>7 DEF NamesOf, old
    <3>9. Bounded(t) => Bounded(u)
      BY <3>4, <3>5 DEF Bounded
    <3>10. QED
      BY <1>2, <3>4, <3>6, <3>8, <3>9 DEF u, name, zone
  <2>9. QED
    BY <2>7, <2>8
<1>3. QED
  BY <1>1, <1>2

(* UpdateNode moves the name when its zone changed.                        *)
LEMMA TreeUpdateOK ==
    ASSUME NEW t, TreeOK(t), NEW old, IsObj(old), NEW new, IsObj(new), old.name = new.name,
           old.name \in NamesOf(t, old.zone),
           old.zone # new.zone => new.name \notin NamesOf(t, new.zone)
    PROVE  LET u == TreeUpdateNode(t, old, new)
           IN  /\ TreeOK(u)
               /\ \A z : NamesOf(u, z) = IF z = new.zone THEN NamesOf(t, z) \cup {new.name}
                                         ELSE IF z = old.zone THEN NamesOf(t, z) \ {old.name}
                                         ELSE NamesOf(t, z)
               /\ u.numNodes = t.numNodes
               /\ Bounded(t) => Bounded(u)
<1> DEFINE r == TreeRemoveNode(t, old)
           u == TreeUpdateNode(t, old, new)
<1>1. CASE old.zone = new.zone
  <2>1. u = t
    BY <1>1 DEF TreeUpdateNode
  <2> HIDE DEF u
  <2>2. QED
    BY <1>1, <2>1 DEF u
<1>2. CASE old.zone # new.zone
  <2>1. u = TreeAddNode(r, new)
    BY <1>2 DEF TreeUpdateNode
  <2>2. /\ TreeOK(r)
        /\ \A z : NamesOf(r, z) = IF z = old.zone THEN NamesOf(t, z) \ {old.name}
                                  ELSE NamesOf(t, z)
        /\ r.numNodes = t.numNodes - 1
        /\ Bounded(t) => Bounded(r)
    BY TreeRemoveOK
  <2> HIDE DEF r
  <2>3. /\ TreeOK(u)
        /\ \A z : NamesOf(u, z) = IF z = new.zone THEN NamesOf(r, z) \cup {new.name}
                                  ELSE NamesOf(r, z)
        /\ u.numNodes = IF new.name \in NamesOf(r, new.zone) THEN r.numNodes
                        ELSE r.numNodes + 1
        /\ Bounded(r) => Bounded(u)
    BY <2>1, <2>2, TreeAddOK
  <2> HIDE DEF u
  <2>4. new.name \notin NamesOf(r, new.zone)
    BY <1>2, <2>2
  <2>5. t.numNodes \in Int
    BY DEF TreeOK
  <2>6. u.numNodes = t.numNodes
    BY <2>2, <2>3, <2>4, <2>5
  <2>7. \A z : NamesOf(u, z) = IF z = new.zone THEN NamesOf(t, z) \cup {new.name}
                               ELSE IF z = old.zone THEN NamesOf(t, z) \ {old.name}
                               ELSE NamesOf(t, z)
    BY <1>2, <2>2, <2>3
  <2>8. QED
    BY <2>2, <2>3, <2>6, <2>7 DEF u
<1>3. QED
  BY <1>1, <1>2

(* There are k numbers from 1 to k.                                        *)
LEMMA IntervalSize ==
    ASSUME NEW k \in Nat
    PROVE  Cardinality(1..k) = k
<1>1. 1 \in Int /\ k \in Int
  OBVIOUS
<1>2. Cardinality(1..k) = IF 1 > k THEN 0 ELSE k - 1 + 1
  BY <1>1, FS_Interval, Zenon
<1>3. QED
  BY <1>2

(* A list without repetitions is no longer than the set of its elements.   *)
LEMMA InjectiveLength ==
    ASSUME NEW S, IsFiniteSet(S), NEW list \in Seq(S), IsInjective(list)
    PROVE  Len(list) <= Cardinality(S)
<1>1. list \in Injection(1..Len(list), S)
  BY DEF Injection
<1>2. Cardinality(1..Len(list)) = Len(list)
  <2>1. Len(list) \in Nat
    OBVIOUS
  <2>2. QED
    BY <2>1, IntervalSize
<1>3. QED
  BY <1>1, <1>2, FS_Injection

(* next() changes cursors only, and returns a name of the tree.            *)
SameNodes(t, u) ==
    /\ DOMAIN u.tree = DOMAIN t.tree
    /\ \A z \in DOMAIN t.tree : u.tree[z].nodes = t.tree[z].nodes
    /\ u.zones = t.zones
    /\ u.numNodes = t.numNodes

InTree(t, name) == \E z \in DOMAIN t.tree : name \in Range(t.tree[z].nodes)

LEMMA SameNodesTransitive ==
    ASSUME NEW t, NEW u, NEW v, SameNodes(t, u), SameNodes(u, v)
    PROVE  SameNodes(t, v)
  BY DEF SameNodes

LEMMA SameNames ==
    ASSUME NEW t, NEW u, SameNodes(t, u)
    PROVE  /\ \A z : NamesOf(u, z) = NamesOf(t, z)
           /\ \A name : InTree(u, name) <=> InTree(t, name)
  BY DEF SameNodes, NamesOf, InTree

LEMMA TakeFromOK ==
    ASSUME NEW t, TreeOK(t), NEW i \in 0..Len(t.zones)-1, ~Exhausted(t.tree[t.zones[i+1]])
    PROVE  LET r == TakeFrom(t, i)
           IN  /\ TreeOK(r.tree) /\ SameNodes(t, r.tree) /\ InTree(t, r.name)
               /\ Bounded(t) => Bounded(r.tree)
<1> DEFINE zone  == t.zones[i+1]
           array == t.tree[zone]
           last  == array.lastIndex
           arr   == [array EXCEPT !.lastIndex = @ + 1]
           u     == [t EXCEPT !.zoneIndex = i + 1, !.tree[zone].lastIndex = @ + 1]
<1>1. i + 1 \in DOMAIN t.zones /\ i + 1 \in Nat
  BY DEF TreeOK
<1>2. zone \in DOMAIN t.tree
  BY <1>1 DEF TreeOK, Range
<1>3. array \in Arrays /\ array.nodes # <<>>
  BY <1>2 DEF TreeOK
<1>4. last \in Nat /\ last < Len(array.nodes) /\ array.nodes \in Seq(Names)
  BY <1>3 DEF Exhausted, Arrays
<1>5. TakeFrom(t, i) = [name |-> array.nodes[last + 1], tree |-> u]
  BY <1>3 DEF TakeFrom
<1>6. arr \in Arrays /\ arr.nodes = array.nodes /\ arr.lastIndex = last + 1
  BY <1>3, <1>4 DEF Arrays
<1>7. u = [t EXCEPT !.zoneIndex = i + 1, !.tree[zone].lastIndex = @ + 1]
  OBVIOUS
<1> HIDE DEF u
<1>8. /\ IsRecord(u)
      /\ u.zones = t.zones
      /\ u.zoneIndex = i + 1
      /\ u.numNodes = t.numNodes
      /\ u.tree = [t.tree EXCEPT ![zone] = arr]
  BY <1>7 DEF TreeOK, IsRecord
<1> HIDE DEF arr, zone
<1>9. /\ DOMAIN u.tree = DOMAIN t.tree
      /\ \A z \in DOMAIN t.tree : u.tree[z] = IF z = zone THEN arr ELSE t.tree[z]
      /\ u.tree \in [DOMAIN u.tree -> Arrays]
  BY <1>2, <1>6, <1>8 DEF TreeOK
<1>10. SameNodes(t, u)
  BY <1>6, <1>8, <1>9 DEF SameNodes
<1>11. TreeOK(u)
  BY <1>1, <1>8, <1>9, <1>10 DEF TreeOK, SameNodes
<1>12. InTree(t, array.nodes[last + 1])
  BY <1>2, <1>4 DEF InTree, Range
<1>13. Bounded(t) => Bounded(u)
  <2>1. Len(t.zones) <= Cardinality(Zones)
    BY NamesAssumption, InjectiveLength DEF TreeOK
  <2>2. Len(array.nodes) <= Cardinality(Names)
    BY <1>2, <1>4, NamesAssumption, InjectiveLength DEF TreeOK
  <2>3. Cardinality(Zones) \in Nat /\ Cardinality(Names) \in Nat
    BY NamesAssumption, FS_CardinalityType
  <2>4. last + 1 <= Cardinality(Names)
    BY <1>4, <2>2, <2>3
  <2>5. u.zoneIndex <= Cardinality(Zones)
    BY <1>8, <2>1, <2>3 DEF TreeOK
  <2>6. QED
    BY <1>6, <1>9, <2>4, <2>5 DEF Bounded
<1>14. QED
  BY <1>5, <1>10, <1>11, <1>12, <1>13

LEMMA ResetOK ==
    ASSUME NEW t, TreeOK(t)
    PROVE  LET u == ResetExhausted(t)
           IN  /\ TreeOK(u) /\ SameNodes(t, u)
               /\ \A z \in DOMAIN t.tree : ~Exhausted(u.tree[z])
               /\ Bounded(u)
<1> DEFINE u     == ResetExhausted(t)
           trees == [z \in DOMAIN t.tree |-> [t.tree[z] EXCEPT !.lastIndex = 0]]
<1>1. u = [t EXCEPT !.tree = trees, !.zoneIndex = 0]
  BY DEF ResetExhausted
<1> HIDE DEF u
<1>2. /\ DOMAIN trees = DOMAIN t.tree
      /\ trees \in [DOMAIN trees -> Arrays]
      /\ \A z \in DOMAIN t.tree : trees[z].nodes = t.tree[z].nodes /\ trees[z].lastIndex = 0
  <2>1. ASSUME NEW z \in DOMAIN t.tree
        PROVE  /\ [t.tree[z] EXCEPT !.lastIndex = 0] \in Arrays
               /\ [t.tree[z] EXCEPT !.lastIndex = 0].nodes = t.tree[z].nodes
               /\ [t.tree[z] EXCEPT !.lastIndex = 0].lastIndex = 0
    BY DEF TreeOK, Arrays
  <2>2. QED
    BY <2>1
<1> HIDE DEF trees
<1>3. /\ IsRecord(u)
      /\ u.zones = t.zones
      /\ u.zoneIndex = 0
      /\ u.numNodes = t.numNodes
      /\ u.tree = trees
  BY <1>1 DEF TreeOK, IsRecord
<1>4. SameNodes(t, u)
  BY <1>2, <1>3 DEF SameNodes
<1>5. TreeOK(u)
  BY <1>2, <1>3, <1>4 DEF TreeOK, SameNodes
<1>6. ASSUME NEW z \in DOMAIN t.tree PROVE ~Exhausted(u.tree[z])
  <2>1. u.tree[z].nodes = t.tree[z].nodes /\ u.tree[z].lastIndex = 0
    BY <1>2, <1>3
  <2>2. t.tree[z].nodes \in Seq(Names) /\ t.tree[z].nodes # <<>>
    BY DEF TreeOK, Arrays
  <2>3. QED
    BY <2>1, <2>2 DEF Exhausted
<1>7. Bounded(u)
  <2>1. Cardinality(Zones) \in Nat /\ Cardinality(Names) \in Nat
    BY NamesAssumption, FS_CardinalityType
  <2>2. QED
    BY <1>2, <1>3, <2>1 DEF Bounded
<1>8. QED
  BY <1>4, <1>5, <1>6, <1>7 DEF u

LEMMA TreeNextOK ==
    ASSUME NEW t, TreeOK(t)
    PROVE  LET r == TreeNext(t)
           IN  /\ TreeOK(r.tree) /\ SameNodes(t, r.tree)
               /\ IF t.zones = <<>> THEN r.name = NoNode ELSE InTree(t, r.name)
               /\ Bounded(t) => Bounded(r.tree)
<1> DEFINE n      == Len(t.zones)
           start  == IF t.zoneIndex >= n THEN 0 ELSE t.zoneIndex
           pos(k) == (start + k) % n
           ready  == {k \in 0..n-1 : ~Exhausted(t.tree[t.zones[pos(k) + 1]])}
<1>0. t.zones \in Seq(Zones) /\ n \in Nat /\ t.zoneIndex \in Nat
  BY DEF TreeOK
<1>1. CASE n = 0
  <2>1. TreeNext(t) = [name |-> NoNode, tree |-> t]
    BY <1>1 DEF TreeNext
  <2>2. t.zones = <<>> /\ SameNodes(t, t)
    BY <1>0, <1>1 DEF SameNodes
  <2>3. QED
    BY <2>1, <2>2
<1>2. CASE n # 0 /\ ready # {}
  <2>1. TreeNext(t) = TakeFrom(t, pos(Min(ready)))
    BY <1>2 DEF TreeNext
  <2>2. PICK m \in ready : \A k \in ready : m <= k
    <3>1. ready \subseteq Nat
      BY <1>0
    <3>2. QED
      BY <1>2, <3>1, NatHasLeast
  <2>3. Min(ready) \in ready
    BY <2>2 DEF Min
  <2> DEFINE k == Min(ready)
  <2> HIDE DEF k
  <2>4. k \in 0..n-1 /\ ~Exhausted(t.tree[t.zones[pos(k) + 1]])
    BY <2>3 DEF k
  <2>5. start \in Nat
    BY <1>0
  <2> HIDE DEF n, start
  <2>6. pos(k) \in 0..n-1
    BY <1>0, <1>2, <2>4, <2>5
  <2> HIDE DEF pos
  <2>7. LET r == TakeFrom(t, pos(k))
        IN  /\ TreeOK(r.tree) /\ SameNodes(t, r.tree) /\ InTree(t, r.name)
            /\ Bounded(t) => Bounded(r.tree)
    BY <2>4, <2>6, TakeFromOK DEF n
  <2>8. t.zones # <<>>
    BY <1>2 DEF n
  <2>9. QED
    BY <2>1, <2>7, <2>8 DEF k
<1>3. CASE n # 0 /\ ready = {}
  <2> DEFINE u == ResetExhausted(t)
  <2>1. TreeNext(t) = TakeFrom(u, 0)
    BY <1>3 DEF TreeNext
  <2>2. /\ TreeOK(u) /\ SameNodes(t, u)
        /\ \A z \in DOMAIN t.tree : ~Exhausted(u.tree[z])
        /\ Bounded(u)
    BY ResetOK
  <2> HIDE DEF u
  <2>0. t.zones # <<>>
    BY <1>3
  <2>3. u.zones = t.zones /\ 0 \in 0..Len(u.zones)-1 /\ u.zones[0+1] \in DOMAIN t.tree
    BY <1>0, <1>3, <2>2 DEF SameNodes, TreeOK, Range
  <2>4. LET r == TakeFrom(u, 0)
        IN  /\ TreeOK(r.tree) /\ SameNodes(u, r.tree) /\ InTree(u, r.name)
            /\ Bounded(u) => Bounded(r.tree)
    BY <2>2, <2>3, TakeFromOK
  <2>5. QED
    BY <2>0, <2>1, <2>2, <2>4, SameNodesTransitive, SameNames
<1>4. QED
  BY <1>1, <1>2, <1>3

-----------------------------------------------------------------------------
(* The calls TreeTake makes, as a function: the answers to the first i.    *)
IsCalls(c, t, k) ==
    c = [i \in 0..k |->
           IF i = 0 THEN [names |-> <<>>, tree |-> t]
           ELSE LET r == TreeNext(c[i-1].tree)
                IN  [names |-> Append(c[i-1].names, r.name), tree |-> r.tree]]

(* One more call extends the function.                                     *)
LEMMA CallsExist ==
    ASSUME NEW t, NEW k \in Nat
    PROVE  \E c : IsCalls(c, t, k)
<1> DEFINE T == {j \in 0..k : \E c : IsCalls(c, t, j)}
<1>1. 0 \in T
  <2> DEFINE c == [i \in 0..0 |-> [names |-> <<>>, tree |-> t]]
  <2>1. IsCalls(c, t, 0)
    <3>1. \A i \in 0..0 : i = 0
      OBVIOUS
    <3>2. QED
      BY <3>1 DEF IsCalls
  <2>2. QED
    BY <2>1
<1>2. ASSUME NEW j \in 0..k, j < k, j \in T PROVE j + 1 \in T
  <2>1. PICK c : IsCalls(c, t, j)
    BY <1>2
  <2> DEFINE r == TreeNext(c[j].tree)
             d == [i \in 0..j+1 |-> IF i <= j THEN c[i]
                                    ELSE [names |-> Append(c[j].names, r.name), tree |-> r.tree]]
  <2>2. \A i \in 0..j : d[i] = c[i]
    OBVIOUS
  <2>3. ASSUME NEW i \in 0..j+1
        PROVE  d[i] = IF i = 0 THEN [names |-> <<>>, tree |-> t]
                      ELSE LET q == TreeNext(d[i-1].tree)
                           IN  [names |-> Append(d[i-1].names, q.name), tree |-> q.tree]
    <3>1. CASE i = 0
      <4>1. d[0] = c[0] /\ 0 \in 0..j
        BY <2>2
      <4>2. c[0] = [names |-> <<>>, tree |-> t]
        BY <2>1, <4>1 DEF IsCalls
      <4>3. QED
        BY <3>1, <4>1, <4>2
    <3>2. CASE i # 0 /\ i <= j
      <4>1. i \in 0..j /\ i-1 \in 0..j
        BY <3>2
      <4>2. d[i] = c[i] /\ d[i-1] = c[i-1]
        BY <2>2, <4>1
      <4>3. c[i] = LET q == TreeNext(c[i-1].tree)
                   IN  [names |-> Append(c[i-1].names, q.name), tree |-> q.tree]
        BY <2>1, <3>2, <4>1 DEF IsCalls
      <4> HIDE DEF d
      <4>4. QED
        BY <3>2, <4>2, <4>3
    <3>3. CASE i = j + 1
      <4>1. i # 0 /\ i - 1 = j /\ ~(i <= j) /\ j \in 0..j
        BY <3>3
      <4>2. d[i-1] = c[j]
        BY <2>2, <4>1
      <4>3. d[i] = [names |-> Append(c[j].names, r.name), tree |-> r.tree]
        BY <4>1
      <4> HIDE DEF d
      <4>4. QED
        BY <4>1, <4>2, <4>3
    <3>4. i = 0 \/ (i # 0 /\ i <= j) \/ i = j + 1
      BY <1>2
    <3>5. QED
      BY <3>1, <3>2, <3>3, <3>4, Zenon
  <2>4. d = [i \in 0..j+1 |-> d[i]]
    OBVIOUS
  <2> HIDE DEF d
  <2>5. d = [i \in 0..j+1 |->
               IF i = 0 THEN [names |-> <<>>, tree |-> t]
               ELSE LET q == TreeNext(d[i-1].tree)
                    IN  [names |-> Append(d[i-1].names, q.name), tree |-> q.tree]]
    BY <2>3, <2>4, Zenon
  <2>6. IsCalls(d, t, j + 1)
    BY <2>5 DEF IsCalls
  <2>7. QED
    BY <1>2, <2>6
<1> HIDE DEF T
<1>3. 0..k \subseteq T
  BY <1>1, <1>2, UpTo
<1>4. QED
  BY <1>3 DEF T

LEMMA TakeIsCalls ==
    ASSUME NEW t, NEW k \in Nat
    PROVE  \E c : IsCalls(c, t, k) /\ TreeTake(t, k) = c[k]
<1> DEFINE c == CHOOSE call : IsCalls(call, t, k)
<1>1. \E call : IsCalls(call, t, k)
  BY CallsExist
<1>2. IsCalls(c, t, k)
  BY <1>1, Zenon
<1>3. TreeTake(t, k) = c[k]
  BY Zenon DEF TreeTake, IsCalls
<1>4. QED
  BY <1>2, <1>3, Zenon

LEMMA NextCall ==
    ASSUME NEW t, NEW k \in Nat, NEW c, IsCalls(c, t, k), NEW i \in 0..k, i < k
    PROVE  c[i+1] = LET r == TreeNext(c[i].tree)
                    IN  [names |-> Append(c[i].names, r.name), tree |-> r.tree]
<1> DEFINE r == TreeNext(c[i].tree)
           j == i + 1
<1>1. j \in 0..k /\ j # 0 /\ j - 1 = i
  OBVIOUS
<1> HIDE DEF j
<1>2. c[j] = LET q == TreeNext(c[j-1].tree)
             IN  [names |-> Append(c[j-1].names, q.name), tree |-> q.tree]
  BY <1>1 DEF IsCalls
<1>3. c[j] = [names |-> Append(c[i].names, r.name), tree |-> r.tree]
  BY <1>1, <1>2
<1>4. QED
  BY <1>3 DEF j

(* Taking k names changes cursors only, and every name is one of the tree. *)
LEMMA TreeTakeOK ==
    ASSUME NEW t, TreeOK(t), NEW k \in Nat
    PROVE  LET r == TreeTake(t, k)
           IN  /\ TreeOK(r.tree) /\ SameNodes(t, r.tree)
               /\ r.names \in Seq(AllNames) /\ Len(r.names) = k
               /\ t.zones # <<>> => \A i \in 1..k : InTree(t, r.names[i])
               /\ Bounded(t) => Bounded(r.tree)
<1>1. PICK c : IsCalls(c, t, k) /\ TreeTake(t, k) = c[k]
  BY TakeIsCalls
<1> DEFINE Good(i) == /\ TreeOK(c[i].tree) /\ SameNodes(t, c[i].tree)
                      /\ c[i].names \in Seq(AllNames) /\ Len(c[i].names) = i
                      /\ t.zones # <<>> => \A j \in 1..i : InTree(t, c[i].names[j])
                      /\ Bounded(t) => Bounded(c[i].tree)
           T == {i \in 0..k : Good(i)}
<1>2. 0 \in T
  <2>1. c[0] = [names |-> <<>>, tree |-> t]
    BY <1>1 DEF IsCalls
  <2>2. SameNodes(t, t)
    BY DEF SameNodes
  <2>3. Good(0)
    BY <2>1, <2>2
  <2>4. QED
    BY <2>3
<1>3. ASSUME NEW i \in 0..k, i < k, i \in T PROVE i + 1 \in T
  <2> DEFINE r == TreeNext(c[i].tree)
  <2>1. Good(i)
    BY <1>3
  <2>2. c[i+1] = [names |-> Append(c[i].names, r.name), tree |-> r.tree]
    BY <1>1, <1>3, NextCall
  <2>3. /\ TreeOK(r.tree) /\ SameNodes(c[i].tree, r.tree)
        /\ IF c[i].tree.zones = <<>> THEN r.name = NoNode ELSE InTree(c[i].tree, r.name)
        /\ Bounded(t) => Bounded(r.tree)
    BY <2>1, TreeNextOK
  <2>4. SameNodes(t, r.tree) /\ c[i].tree.zones = t.zones
    BY <2>1, <2>3, SameNodesTransitive DEF SameNodes
  <2>5. /\ c[i+1].names \in Seq(AllNames) /\ Len(c[i+1].names) = i + 1
        /\ t.zones # <<>> => \A j \in 1..i+1 : InTree(t, c[i+1].names[j])
    <3>1. IF t.zones = <<>> THEN r.name = NoNode ELSE InTree(t, r.name)
      BY <2>1, <2>3, <2>4, SameNames
    <3>2. r.name \in AllNames
      BY <3>1 DEF InTree, TreeOK, Arrays, Range, AllNames
    <3> DEFINE names == c[i].names
               next  == Append(names, r.name)
    <3>3. /\ names \in Seq(AllNames) /\ Len(names) = i
          /\ t.zones # <<>> => \A j \in 1..i : InTree(t, names[j])
      BY <2>1
    <3>4. c[i+1].names = next
      BY <2>2
    <3> HIDE DEF names, r
    <3>5. /\ next \in Seq(AllNames) /\ Len(next) = Len(names) + 1
          /\ \A j \in 1..Len(names) : next[j] = names[j]
          /\ next[Len(names) + 1] = r.name
      BY <3>2, <3>3, AppendFacts
    <3> HIDE DEF next
    <3>6. ASSUME t.zones # <<>>, NEW j \in 1..i+1 PROVE InTree(t, next[j])
      <4>1. CASE j \in 1..i
        BY <3>3, <3>5, <3>6, <4>1
      <4>2. CASE j = i + 1
        BY <3>1, <3>3, <3>5, <3>6, <4>2
      <4>3. QED
        BY <4>1, <4>2
    <3>7. QED
      BY <3>3, <3>4, <3>5, <3>6
  <2>6. Good(i+1)
    BY <2>2, <2>3, <2>4, <2>5
  <2>7. i + 1 \in 0..k
    BY <1>3
  <2> HIDE DEF Good
  <2>8. QED
    BY <2>6, <2>7
<1> HIDE DEF T
<1>4. 0..k \subseteq T
  BY <1>2, <1>3, UpTo
<1>5. k \in T
  BY <1>4
<1>6. Good(k)
  BY <1>5 DEF T
<1>7. QED
  BY <1>1, <1>6

-----------------------------------------------------------------------------
(* numNodes counts the places of the arrays: never negative, so UpdateNode *)
(* InfoSnapshotList asks next() for that many names, whatever the callers  *)
(* made of the tree.                                                       *)
Places(t) == {p \in Zones \X Names : p[2] \in NamesOf(t, p[1])}

TreeCounted(t) == IsFiniteSet(Places(t)) /\ t.numNodes = Cardinality(Places(t))

LEMMA TreeAddCounted ==
    ASSUME NEW t, TreeOK(t), TreeCounted(t), NEW obj, IsObj(obj)
    PROVE  TreeCounted(TreeAddNode(t, obj))
<1> DEFINE u == TreeAddNode(t, obj)
           p == <<obj.zone, obj.name>>
<1>1. /\ \A z : NamesOf(u, z) = IF z = obj.zone THEN NamesOf(t, z) \cup {obj.name}
                                ELSE NamesOf(t, z)
      /\ u.numNodes = IF obj.name \in NamesOf(t, obj.zone) THEN t.numNodes ELSE t.numNodes + 1
  BY TreeAddOK
<1> HIDE DEF u
<1>2. p \in Zones \X Names
  BY DEF IsObj
<1>3. p \in Places(t) <=> obj.name \in NamesOf(t, obj.zone)
  BY <1>2 DEF Places
<1>4. Places(u) = Places(t) \cup {p}
  BY <1>1, <1>2 DEF Places
<1>5. /\ IsFiniteSet(Places(u))
      /\ Cardinality(Places(u)) = IF p \in Places(t) THEN Cardinality(Places(t))
                                  ELSE Cardinality(Places(t)) + 1
  BY <1>4, FS_AddElement DEF TreeCounted
<1>6. QED
  BY <1>1, <1>3, <1>5 DEF TreeCounted, u

LEMMA TreeRemoveCounted ==
    ASSUME NEW t, TreeOK(t), TreeCounted(t), NEW obj, IsObj(obj)
    PROVE  TreeCounted(TreeRemoveNode(t, obj))
<1> DEFINE u == TreeRemoveNode(t, obj)
           p == <<obj.zone, obj.name>>
<1>1. /\ \A z : NamesOf(u, z) = IF z = obj.zone THEN NamesOf(t, z) \ {obj.name}
                                ELSE NamesOf(t, z)
      /\ u.numNodes = IF obj.name \in NamesOf(t, obj.zone) THEN t.numNodes - 1 ELSE t.numNodes
  BY TreeRemoveOK
<1> HIDE DEF u
<1>2. p \in Zones \X Names
  BY DEF IsObj
<1>3. p \in Places(t) <=> obj.name \in NamesOf(t, obj.zone)
  BY <1>2 DEF Places
<1>4. Places(u) = Places(t) \ {p}
  BY <1>1, <1>2 DEF Places
<1>5. /\ IsFiniteSet(Places(u))
      /\ Cardinality(Places(u)) = IF p \in Places(t) THEN Cardinality(Places(t)) - 1
                                  ELSE Cardinality(Places(t))
  BY <1>4, FS_RemoveElement DEF TreeCounted
<1>6. QED
  BY <1>1, <1>3, <1>5 DEF TreeCounted, u

LEMMA TreeUpdateCounted ==
    ASSUME NEW t, TreeOK(t), TreeCounted(t), NEW old, IsObj(old), NEW new, IsObj(new)
    PROVE  TreeOK(TreeUpdateNode(t, old, new)) /\ TreeCounted(TreeUpdateNode(t, old, new))
<1>1. TreeOK(TreeRemoveNode(t, old)) /\ TreeCounted(TreeRemoveNode(t, old))
  BY TreeRemoveOK, TreeRemoveCounted
<1>2. /\ TreeOK(TreeAddNode(TreeRemoveNode(t, old), new))
      /\ TreeCounted(TreeAddNode(TreeRemoveNode(t, old), new))
  BY <1>1, TreeAddOK, TreeAddCounted
<1>3. QED
  BY <1>2 DEF TreeUpdateNode

LEMMA SameNodesCounted ==
    ASSUME NEW t, TreeCounted(t), NEW u, SameNodes(t, u)
    PROVE  TreeCounted(u)
<1>1. Places(u) = Places(t)
  BY SameNames DEF Places
<1>2. QED
  BY <1>1 DEF TreeCounted, SameNodes

(* The names an update of all lists starts from are names of the tree.     *)
LEMMA WalkOK ==
    ASSUME NEW t, TreeOK(t), TreeCounted(t)
    PROVE  LET r == TreeTake(t, t.numNodes)
           IN  /\ TreeOK(r.tree) /\ SameNodes(t, r.tree)
               /\ r.names \in Seq(AllNames) /\ Len(r.names) = t.numNodes
               /\ \A i \in 1..Len(r.names) : InTree(t, r.names[i])
<1>1. t.numNodes \in Nat
  BY FS_CardinalityType DEF TreeCounted
<1>2. t.zones = <<>> => t.numNodes = 0
  <2>1. t.zones = <<>> => Places(t) = {}
    BY DEF TreeOK, Range, Places, NamesOf
  <2>2. QED
    BY <2>1, FS_EmptySet DEF TreeCounted
<1> DEFINE r == TreeTake(t, t.numNodes)
<1>3. /\ TreeOK(r.tree) /\ SameNodes(t, r.tree)
      /\ r.names \in Seq(AllNames) /\ Len(r.names) = t.numNodes
      /\ t.zones # <<>> => \A i \in 1..t.numNodes : InTree(t, r.names[i])
  BY <1>1, TreeTakeOK
<1> HIDE DEF r
<1>4. \A i \in 1..Len(r.names) : InTree(t, r.names[i])
  BY <1>1, <1>2, <1>3
<1>5. QED
  BY <1>3, <1>4 DEF r

-----------------------------------------------------------------------------
(* The lists of the snapshot are kept from the names of the walk.          *)
KeptAt(c, list, S, i) ==
    IF i = 0 THEN <<>> ELSE IF list[i] \in S THEN Append(c[i-1], list[i]) ELSE c[i-1]

IsKept(c, list, S, k) == c = [i \in 0..k |-> KeptAt(c, list, S, i)]

LEMMA KeptExists ==
    ASSUME NEW list, NEW S, NEW k \in Nat
    PROVE  \E c : IsKept(c, list, S, k)
<1> DEFINE T == {j \in 0..k : \E c : IsKept(c, list, S, j)}
<1>1. 0 \in T
  <2> DEFINE c == [i \in 0..0 |-> <<>>]
  <2>1. IsKept(c, list, S, 0)
    <3>1. \A i \in 0..0 : KeptAt(c, list, S, i) = <<>>
      BY DEF KeptAt
    <3>2. QED
      BY <3>1, Zenon DEF IsKept
  <2>2. QED
    BY <2>1
<1>2. ASSUME NEW j \in 0..k, j < k, j \in T PROVE j + 1 \in T
  <2>1. PICK c : IsKept(c, list, S, j)
    BY <1>2
  <2> DEFINE one == IF list[j+1] \in S THEN Append(c[j], list[j+1]) ELSE c[j]
             d   == [i \in 0..j+1 |-> IF i <= j THEN c[i] ELSE one]
  <2>2. \A i \in 0..j : d[i] = c[i] /\ c[i] = KeptAt(c, list, S, i)
    BY <2>1 DEF IsKept
  <2>3. d[j+1] = one
    OBVIOUS
  <2>4. d = [i \in 0..j+1 |-> d[i]]
    OBVIOUS
  <2> HIDE DEF d
  <2>5. ASSUME NEW i \in 0..j+1 PROVE d[i] = KeptAt(d, list, S, i)
    <3>1. CASE i = 0
      BY <2>2, <3>1 DEF KeptAt
    <3>2. CASE i # 0 /\ i <= j
      <4>1. i \in 0..j /\ i-1 \in 0..j
        BY <3>2
      <4>2. QED
        BY <2>2, <3>2, <4>1 DEF KeptAt
    <3>3. CASE i = j + 1
      <4>1. i # 0 /\ i - 1 = j /\ j \in 0..j
        BY <3>3
      <4>2. d[i-1] = c[j]
        BY <2>2, <4>1
      <4>3. QED
        BY <2>3, <3>3, <4>1, <4>2 DEF KeptAt
    <3>4. i = 0 \/ (i # 0 /\ i <= j) \/ i = j + 1
      BY <1>2
    <3>5. QED
      BY <3>1, <3>2, <3>3, <3>4, Zenon
  <2>6. d = [i \in 0..j+1 |-> KeptAt(d, list, S, i)]
    BY <2>4, <2>5, Zenon
  <2>7. IsKept(d, list, S, j + 1)
    BY <2>6 DEF IsKept
  <2>8. QED
    BY <1>2, <2>7
<1> HIDE DEF T
<1>3. 0..k \subseteq T
  BY <1>1, <1>2, UpTo
<1>4. QED
  BY <1>3 DEF T

LEMMA KeptIs ==
    ASSUME NEW A, NEW list \in Seq(A), NEW S
    PROVE  \E c : IsKept(c, list, S, Len(list)) /\ Kept(list, S) = c[Len(list)]
<1> DEFINE k == Len(list)
           c == CHOOSE kept : IsKept(kept, list, S, k)
<1>0. k \in Nat
  OBVIOUS
<1> HIDE DEF k
<1>1. \E kept : IsKept(kept, list, S, k)
  BY <1>0, KeptExists
<1>2. IsKept(c, list, S, k)
  BY <1>1, Zenon
<1>3. Kept(list, S) = c[k]
  BY Zenon DEF Kept, IsKept, KeptAt, k
<1>4. QED
  BY <1>2, <1>3, Zenon DEF k

(* The steps of such a function, and that a longer list continues it.      *)
LEMMA KeptStep ==
    ASSUME NEW A, NEW list \in Seq(A), NEW S, NEW k \in Nat, k <= Len(list),
           NEW c, IsKept(c, list, S, k)
    PROVE  /\ c[0] = <<>>
           /\ \A i \in 1..k : c[i] = IF list[i] \in S THEN Append(c[i-1], list[i]) ELSE c[i-1]
           /\ \A i \in 0..k : c[i] \in Seq(A \cap S) /\ Len(c[i]) <= i
<1>0. \A i \in 0..k : c[i] = KeptAt(c, list, S, i)
  BY DEF IsKept
<1>1. c[0] = <<>>
  BY <1>0 DEF KeptAt
<1>2. \A i \in 1..k : c[i] = IF list[i] \in S THEN Append(c[i-1], list[i]) ELSE c[i-1]
  BY <1>0 DEF KeptAt
<1> DEFINE T == {i \in 0..k : c[i] \in Seq(A \cap S) /\ Len(c[i]) <= i}
<1>3. 0 \in T
  <2>1. c[0] \in Seq(A \cap S) /\ Len(c[0]) <= 0
    BY <1>1
  <2>2. 0 \in 0..k
    OBVIOUS
  <2>3. QED
    BY <2>1, <2>2, Zenon
<1>4. ASSUME NEW i \in 0..k, i < k, i \in T PROVE i + 1 \in T
  <2>1. i + 1 \in 1..k /\ (i + 1) - 1 = i /\ list[i+1] \in A
    BY <1>4
  <2>2. c[i+1] = IF list[i+1] \in S THEN Append(c[i], list[i+1]) ELSE c[i]
    BY <1>2, <2>1
  <2>3. c[i] \in Seq(A \cap S) /\ Len(c[i]) <= i
    BY <1>4
  <2> HIDE DEF T
  <2>4. c[i+1] \in Seq(A \cap S) /\ Len(c[i+1]) <= i + 1
    <3>1. CASE list[i+1] \in S
      <4>1. list[i+1] \in A \cap S
        BY <2>1, <3>1
      <4>2. /\ Append(c[i], list[i+1]) \in Seq(A \cap S)
            /\ Len(Append(c[i], list[i+1])) = Len(c[i]) + 1
        BY <2>3, <4>1, AppendFacts
      <4>3. QED
        BY <2>2, <2>3, <3>1, <4>2
    <3>2. CASE list[i+1] \notin S
      BY <2>2, <2>3, <3>2
    <3>3. QED
      BY <3>1, <3>2
  <2>5. QED
    BY <2>1, <2>4 DEF T
<1> HIDE DEF T
<1>5. 0..k \subseteq T
  BY <1>3, <1>4, UpTo
<1>6. QED
  BY <1>1, <1>2, <1>5 DEF T

LEMMA KeptType ==
    ASSUME NEW A, NEW list \in Seq(A), NEW S
    PROVE  Kept(list, S) \in Seq(A \cap S)
<1>1. PICK c : IsKept(c, list, S, Len(list)) /\ Kept(list, S) = c[Len(list)]
  BY KeptIs
<1>2. Len(list) \in Nat
  OBVIOUS
<1>3. \A i \in 0..Len(list) : c[i] \in Seq(A \cap S) /\ Len(c[i]) <= i
  <2> DEFINE k == Len(list)
  <2>1. k \in Nat /\ k <= Len(list) /\ IsKept(c, list, S, k)
    BY <1>1, <1>2
  <2> HIDE DEF k
  <2>2. \A i \in 0..k : c[i] \in Seq(A \cap S) /\ Len(c[i]) <= i
    BY <2>1, KeptStep
  <2>3. QED
    BY <2>2 DEF k
<1>4. QED
  BY <1>1, <1>2, <1>3

(* Nothing is lost when all of the list is in the set.                     *)
LEMMA KeptAll ==
    ASSUME NEW A, NEW list \in Seq(A), NEW S, \A i \in 1..Len(list) : list[i] \in S
    PROVE  Len(Kept(list, S)) = Len(list)
<1>1. PICK c : IsKept(c, list, S, Len(list)) /\ Kept(list, S) = c[Len(list)]
  BY KeptIs
<1> DEFINE k == Len(list)
           T == {i \in 0..k : Len(c[i]) = i}
<1>2. k \in Nat /\ k <= Len(list) /\ IsKept(c, list, S, k) /\ Kept(list, S) = c[k]
  BY <1>1
<1>a. \A i \in 1..k : list[i] \in S /\ list[i] \in A
  OBVIOUS
<1> HIDE DEF k
<1>3. /\ c[0] = <<>>
      /\ \A i \in 1..k : c[i] = IF list[i] \in S THEN Append(c[i-1], list[i]) ELSE c[i-1]
      /\ \A i \in 0..k : c[i] \in Seq(A \cap S) /\ Len(c[i]) <= i
  BY <1>2, KeptStep
<1>4. 0 \in T
  BY <1>2, <1>3
<1>5. ASSUME NEW i \in 0..k, i < k, i \in T PROVE i + 1 \in T
  <2>1. i + 1 \in 1..k /\ (i + 1) - 1 = i /\ list[i+1] \in A \cap S
    BY <1>2, <1>a, <1>5
  <2>2. c[i+1] = Append(c[i], list[i+1])
    BY <1>3, <2>1
  <2>3. c[i] \in Seq(A \cap S) /\ Len(c[i]) = i
    BY <1>3, <1>5
  <2>4. Len(c[i+1]) = i + 1
    BY <2>1, <2>2, <2>3, AppendFacts
  <2>5. QED
    BY <2>1, <2>4
<1> HIDE DEF T
<1>6. 0..k \subseteq T
  BY <1>2, <1>4, <1>5, UpTo
<1>7. QED
  BY <1>2, <1>6 DEF T, k

LEMMA KeptAppend ==
    ASSUME NEW A, NEW list \in Seq(A), NEW x \in A, NEW S
    PROVE  Kept(Append(list, x), S) =
              IF x \in S THEN Append(Kept(list, S), x) ELSE Kept(list, S)
<1> DEFINE k == Len(list)
           more == Append(list, x)
<1>1. /\ more \in Seq(A) /\ Len(more) = k + 1 /\ k \in Nat
      /\ \A i \in 1..k : more[i] = list[i]
      /\ more[k+1] = x
  BY AppendFacts
<1>2. PICK c : IsKept(c, list, S, k) /\ Kept(list, S) = c[k]
  BY KeptIs
<1>3. PICK d : IsKept(d, more, S, Len(more)) /\ Kept(more, S) = d[Len(more)]
  BY <1>1, KeptIs
<1>4. k <= Len(list)
  BY <1>1
<1> HIDE DEF more, k
<1>5. /\ c[0] = <<>>
      /\ \A i \in 1..k : c[i] = IF list[i] \in S THEN Append(c[i-1], list[i]) ELSE c[i-1]
      /\ \A i \in 0..k : c[i] \in Seq(A \cap S) /\ Len(c[i]) <= i
  BY <1>1, <1>2, <1>4, KeptStep
<1>6. /\ d[0] = <<>>
      /\ \A i \in 1..k+1 : d[i] = IF more[i] \in S THEN Append(d[i-1], more[i]) ELSE d[i-1]
  <2> DEFINE l == k + 1
  <2>1. l \in Nat /\ l <= Len(more) /\ IsKept(d, more, S, l)
    BY <1>1, <1>3
  <2> HIDE DEF l
  <2>2. /\ d[0] = <<>>
        /\ \A i \in 1..l : d[i] = IF more[i] \in S THEN Append(d[i-1], more[i]) ELSE d[i-1]
        /\ \A i \in 0..l : d[i] \in Seq(A \cap S) /\ Len(d[i]) <= i
    BY <1>1, <2>1, KeptStep
  <2>3. QED
    BY <2>2 DEF l
<1> DEFINE T == {i \in 0..k : d[i] = c[i]}
<1>7. 0 \in T
  BY <1>1, <1>5, <1>6
<1>8. ASSUME NEW i \in 0..k, i < k, i \in T PROVE i + 1 \in T
  <2>1. i + 1 \in 1..k /\ i + 1 \in 1..k+1 /\ (i + 1) - 1 = i
    BY <1>1, <1>8
  <2>2. more[i+1] = list[i+1] /\ d[i] = c[i]
    BY <1>1, <1>8, <2>1
  <2>3. d[i+1] = c[i+1]
    BY <1>5, <1>6, <2>1, <2>2
  <2>4. QED
    BY <2>1, <2>3
<1> HIDE DEF T
<1>9. 0..k \subseteq T
  BY <1>1, <1>7, <1>8, UpTo
<1>10. d[k] = c[k]
  BY <1>1, <1>9 DEF T
<1>11. d[k+1] = IF x \in S THEN Append(d[k], x) ELSE d[k]
  <2>1. k + 1 \in 1..k+1 /\ (k + 1) - 1 = k
    BY <1>1
  <2>2. QED
    BY <1>1, <1>6, <2>1
<1>12. QED
  BY <1>1, <1>2, <1>3, <1>10, <1>11 DEF more

(* Filtering by a set and then by a part of it.                            *)
LEMMA KeptTwice ==
    ASSUME NEW A, NEW list \in Seq(A), NEW S, NEW R, R \subseteq S
    PROVE  Kept(Kept(list, S), R) = Kept(list, R)
<1> DEFINE k == Len(list)
<1>1. PICK c : IsKept(c, list, S, k) /\ Kept(list, S) = c[k]
  BY KeptIs
<1>2. PICK d : IsKept(d, list, R, k) /\ Kept(list, R) = d[k]
  BY KeptIs
<1>3. k \in Nat /\ k <= Len(list) /\ \A i \in 1..k : list[i] \in A
  OBVIOUS
<1> HIDE DEF k
<1>4. /\ c[0] = <<>>
      /\ \A i \in 1..k : c[i] = IF list[i] \in S THEN Append(c[i-1], list[i]) ELSE c[i-1]
      /\ \A i \in 0..k : c[i] \in Seq(A \cap S) /\ Len(c[i]) <= i
  BY <1>1, <1>3, KeptStep
<1>5. /\ d[0] = <<>>
      /\ \A i \in 1..k : d[i] = IF list[i] \in R THEN Append(d[i-1], list[i]) ELSE d[i-1]
      /\ \A i \in 0..k : d[i] \in Seq(A \cap R) /\ Len(d[i]) <= i
  BY <1>2, <1>3, KeptStep
<1> DEFINE T == {i \in 0..k : Kept(c[i], R) = d[i]}
<1>6. 0 \in T
  <2>1. <<>> \in Seq(A) /\ Len(<<>>) = 0
    OBVIOUS
  <2>2. Kept(<<>>, R) \in Seq(A \cap R)
    BY <2>1, KeptType
  <2>3. Len(Kept(<<>>, R)) = 0
    <3>1. \A i \in 1..Len(<<>>) : <<>>[i] \in R
      BY <2>1
    <3>2. QED
      BY <2>1, <3>1, KeptAll
  <2>4. Kept(<<>>, R) = <<>>
    BY <2>2, <2>3
  <2>5. QED
    BY <1>3, <1>4, <1>5, <2>4
<1>7. ASSUME NEW i \in 0..k, i < k, i \in T PROVE i + 1 \in T
  <2>1. i + 1 \in 1..k /\ (i + 1) - 1 = i /\ list[i+1] \in A
    BY <1>3, <1>7
  <2>2. /\ c[i+1] = IF list[i+1] \in S THEN Append(c[i], list[i+1]) ELSE c[i]
        /\ d[i+1] = IF list[i+1] \in R THEN Append(d[i], list[i+1]) ELSE d[i]
        /\ c[i] \in Seq(A \cap S)
    BY <1>4, <1>5, <2>1
  <2>3. Kept(c[i], R) = d[i]
    BY <1>7
  <2>4. CASE list[i+1] \in S
    <3> DEFINE B == A \cap S
               x == list[i+1]
               s == c[i]
    <3>1. x \in B /\ s \in Seq(B)
      BY <2>1, <2>2, <2>4
    <3>2. c[i+1] = Append(s, x) /\ Kept(s, R) = d[i]
      BY <2>2, <2>3, <2>4
    <3>3. d[i+1] = IF x \in R THEN Append(d[i], x) ELSE d[i]
      BY <2>2
    <3> HIDE DEF B, x, s
    <3>4. Kept(Append(s, x), R) = IF x \in R THEN Append(Kept(s, R), x) ELSE Kept(s, R)
      BY <3>1, KeptAppend
    <3>5. Kept(c[i+1], R) = d[i+1]
      BY <3>2, <3>3, <3>4, Zenon
    <3>6. QED
      BY <2>1, <3>5
  <2>5. CASE list[i+1] \notin S
    BY <2>1, <2>2, <2>3, <2>5
  <2>6. QED
    BY <2>4, <2>5
<1> HIDE DEF T
<1>8. 0..k \subseteq T
  BY <1>3, <1>6, <1>7, UpTo
<1>9. Kept(c[k], R) = d[k]
  BY <1>3, <1>8 DEF T
<1>10. QED
  BY <1>1, <1>2, <1>9

-----------------------------------------------------------------------------
(* The second invariant: the tree is well formed and counted, and the two  *)
(* lists of the snapshot go with its map.  An update that keeps the list   *)
(* must not have dropped an entry: it drops Excess of them, and the map is *)
(* finite, so dropping none leaves it as it was.                           *)
ListInv ==
    /\ TreeOK(tree) /\ TreeCounted(tree)
    /\ IsFiniteSet(DOMAIN snapshot.map)
    /\ SnapshotListsExact

Matching(lists, m) ==
    /\ Range(lists.list) \subseteq DOMAIN m
    /\ lists.affinity = Kept(lists.list, WithAffinity(m))

(* Lists made from the tree go with the map, and lack no node of the tree  *)
(* that is in the map.                                                     *)
LEMMA TreeListsOK ==
    ASSUME NEW t, TreeOK(t), TreeCounted(t), NEW m
    PROVE  LET l == ListsFromTree(t, m)
           IN  /\ TreeOK(l.tree) /\ TreeCounted(l.tree) /\ SameNodes(t, l.tree)
               /\ Matching(l, m)
               /\ (\A name : InTree(t, name) => name \in DOMAIN m) => Len(l.list) = t.numNodes
<1> DEFINE r == TreeTake(t, t.numNodes)
           l == ListsFromTree(t, m)
<1>1. /\ TreeOK(r.tree) /\ SameNodes(t, r.tree)
      /\ r.names \in Seq(AllNames) /\ Len(r.names) = t.numNodes
      /\ \A i \in 1..Len(r.names) : InTree(t, r.names[i])
  BY WalkOK
<1>2. l = [tree |-> r.tree, list |-> Kept(r.names, DOMAIN m),
           affinity |-> Kept(r.names, WithAffinity(m))]
  BY DEF ListsFromTree
<1> HIDE DEF r, l
<1>3. TreeCounted(r.tree)
  BY <1>1, SameNodesCounted
<1>4. Kept(r.names, DOMAIN m) \in Seq(AllNames \cap DOMAIN m)
  BY <1>1, KeptType
<1>5. Range(l.list) \subseteq DOMAIN m
  BY <1>2, <1>4 DEF Range
<1>6. WithAffinity(m) \subseteq DOMAIN m
  BY DEF WithAffinity
<1>7. Kept(Kept(r.names, DOMAIN m), WithAffinity(m)) = Kept(r.names, WithAffinity(m))
  BY <1>1, <1>6, KeptTwice
<1>8. l.affinity = Kept(l.list, WithAffinity(m))
  BY <1>2, <1>7, Zenon
<1>9. ASSUME \A name : InTree(t, name) => name \in DOMAIN m
      PROVE  Len(l.list) = t.numNodes
  <2>1. \A i \in 1..Len(r.names) : r.names[i] \in DOMAIN m
    BY <1>1, <1>9, Zenon
  <2>2. Len(Kept(r.names, DOMAIN m)) = Len(r.names)
    BY <1>1, <2>1, KeptAll
  <2>3. QED
    BY <1>1, <1>2, <2>2
<1>10. QED
  BY <1>1, <1>2, <1>3, <1>5, <1>8, <1>9 DEF Matching, l

LEMMA ListIsFinite ==
    ASSUME NEW A, NEW list \in Seq(A)
    PROVE  IsFiniteSet(Range(list))
<1>1. list \in Seq(Range(list))
  BY DEF Range
<1>2. \A x \in Range(list) : \E i \in 1..Len(list) : list[i] = x
  BY DEF Range
<1>3. QED
  BY <1>1, <1>2 DEF IsFiniteSet

(* The lists UpdateSnapshot starts from, before it compares their length.  *)
FirstLists(m) ==
    IF Copied \ DOMAIN snapshot.map # {} \/ Excess > 0 THEN ListsFromTree(tree, m)
    ELSE IF AffinityFlipped THEN AffinityFromList(tree, m, snapshot.list)
    ELSE [tree |-> tree, list |-> snapshot.list, affinity |-> snapshot.affinity]

LEMMA FirstListsOK ==
    ASSUME IInv, ListInv, NEW D \in Deletions, NEW m,
           m = Restrict(CopiedMap, DOMAIN CopiedMap \ D)
    PROVE  LET first == FirstLists(m)
           IN  /\ TreeOK(first.tree) /\ TreeCounted(first.tree) /\ SameNodes(tree, first.tree)
               /\ Matching(first, m)
<1> DEFINE first == FirstLists(m)
<1>0. TreeOK(tree) /\ TreeCounted(tree) /\ SameNodes(tree, tree)
  BY DEF ListInv, SameNodes
<1>1. CASE Copied \ DOMAIN snapshot.map # {} \/ Excess > 0
  <2>1. first = ListsFromTree(tree, m)
    BY <1>1, Zenon DEF FirstLists
  <2>2. QED
    BY <1>0, <2>1, TreeListsOK
<1>2. CASE Copied \subseteq DOMAIN snapshot.map /\ ~(Excess > 0)
  <2>1. DOMAIN CopiedMap = DOMAIN snapshot.map
    BY <1>2 DEF CopiedMap
  <2>2. D = {}
    <3>1. D \subseteq DOMAIN snapshot.map /\ Cardinality(D) = 0
      BY <1>2, <2>1 DEF Deletions
    <3>2. IsFiniteSet(D)
      BY <3>1, FS_Subset DEF ListInv
    <3>3. QED
      BY <3>1, <3>2, FS_EmptySet
  <2>3. /\ DOMAIN m = DOMAIN snapshot.map
        /\ \A n \in DOMAIN m : m[n] = IF n \in Copied THEN store.nodes[n] ELSE snapshot.map[n]
    BY <2>1, <2>2 DEF Restrict, CopiedMap
  <2>4. Range(snapshot.list) \subseteq DOMAIN m
    BY <2>3 DEF ListInv, SnapshotListsExact, ListsPointIntoMap
  <2>5. CASE AffinityFlipped
    <3>1. first = AffinityFromList(tree, m, snapshot.list)
      BY <1>2, <2>5 DEF FirstLists
    <3>2. first = [tree |-> tree, list |-> snapshot.list,
                   affinity |-> Kept(snapshot.list, WithAffinity(m))]
      BY <3>1 DEF AffinityFromList
    <3> HIDE DEF first
    <3>3. QED
      BY <1>0, <2>4, <3>2 DEF Matching, first
  <2>6. CASE ~AffinityFlipped
    <3>1. first = [tree |-> tree, list |-> snapshot.list, affinity |-> snapshot.affinity]
      BY <1>2, <2>6 DEF FirstLists
    <3>2. WithAffinity(m) = WithAffinity(snapshot.map)
      <4>1. ASSUME NEW n \in DOMAIN m PROVE HasAffinity(m[n]) <=> HasAffinity(snapshot.map[n])
        <5>1. CASE n \in Copied
          BY <2>3, <2>6, <5>1 DEF AffinityFlipped
        <5>2. CASE n \notin Copied
          BY <2>3, <5>2
        <5>3. QED
          BY <5>1, <5>2
      <4>2. QED
        BY <2>3, <4>1 DEF WithAffinity
    <3>3. snapshot.affinity = Kept(snapshot.list, WithAffinity(m))
      BY <3>2 DEF ListInv, SnapshotListsExact, AffinityListExact
    <3> HIDE DEF first
    <3>4. QED
      BY <1>0, <2>4, <3>1, <3>3 DEF Matching, first
  <2>7. QED
    BY <2>5, <2>6
<1>3. QED
  BY <1>1, <1>2

(* What a cycle gets: lists that go with the map, one slot per node of the *)
(* tree if the map has them all, and a tree with the same nodes.           *)
LEMMA ListsTaken ==
    ASSUME IInv, ListInv, UpdateSnapshot
    PROVE  /\ ListInv' /\ SameNodes(tree, tree')
           /\ (\A name : InTree(tree, name) => name \in DOMAIN snapshot'.map) =>
                 Len(snapshot'.list) = tree.numNodes
<1>1. PICK D \in Deletions :
         LET m == Restrict(CopiedMap, DOMAIN CopiedMap \ D)
             lists == Repaired(FirstLists(m), m)
         IN  /\ \E gen : snapshot' = [map |-> m, list |-> lists.list,
                                      affinity |-> lists.affinity, gen |-> gen]
             /\ tree' = lists.tree
  BY Zenon DEF UpdateSnapshot, FirstLists
<1> DEFINE m     == Restrict(CopiedMap, DOMAIN CopiedMap \ D)
           first == FirstLists(m)
           lists == Repaired(first, m)
<1>2. /\ snapshot'.map = m /\ snapshot'.list = lists.list
      /\ snapshot'.affinity = lists.affinity /\ tree' = lists.tree
  <2> HIDE DEF m, lists
  <2>1. /\ \E gen : snapshot' = [map |-> m, list |-> lists.list,
                                 affinity |-> lists.affinity, gen |-> gen]
        /\ tree' = lists.tree
    BY <1>1, Zenon DEF m, lists
  <2>2. QED
    BY <2>1
<1>3. DOMAIN m \subseteq DOMAIN snapshot.map \cup Copied
  BY DEF Restrict, CopiedMap
<1>4. /\ TreeOK(first.tree) /\ TreeCounted(first.tree) /\ SameNodes(tree, first.tree)
      /\ Matching(first, m)
  BY FirstListsOK
<1> HIDE DEF first, m
<1>5. /\ TreeOK(lists.tree) /\ TreeCounted(lists.tree) /\ SameNodes(tree, lists.tree)
      /\ Matching(lists, m)
      /\ (\A name : InTree(tree, name) => name \in DOMAIN m) => Len(lists.list) = tree.numNodes
  <2>1. CASE Len(first.list) # tree.numNodes
    <3>1. lists = ListsFromTree(first.tree, m)
      BY <2>1 DEF Repaired
    <3>2. /\ TreeOK(lists.tree) /\ TreeCounted(lists.tree) /\ SameNodes(first.tree, lists.tree)
          /\ Matching(lists, m)
          /\ (\A name : InTree(first.tree, name) => name \in DOMAIN m) =>
                Len(lists.list) = first.tree.numNodes
      BY <1>4, <3>1, TreeListsOK
    <3>3. SameNodes(tree, lists.tree)
      BY <1>4, <3>2, SameNodesTransitive
    <3>4. first.tree.numNodes = tree.numNodes
      BY <1>4 DEF SameNodes
    <3>5. \A name : InTree(first.tree, name) <=> InTree(tree, name)
      BY <1>4, SameNames
    <3> HIDE DEF lists
    <3>6. QED
      BY <3>2, <3>3, <3>4, <3>5
  <2>2. CASE Len(first.list) = tree.numNodes
    <3>1. lists = first
      BY <2>2 DEF Repaired
    <3> HIDE DEF lists
    <3>2. QED
      BY <1>4, <2>2, <3>1
  <2>3. QED
    BY <2>1, <2>2
<1> HIDE DEF lists
<1>6. IsFiniteSet(DOMAIN snapshot'.map)
  <2>1. Copied \subseteq Range(store.list)
    BY DEF Copied, Fresh, Range
  <2>2. IsFiniteSet(Range(store.list))
    BY ListIsFinite DEF IInv, StoreOK
  <2>3. IsFiniteSet(DOMAIN snapshot.map \cup Copied)
    BY <2>1, <2>2, FS_Subset, FS_Union DEF ListInv
  <2>4. QED
    BY <1>2, <1>3, <2>3, FS_Subset
<1>7. SnapshotListsExact'
  <2>1. Range(snapshot'.list) \subseteq DOMAIN snapshot'.map
    BY <1>2, <1>5 DEF Matching
  <2>2. snapshot'.affinity = Kept(snapshot'.list, WithAffinity(snapshot'.map))
    BY <1>2, <1>5 DEF Matching
  <2>3. QED
    BY <2>1, <2>2 DEF SnapshotListsExact, ListsPointIntoMap, AffinityListExact
<1>8. ListInv'
  BY <1>2, <1>5, <1>6, <1>7 DEF ListInv
<1>9. QED
  BY <1>2, <1>5, <1>8

LEMMA ListInvUnchanged ==
    ASSUME ListInv, tree' = tree, snapshot' = snapshot
    PROVE  ListInv'
  BY DEF ListInv, SnapshotListsExact, ListsPointIntoMap, AffinityListExact

LEMMA ListInvTree ==
    ASSUME ListInv, TreeOK(tree'), TreeCounted(tree'), snapshot' = snapshot
    PROVE  ListInv'
  BY DEF ListInv, SnapshotListsExact, ListsPointIntoMap, AffinityListExact

LEMMA ListInvNode ==
    ASSUME IInv, ListInv
    PROVE  /\ \A obj \in Objects : AddNode(obj) \/ RemoveNode(obj) => ListInv'
           /\ \A old, new \in Objects : UpdateNode(old, new) => ListInv'
<1>0. TreeOK(tree) /\ TreeCounted(tree)
  BY DEF ListInv
<1>1. ASSUME NEW obj \in Objects, AddNode(obj)
      PROVE  ListInv'
  BY <1>0, <1>1, ObjectsAreObjs, TreeAddOK, TreeAddCounted, ListInvTree DEF AddNode
<1>2. ASSUME NEW obj \in Objects, RemoveNode(obj)
      PROVE  ListInv'
  BY <1>0, <1>2, ObjectsAreObjs, TreeRemoveOK, TreeRemoveCounted, ListInvTree
  DEF RemoveNode, Refused, vars
<1>3. ASSUME NEW old \in Objects, NEW new \in Objects, UpdateNode(old, new)
      PROVE  ListInv'
  <2> DEFINE t == IF new.name \in DOMAIN store.nodes THEN tree ELSE TreeAddNode(tree, new)
  <2>1. TreeOK(t) /\ TreeCounted(t)
    BY <1>0, ObjectsAreObjs, TreeAddOK, TreeAddCounted
  <2>2. tree' = TreeUpdateNode(t, old, new) /\ snapshot' = snapshot
    BY <1>3 DEF UpdateNode
  <2> HIDE DEF t
  <2>3. TreeOK(tree') /\ TreeCounted(tree')
    BY <2>1, <2>2, ObjectsAreObjs, TreeUpdateCounted
  <2>4. QED
    BY <2>2, <2>3, ListInvTree
<1>4. QED
  BY <1>1, <1>2, <1>3

LEMMA ListInvInit == Init => ListInv
<1> SUFFICES ASSUME Init
             PROVE  ListInv
  OBVIOUS
<1>1. /\ tree.tree = [z \in {} |-> <<>>] /\ tree.zones = <<>>
      /\ tree.zoneIndex = 0 /\ tree.numNodes = 0 /\ IsRecord(tree)
  BY DEF Init, EmptyTree, IsRecord
<1>2. TreeOK(tree)
  BY <1>1 DEF TreeOK, IsInjective, Range
<1>3. Places(tree) = {}
  BY <1>1 DEF Places, NamesOf
<1>4. TreeCounted(tree)
  BY <1>1, <1>3, FS_EmptySet DEF TreeCounted
<1>5. /\ snapshot.map = [n \in {} |-> Null] /\ snapshot.list = <<>> /\ snapshot.affinity = <<>>
  BY DEF Init
<1>6. IsFiniteSet(DOMAIN snapshot.map)
  BY <1>5, FS_EmptySet
<1>7. <<>> \in Seq(Names) /\ Len(<<>>) = 0
  OBVIOUS
<1>8. Kept(<<>>, WithAffinity(snapshot.map)) = <<>>
  <2>1. \A S : Kept(<<>>, S) \in Seq(Names \cap S)
    BY <1>7, KeptType
  <2>2. WithAffinity(snapshot.map) = {}
    BY <1>5 DEF WithAffinity
  <2>3. Kept(<<>>, {}) \in Seq({})
    BY <2>1
  <2>4. QED
    BY <2>2, <2>3
<1>9. SnapshotListsExact
  BY <1>5, <1>8 DEF SnapshotListsExact, ListsPointIntoMap, AffinityListExact, Range
<1>10. QED
  BY <1>2, <1>4, <1>6, <1>9 DEF ListInv

LEMMA ListInvNext == IInv /\ ListInv /\ [Next]_vars => ListInv'
<1> SUFFICES ASSUME IInv, ListInv, [Next]_vars
             PROVE  ListInv'
  OBVIOUS
<1>1. CASE UpdateSnapshot
  BY <1>1, ListsTaken
<1>2. CASE \/ \E obj \in Objects : AddNode(obj) \/ RemoveNode(obj)
           \/ \E old, new \in Objects : UpdateNode(old, new)
  BY <1>2, ListInvNode
<1>3. CASE tree' = tree /\ ~UpdateSnapshot
  BY <1>3, OnlyUpdateSnapshot, ListInvUnchanged
<1>4. \/ UpdateSnapshot \/ tree' = tree
      \/ \E obj \in Objects : AddNode(obj) \/ RemoveNode(obj)
      \/ \E old, new \in Objects : UpdateNode(old, new)
  <2>1. ASSUME NEW pod \in Pods, AddPod(pod) PROVE tree' = tree
    BY <2>1 DEF AddPod, ConfirmPod, AddNewPod, Refused, Panic, vars
  <2>2. ASSUME NEW pod \in Pods, AssumePod(pod) \/ ForgetPod(pod) \/ RemovePod(pod)
        PROVE  tree' = tree
    BY <2>2 DEF AssumePod, ForgetPod, RemovePod, Refused, Panic, vars
  <2>3. ASSUME NEW old \in Pods, NEW new \in Pods, UpdatePod(old, new)
        PROVE  tree' = tree
    BY <2>3 DEF UpdatePod, Refused, Panic, vars
  <2>4. ASSUME NEW key \in PodKeys, FinishBinding(key) \/ SweepPod(key)
        PROVE  tree' = tree
    BY <2>4 DEF FinishBinding, SweepPod, Panic
  <2>5. CASE StartSweep \/ Tick
    BY <2>5 DEF StartSweep, Tick
  <2>6. CASE UNCHANGED vars
    BY <2>6 DEF vars
  <2>7. QED
    BY <2>1, <2>2, <2>3, <2>4, <2>5, <2>6 DEF Next
<1>5. QED
  BY <1>1, <1>2, <1>3, <1>4

(* The lists of the snapshot, which UpdateSnapshot makes again only when   *)
(* it must (cache.go:202-301), point into its map, and the affinity list   *)
(* is the part of the node list that carries affinity terms.               *)
THEOREM SnapshotListsStayExact == Spec => []SnapshotListsExact
<1>1. Spec => []ListInv
  BY ListInvInit, ListInvNext, InvariantHolds, PTL DEF Spec
<1>2. ListInv => SnapshotListsExact
  BY DEF ListInv
<1>3. QED
  BY <1>1, <1>2, PTL

-----------------------------------------------------------------------------
(* How often the store s counts pod k on node n, and the node object it    *)
(* has of n; 0 and Null for a node it does not have.                       *)
Charge(s, n, k) == InfoOf(s, n).pods[k]
ObjectOf(s, n)  == InfoOf(s, n).obj
PortsOf(s, n)   == InfoOf(s, n).ports

CountedOnce(s) ==
    \A k \in PodKeys :
        /\ \A n \in AllNames : Charge(s, n, k) <= 1
        /\ \A m, n \in AllNames : Charge(s, m, k) > 0 /\ Charge(s, n, k) > 0 => m = n

PortsUsed(s) ==
    \A n \in AllNames : \A p \in PortsOf(s, n) :
        \E k \in PodKeys : Charge(s, n, k) > 0 /\ p \in HostPort[k]

(* The inductive invariant.  What is true of the store holds whatever      *)
(* happened; what relates it to the informers holds until the process dies,*)
(* when the cache stops following them.                                    *)
ViewsOK ==
    /\ podView \in [PodKeys -> AllNames \cup {Unseen, Gone}]
    /\ nodeView \in [Names -> Objects \cup {Null}]
    /\ \A n \in Names : nodeView[n] # Null => nodeView[n].name = n
    /\ listed \subseteq {k \in PodKeys : podView[k] \in AllNames}
    /\ renewed \subseteq listed \cup {k \in PodKeys : podView[k] = Gone}

(* A pod may stay charged to the nameless node, which is never given an    *)
(* object: an update that finds the new node missing returns early.  Of a  *)
(* renewed pod all that is left is that it has no state while it is listed.*)
PodsFollow ==
    /\ assumedPods = {} /\ sweep = {}
    /\ \A k \in listed \ renewed : Known(k) /\ podStates[k].pod = Pod(k, podView[k])
    /\ \A k \in listed \cap renewed : ~Known(k)
    /\ \A k \in PodKeys \ listed :
          podView[k] # Gone => ~Known(k) /\ \A n \in AllNames : Charge(store, n, k) = 0
    /\ \A n \in Names, k \in PodKeys \ renewed :
          Charge(store, n, k) > 0 => k \in listed /\ podView[k] = n

NodesFollow ==
    /\ \A n \in Names : ObjectOf(store, n) = nodeView[n]
    /\ ObjectOf(store, NoNode) = Null

HInv ==
    /\ IInv
    /\ CountedOnce(store)
    /\ PortsUsed(store)
    /\ ViewsOK
    /\ ~dead => PodsFollow /\ NodesFollow

-----------------------------------------------------------------------------
LEMMA InfoType ==
    ASSUME NEW s, StoreOK(s), NEW n
    PROVE  InfoOf(s, n) \in NodeInfos
  BY NewNodeInfoType DEF InfoOf, StoreOK

LEMMA ChargeType ==
    ASSUME NEW s, StoreOK(s), NEW n, NEW k \in PodKeys
    PROVE  Charge(s, n, k) \in Nat
  BY InfoType DEF Charge, NodeInfos

(* Put changes the NodeInfo of one node.                                   *)
LEMMA PutInfo ==
    ASSUME NEW s, NEW name, NEW info, NEW n
    PROVE  InfoOf(Put(s, name, info), n) = IF n = name THEN info ELSE InfoOf(s, n)
  BY DEF Put, InfoOf

(* StoreAddPod counts the pod once more on its node and takes its ports.   *)
LEMMA AddCharges ==
    ASSUME NEW s, StoreOK(s), NEW pod \in Pods, NEW n
    PROVE  LET t == StoreAddPod(s, pod)
           IN  /\ \A k \in PodKeys :
                     Charge(t, n, k) = IF n = pod.node /\ k = pod.key
                                       THEN Charge(s, n, k) + 1 ELSE Charge(s, n, k)
               /\ PortsOf(t, n) = IF n = pod.node THEN PortsOf(s, n) \cup HostPort[pod.key]
                                  ELSE PortsOf(s, n)
               /\ ObjectOf(t, n) = ObjectOf(s, n)
<1> DEFINE g    == NextGen(s, pod.node)
           info == InfoOf(s, pod.node)
<1>1. info \in NodeInfos
  BY InfoType
<1>2. InfoOf(StoreAddPod(s, pod), n) =
          IF n = pod.node THEN InfoAddPod(info, pod.key, g) ELSE InfoOf(s, n)
  BY PutInfo DEF StoreAddPod
<1>3. CASE n = pod.node
  <2> HIDE DEF info, g
  <2>1. /\ InfoAddPod(info, pod.key, g).pods = [info.pods EXCEPT ![pod.key] = @ + 1]
        /\ InfoAddPod(info, pod.key, g).ports = info.ports \cup HostPort[pod.key]
        /\ InfoAddPod(info, pod.key, g).obj = info.obj
    BY <1>1 DEF InfoAddPod, NodeInfos
  <2>2. info.pods \in [PodKeys -> Nat]
    BY <1>1 DEF NodeInfos
  <2>3. QED
    BY <1>2, <1>3, <2>1, <2>2 DEF Charge, PortsOf, ObjectOf, info
<1>4. CASE n # pod.node
  BY <1>2, <1>4 DEF Charge, PortsOf, ObjectOf
<1>5. QED
  BY <1>3, <1>4

(* StoreRemovePod undoes one counting, if there is one on the pod's node.  *)
LEMMA RemoveCharges ==
    ASSUME NEW s, StoreOK(s), NEW pod \in Pods, NEW n
    PROVE  LET t == StoreRemovePod(s, pod)
               hit == n = pod.node /\ Charge(s, n, pod.key) > 0
           IN  /\ \A k \in PodKeys :
                     Charge(t, n, k) = IF hit /\ k = pod.key
                                       THEN Charge(s, n, k) - 1 ELSE Charge(s, n, k)
               /\ PortsOf(t, n) = IF hit THEN PortsOf(s, n) \ HostPort[pod.key]
                                  ELSE PortsOf(s, n)
               /\ ObjectOf(t, n) = ObjectOf(s, n)
<1> DEFINE hit  == n = pod.node /\ Charge(s, n, pod.key) > 0
           info == s.nodes[pod.node]
<1>0. pod.key \in PodKeys
  BY DEF Pods
<1>1. CASE RemoveOutcome(s, pod) # "removed"
  <2>1. StoreRemovePod(s, pod) = s
    BY <1>1 DEF StoreRemovePod
  <2>2. ~hit
    <3> SUFFICES ASSUME n = pod.node, Charge(s, n, pod.key) > 0
                 PROVE  RemoveOutcome(s, pod) = "removed"
      BY <1>1
    <3>1. pod.node \in DOMAIN s.nodes
      BY <1>0 DEF Charge, InfoOf, NewNodeInfo
    <3>2. QED
      BY <3>1 DEF RemoveOutcome, Charge, InfoOf
  <2>3. QED
    BY <2>1, <2>2
<1>2. CASE RemoveOutcome(s, pod) = "removed"
  <2>1. pod.node \in DOMAIN s.nodes /\ info.pods[pod.key] > 0
    BY <1>2 DEF RemoveOutcome
  <2>2. info = InfoOf(s, pod.node) /\ info \in NodeInfos
    BY <2>1 DEF InfoOf, StoreOK
  <2> DEFINE g == s.generation + 1
  <2>3. InfoOf(StoreRemovePod(s, pod), n) =
            IF n = pod.node THEN InfoRemovePod(info, pod.key, g) ELSE InfoOf(s, n)
    BY <1>2, PutInfo DEF StoreRemovePod
  <2> HIDE DEF info, g
  <2>4. CASE n = pod.node
    <3>1. /\ InfoRemovePod(info, pod.key, g).pods = [info.pods EXCEPT ![pod.key] = @ - 1]
          /\ InfoRemovePod(info, pod.key, g).ports = info.ports \ HostPort[pod.key]
          /\ InfoRemovePod(info, pod.key, g).obj = info.obj
      BY <2>2 DEF InfoRemovePod, NodeInfos
    <3>2. info.pods \in [PodKeys -> Nat]
      BY <2>2 DEF NodeInfos
    <3>3. hit
      BY <2>1, <2>2, <2>4 DEF Charge, info
    <3>4. QED
      BY <2>2, <2>3, <2>4, <3>1, <3>2, <3>3, ZenonT(60) DEF Charge, PortsOf, ObjectOf
  <2>5. CASE n # pod.node
    BY <2>3, <2>5 DEF Charge, PortsOf, ObjectOf
  <2>6. QED
    BY <2>4, <2>5
<1>3. QED
  BY <1>1, <1>2

(* The calls about nodes leave the pods of the nodes they keep alone.      *)
LEMMA SetNodeCharges ==
    ASSUME NEW s, StoreOK(s), NEW obj \in Objects, NEW summary, NEW n
    PROVE  LET t == StoreSetNode(s, obj, summary)
           IN  /\ \A k \in PodKeys : Charge(t, n, k) = Charge(s, n, k)
               /\ PortsOf(t, n) = PortsOf(s, n)
               /\ ObjectOf(t, n) = IF n = obj.name THEN obj ELSE ObjectOf(s, n)
<1> DEFINE g    == NextGen(s, obj.name)
           info == InfoOf(s, obj.name)
<1>1. info \in NodeInfos
  BY InfoType
<1>2. InfoOf(StoreSetNode(s, obj, summary), n) =
          IF n = obj.name THEN [info EXCEPT !.obj = obj, !.summary = summary, !.gen = g]
          ELSE InfoOf(s, n)
  BY PutInfo DEF StoreSetNode
<1>3. CASE n = obj.name
  <2> HIDE DEF info, g
  <2> DEFINE next == [info EXCEPT !.obj = obj, !.summary = summary, !.gen = g]
  <2>1. next.pods = info.pods /\ next.ports = info.ports /\ next.obj = obj
    BY <1>1 DEF NodeInfos
  <2>2. QED
    BY <1>2, <1>3, <2>1 DEF Charge, PortsOf, ObjectOf, info
<1>4. CASE n # obj.name
  BY <1>2, <1>4 DEF Charge, PortsOf, ObjectOf
<1>5. QED
  BY <1>3, <1>4

LEMMA UnlinkCharges ==
    ASSUME NEW s, NEW name, NEW n
    PROVE  LET t == Unlink(s, name)
           IN  /\ \A k \in PodKeys :
                     Charge(t, n, k) = IF n = name THEN 0 ELSE Charge(s, n, k)
               /\ PortsOf(t, n) = IF n = name THEN {} ELSE PortsOf(s, n)
               /\ ObjectOf(t, n) = IF n = name THEN Null ELSE ObjectOf(s, n)
  BY DEF Unlink, InfoOf, Restrict, NewNodeInfo, Charge, PortsOf, ObjectOf

-----------------------------------------------------------------------------
(* A pod that is counted nowhere may be counted on one node.               *)
LEMMA AddKeeps ==
    ASSUME NEW s, StoreOK(s), CountedOnce(s), PortsUsed(s), NEW pod \in Pods,
           \A n \in AllNames : Charge(s, n, pod.key) = 0
    PROVE  CountedOnce(StoreAddPod(s, pod)) /\ PortsUsed(StoreAddPod(s, pod))
<1> DEFINE t == StoreAddPod(s, pod)
<1>0. pod.key \in PodKeys /\ pod.node \in AllNames
  BY DEF Pods
<1>1. \A n \in AllNames, k \in PodKeys :
         /\ Charge(s, n, k) \in Nat
         /\ Charge(t, n, k) = IF n = pod.node /\ k = pod.key
                              THEN Charge(s, n, k) + 1 ELSE Charge(s, n, k)
  BY AddCharges, ChargeType
<1>2. \A n \in AllNames :
         PortsOf(t, n) = IF n = pod.node THEN PortsOf(s, n) \cup HostPort[pod.key]
                         ELSE PortsOf(s, n)
  BY AddCharges
<1> HIDE DEF t
<1>3. CountedOnce(t)
  <2>1. \A k \in PodKeys, n \in AllNames : Charge(t, n, k) <= 1
    BY <1>1 DEF CountedOnce
  <2>2. ASSUME NEW k \in PodKeys, NEW m \in AllNames, NEW n \in AllNames,
               Charge(t, m, k) > 0, Charge(t, n, k) > 0
        PROVE  m = n
    <3>1. CASE k = pod.key
      BY <1>1, <2>2, <3>1
    <3>2. CASE k # pod.key
      BY <1>1, <2>2, <3>2 DEF CountedOnce
    <3>3. QED
      BY <3>1, <3>2
  <2>3. QED
    BY <2>1, <2>2 DEF CountedOnce
<1>4. PortsUsed(t)
  <2> SUFFICES ASSUME NEW n \in AllNames, NEW p \in PortsOf(t, n)
               PROVE  \E k \in PodKeys : Charge(t, n, k) > 0 /\ p \in HostPort[k]
    BY DEF PortsUsed
  <2>1. CASE p \in PortsOf(s, n)
    <3>1. PICK k \in PodKeys : Charge(s, n, k) > 0 /\ p \in HostPort[k]
      BY <2>1 DEF PortsUsed
    <3>2. Charge(t, n, k) > 0
      BY <1>1, <3>1
    <3>3. QED
      BY <3>1, <3>2
  <2>2. CASE p \notin PortsOf(s, n)
    <3>1. n = pod.node /\ p \in HostPort[pod.key]
      BY <1>2, <2>2
    <3>2. Charge(t, n, pod.key) > 0
      BY <1>0, <1>1, <3>1
    <3>3. QED
      BY <1>0, <3>1, <3>2
  <2>3. QED
    BY <2>1, <2>2
<1>5. QED
  BY <1>3, <1>4 DEF t

(* Taking a pod off gives back its ports, which no other pod of the node   *)
(* can be the only user of.                                                *)
LEMMA RemoveKeeps ==
    ASSUME NEW s, StoreOK(s), CountedOnce(s), PortsUsed(s), NEW pod \in Pods
    PROVE  CountedOnce(StoreRemovePod(s, pod)) /\ PortsUsed(StoreRemovePod(s, pod))
<1> DEFINE t      == StoreRemovePod(s, pod)
           hit(n) == n = pod.node /\ Charge(s, n, pod.key) > 0
<1>0. pod.key \in PodKeys
  BY DEF Pods
<1>1. \A n \in AllNames, k \in PodKeys :
         /\ Charge(s, n, k) \in Nat
         /\ Charge(t, n, k) = IF hit(n) /\ k = pod.key
                              THEN Charge(s, n, k) - 1 ELSE Charge(s, n, k)
  BY RemoveCharges, ChargeType
<1>2. \A n \in AllNames :
         PortsOf(t, n) = IF hit(n) THEN PortsOf(s, n) \ HostPort[pod.key] ELSE PortsOf(s, n)
  BY RemoveCharges
<1> HIDE DEF t
<1>3. CountedOnce(t)
  <2>1. \A n \in AllNames, k \in PodKeys :
           Charge(t, n, k) <= Charge(s, n, k) /\ Charge(t, n, k) \in Int
    BY <1>1
  <2>2. \A k \in PodKeys, n \in AllNames : Charge(t, n, k) <= 1
    BY <1>1, <2>1 DEF CountedOnce
  <2>3. \A k \in PodKeys, n \in AllNames : Charge(t, n, k) > 0 => Charge(s, n, k) > 0
    BY <1>1, <2>1
  <2>4. QED
    BY <2>2, <2>3 DEF CountedOnce
<1>4. PortsUsed(t)
  <2> SUFFICES ASSUME NEW n \in AllNames, NEW p \in PortsOf(t, n)
               PROVE  \E k \in PodKeys : Charge(t, n, k) > 0 /\ p \in HostPort[k]
    BY DEF PortsUsed
  <2>1. p \in PortsOf(s, n) /\ (hit(n) => p \notin HostPort[pod.key])
    BY <1>2
  <2>2. PICK k \in PodKeys : Charge(s, n, k) > 0 /\ p \in HostPort[k]
    BY <2>1 DEF PortsUsed
  <2>3. ~(hit(n) /\ k = pod.key)
    BY <2>1, <2>2
  <2>4. Charge(t, n, k) = Charge(s, n, k)
    BY <1>1, <2>3
  <2>5. QED
    BY <2>2, <2>4
<1>5. QED
  BY <1>3, <1>4 DEF t

(* A pod counted at most on the node it is taken from is counted nowhere   *)
(* afterwards.                                                             *)
LEMMA RemoveClears ==
    ASSUME NEW s, StoreOK(s), CountedOnce(s), NEW pod \in Pods,
           \A n \in AllNames : Charge(s, n, pod.key) > 0 => n = pod.node
    PROVE  \A n \in AllNames : Charge(StoreRemovePod(s, pod), n, pod.key) = 0
<1> SUFFICES ASSUME NEW n \in AllNames
             PROVE  Charge(StoreRemovePod(s, pod), n, pod.key) = 0
  OBVIOUS
<1>0. pod.key \in PodKeys
  BY DEF Pods
<1>1. Charge(s, n, pod.key) \in Nat /\ Charge(s, n, pod.key) <= 1
  BY <1>0, ChargeType DEF CountedOnce
<1>2. Charge(StoreRemovePod(s, pod), n, pod.key) =
        IF n = pod.node /\ Charge(s, n, pod.key) > 0
        THEN Charge(s, n, pod.key) - 1 ELSE Charge(s, n, pod.key)
  BY <1>0, RemoveCharges
<1>3. QED
  BY <1>1, <1>2

(* The calls about nodes.                                                  *)
LEMMA SetNodeKeeps ==
    ASSUME NEW s, StoreOK(s), CountedOnce(s), PortsUsed(s), NEW obj \in Objects, NEW summary
    PROVE  CountedOnce(StoreSetNode(s, obj, summary)) /\ PortsUsed(StoreSetNode(s, obj, summary))
<1> DEFINE t == StoreSetNode(s, obj, summary)
<1>1. \A n : PortsOf(t, n) = PortsOf(s, n) /\ \A k \in PodKeys : Charge(t, n, k) = Charge(s, n, k)
  BY SetNodeCharges
<1> HIDE DEF t
<1>2. CountedOnce(t) /\ PortsUsed(t)
  BY <1>1 DEF CountedOnce, PortsUsed
<1>3. QED
  BY <1>2 DEF t

LEMMA UnlinkKeeps ==
    ASSUME NEW s, StoreOK(s), CountedOnce(s), PortsUsed(s), NEW name
    PROVE  CountedOnce(Unlink(s, name)) /\ PortsUsed(Unlink(s, name))
<1> DEFINE t == Unlink(s, name)
<1>1. \A n : /\ \A k \in PodKeys : Charge(t, n, k) = IF n = name THEN 0 ELSE Charge(s, n, k)
             /\ PortsOf(t, n) = IF n = name THEN {} ELSE PortsOf(s, n)
             /\ ObjectOf(t, n) = IF n = name THEN Null ELSE ObjectOf(s, n)
  BY UnlinkCharges, Zenon
<1> HIDE DEF t
<1>2. \A n \in AllNames, k \in PodKeys : Charge(t, n, k) > 0 =>
         n # name /\ Charge(t, n, k) = Charge(s, n, k)
  BY <1>1
<1>3. \A n \in AllNames, k \in PodKeys : Charge(t, n, k) <= 1
  BY <1>1 DEF CountedOnce
<1>4. CountedOnce(t)
  BY <1>2, <1>3 DEF CountedOnce
<1>5. PortsUsed(t)
  BY <1>1 DEF PortsUsed
<1>6. QED
  BY <1>4, <1>5 DEF t

-----------------------------------------------------------------------------
(* The views after each delivery.                                          *)
LEMMA PodViewOK ==
    ASSUME ViewsOK, NEW key \in PodKeys, NEW node \in AllNames \cup {Gone},
           podView' = [podView EXCEPT ![key] = node],
           UNCHANGED <<nodeView, renewed>>,
           listed' = IF node = Gone THEN listed \ {key} ELSE listed \cup {key},
           podView[key] # Gone
    PROVE  /\ ViewsOK'
           /\ podView'[key] = node
           /\ \A k \in PodKeys \ {key} : podView'[k] = podView[k]
<1>1. /\ podView' \in [PodKeys -> AllNames \cup {Unseen, Gone}]
      /\ podView'[key] = node
      /\ \A k \in PodKeys \ {key} : podView'[k] = podView[k]
  BY DEF ViewsOK
<1>2. Gone \notin AllNames
  BY HandlersAssumption
<1>3. listed' \subseteq {k \in PodKeys : podView'[k] \in AllNames}
  BY <1>1, <1>2 DEF ViewsOK
<1>4. renewed' \subseteq listed' \cup {k \in PodKeys : podView'[k] = Gone}
  BY <1>1 DEF ViewsOK
<1>5. QED
  BY <1>1, <1>3, <1>4 DEF ViewsOK

LEMMA NodeViewOK ==
    ASSUME ViewsOK, NEW name \in Names, NEW obj \in Objects \cup {Null},
           obj # Null => obj.name = name,
           nodeView' = [nodeView EXCEPT ![name] = obj],
           UNCHANGED <<podView, listed, renewed>>
    PROVE  /\ ViewsOK'
           /\ \A n \in Names : nodeView'[n] = IF n = name THEN obj ELSE nodeView[n]
  BY DEF ViewsOK

(* A deletion that was missed ends the process.                            *)
LEMMA PanicKeeps ==
    ASSUME HInv, Panic, ViewsOK'
    PROVE  HInv'
<1>1. IInv'
  BY PanicStep DEF HInv
<1>2. store' = store /\ dead' = TRUE
  BY DEF Panic
<1>3. CountedOnce(store)' /\ PortsUsed(store)'
  BY <1>2 DEF HInv, CountedOnce, PortsUsed, Charge, PortsOf
<1>4. QED
  BY <1>1, <1>2, <1>3 DEF HInv

(* Nothing but the views of one pod and its place changed.                 *)
LEMMA ObjectsKept ==
    ASSUME NodesFollow, nodeView' = nodeView,
           \A n \in AllNames : ObjectOf(store', n) = ObjectOf(store, n)
    PROVE  NodesFollow'
  BY DEF NodesFollow, AllNames

-----------------------------------------------------------------------------
(* OnPodAdd: the pod is new to the cache, counted nowhere, and its view    *)
(* becomes the node it is put on.                                          *)
LEMMA PodAddKeeps ==
    ASSUME HInv, NEW key \in PodKeys, NEW node \in AllNames, OnPodAdd(key, node)
    PROVE  HInv'
<1> DEFINE pod == Pod(key, node)
<1>1. ~dead /\ PodsFollow /\ NodesFollow
  BY DEF OnPodAdd, AddPod, ConfirmPod, AddNewPod, CanChange, Callable, HInv
<1>2. pod \in Pods /\ pod.key = key /\ pod.node = node
  BY DEF Pod, Pods
<1>3. ~Known(key) /\ \A n \in AllNames : Charge(store, n, key) = 0
  BY <1>1 DEF PodsFollow, OnPodAdd
<1>4. AddNewPod(pod)
  BY <1>2, <1>3 DEF OnPodAdd, AddPod, ConfirmPod, Assumed, Added
<1>5. IInv'
  BY <1>2, AddPodStep DEF OnPodAdd, HInv
<1>6. /\ ViewsOK'
      /\ podView'[key] = node
      /\ \A k \in PodKeys \ {key} : podView'[k] = podView[k]
  <2>1. node # Gone /\ podView[key] # Gone
    BY HandlersAssumption DEF OnPodAdd
  <2>2. QED
    BY <2>1, PodViewOK DEF OnPodAdd, HInv
<1>7. /\ store' = StoreAddPod(store, pod)
      /\ PutState(key, FreshState(pod))
      /\ UNCHANGED <<assumedPods, sweep, dead>>
  BY <1>2, <1>4 DEF AddNewPod
<1>8. StoreOK(store) /\ CountedOnce(store) /\ PortsUsed(store) /\ StatesOK
  BY DEF HInv, IInv
<1> HIDE DEF pod
<1>9. CountedOnce(store') /\ PortsUsed(store')
  BY <1>2, <1>3, <1>7, <1>8, AddKeeps
<1>10. \A n \in AllNames :
          /\ ObjectOf(store', n) = ObjectOf(store, n)
          /\ \A k \in PodKeys : Charge(store', n, k) =
                IF n = node /\ k = key THEN Charge(store, n, k) + 1 ELSE Charge(store, n, k)
  BY <1>2, <1>7, <1>8, AddCharges
<1>11. NodesFollow'
  BY <1>1, <1>10, ObjectsKept DEF OnPodAdd
<1>12. PodsFollow'
  <2>1. /\ assumedPods' = {} /\ sweep' = {} /\ listed' = listed \cup {key}
        /\ renewed' = renewed /\ key \notin renewed
    BY <1>1, <1>7 DEF PodsFollow, OnPodAdd, HInv, ViewsOK
  <2>2. /\ DOMAIN podStates' = DOMAIN podStates \cup {key}
        /\ podStates'[key] = FreshState(pod)
        /\ \A k \in DOMAIN podStates \ {key} : podStates'[k] = podStates[k]
    BY <1>7 DEF PutState
  <2>3. \A k \in listed' \ renewed' : Known(k)' /\ podStates'[k].pod = Pod(k, podView'[k])
    <3> SUFFICES ASSUME NEW k \in listed' \ renewed'
                 PROVE  k \in DOMAIN podStates' /\ podStates'[k].pod = Pod(k, podView'[k])
      BY DEF Known
    <3>1. CASE k = key
      BY <1>6, <2>2, <3>1 DEF FreshState, pod
    <3>2. CASE k # key
      <4>1. k \in listed \ renewed /\ k \in PodKeys
        BY <2>1, <3>2 DEF HInv, ViewsOK
      <4>2. k \in DOMAIN podStates /\ podStates[k].pod = Pod(k, podView[k])
        BY <1>1, <4>1 DEF PodsFollow, Known
      <4>3. QED
        BY <1>6, <2>2, <3>2, <4>1, <4>2
    <3>3. QED
      BY <3>1, <3>2
  <2>4. \A k \in PodKeys \ listed' : podView'[k] # Gone =>
           ~Known(k)' /\ \A n \in AllNames : Charge(store', n, k) = 0
    <3> SUFFICES ASSUME NEW k \in PodKeys \ listed', podView'[k] # Gone
                 PROVE  k \notin DOMAIN podStates' /\ \A n \in AllNames : Charge(store', n, k) = 0
      BY DEF Known
    <3>1. k # key /\ k \in PodKeys \ listed /\ podView[k] # Gone
      BY <1>6, <2>1
    <3>2. k \notin DOMAIN podStates /\ \A n \in AllNames : Charge(store, n, k) = 0
      BY <1>1, <3>1 DEF PodsFollow, Known
    <3>3. QED
      BY <1>10, <2>2, <3>1, <3>2
  <2>5. \A n \in Names, k \in PodKeys \ renewed' : Charge(store', n, k) > 0 =>
           k \in listed' /\ podView'[k] = n
    <3> SUFFICES ASSUME NEW n \in Names, NEW k \in PodKeys \ renewed', Charge(store', n, k) > 0
                 PROVE  k \in listed' /\ podView'[k] = n
      OBVIOUS
    <3>0. n \in AllNames
      BY DEF AllNames
    <3>1. CASE k = key
      BY <1>3, <1>6, <1>10, <2>1, <3>0, <3>1
    <3>2. CASE k # key
      <4>1. Charge(store, n, k) > 0
        BY <1>10, <3>0, <3>2
      <4>2. QED
        BY <1>1, <1>6, <2>1, <3>2, <4>1 DEF PodsFollow
    <3>3. QED
      BY <3>1, <3>2
  <2>6. \A k \in listed' \cap renewed' : ~Known(k)'
    BY <1>1, <2>1, <2>2 DEF PodsFollow, Known
  <2>7. QED
    BY <2>1, <2>3, <2>4, <2>5, <2>6 DEF PodsFollow
<1>13. QED
  BY <1>5, <1>6, <1>9, <1>11, <1>12 DEF HInv

(* OnPodUpdate, when updatePod went through: the pod is counted where its  *)
(* new object says, or, when that node is missing, stays where it was,     *)
(* which is then no named node.                                            *)
LEMMA PodUpdated ==
    ASSUME HInv, NEW key \in PodKeys \ renewed, NEW node \in AllNames, OnPodUpdate(key, node),
           podStates' = [podStates EXCEPT ![key].pod = Pod(key, node)],
           UNCHANGED <<assumedPods, sweep, tree, imageStates, snapshot, dead>>,
           \/ node \notin DOMAIN store.nodes /\ store' = store
           \/ /\ node \in DOMAIN store.nodes
              /\ RemoveOutcome(store, Pod(key, podView[key])) \in {"nil", "removed"}
              /\ store' = StoreAddPod(StoreRemovePod(store, Pod(key, podView[key])), Pod(key, node))
    PROVE  HInv'
<1> DEFINE old == Pod(key, podView[key])
           new == Pod(key, node)
           r   == StoreRemovePod(store, old)
<1>1. ~dead /\ PodsFollow /\ NodesFollow
  BY DEF OnPodUpdate, UpdatePod, CanChange, Callable, HInv
<1>2. key \in listed /\ podView[key] \in AllNames /\ (podView[key] \in Names => node = podView[key])
  BY DEF OnPodUpdate, Possible, HInv, ViewsOK
<1>3. /\ old \in Pods /\ old.key = key /\ old.node = podView[key]
      /\ new \in Pods /\ new.key = key /\ new.node = node
  BY <1>2 DEF Pod, Pods
<1>4. IInv'
  BY <1>3, UpdatePodStep DEF OnPodUpdate, HInv
<1>5. /\ ViewsOK'
      /\ podView'[key] = node
      /\ \A k \in PodKeys \ {key} : podView'[k] = podView[k]
  <2>1. node # Gone /\ podView[key] # Gone /\ listed' = listed \cup {key}
    BY <1>2, HandlersAssumption DEF OnPodUpdate
  <2>2. QED
    BY <2>1, PodViewOK DEF OnPodUpdate, HInv
<1>6. StoreOK(store) /\ CountedOnce(store) /\ PortsUsed(store) /\ StatesOK
  BY DEF HInv, IInv
<1>7. \A n \in Names : Charge(store, n, key) > 0 => podView[key] = n
  BY <1>1 DEF PodsFollow
<1> HIDE DEF old, new
(* The store. *)
<1>8. /\ CountedOnce(store') /\ PortsUsed(store')
      /\ \A n \in AllNames : ObjectOf(store', n) = ObjectOf(store, n)
      /\ \A n \in AllNames, k \in PodKeys \ {key} : Charge(store', n, k) = Charge(store, n, k)
      /\ \A n \in Names : Charge(store', n, key) > 0 => n = node
  <2>1. CASE node \notin DOMAIN store.nodes /\ store' = store
    <3>1. ASSUME NEW n \in Names, Charge(store, n, key) > 0 PROVE n = node
      BY <1>2, <1>7, <3>1
    <3>2. QED
      BY <1>6, <2>1, <3>1
  <2>2. CASE /\ node \in DOMAIN store.nodes
             /\ RemoveOutcome(store, old) \in {"nil", "removed"}
             /\ store' = StoreAddPod(r, new)
    <3>1. StoreOK(r) /\ CountedOnce(r) /\ PortsUsed(r)
      BY <1>3, <1>6, RemoveOK, RemoveKeeps
    <3>2. \A n \in AllNames : Charge(store, n, key) > 0 => n = podView[key]
      <4> SUFFICES ASSUME NEW n \in AllNames, Charge(store, n, key) > 0
                   PROVE  n = podView[key]
        OBVIOUS
      <4>1. CASE n \in Names
        BY <1>7, <4>1
      <4>2. CASE n = NoNode /\ podView[key] # NoNode
        <5>1. podView[key] = node /\ podView[key] \in DOMAIN store.nodes
          BY <1>2, <2>2, <4>2 DEF AllNames
        <5>2. RemoveOutcome(store, old) = "removed"
          BY <1>3, <2>2, <5>1 DEF RemoveOutcome
        <5>3. Charge(store, podView[key], key) > 0
          BY <1>3, <5>1, <5>2 DEF RemoveOutcome, Charge, InfoOf
        <5>4. QED
          BY <1>2, <1>6, <4>2, <5>3 DEF CountedOnce
      <4>3. QED
        BY <4>1, <4>2 DEF AllNames
    <3>3. \A n \in AllNames : Charge(r, n, key) = 0
      BY <1>3, <1>6, <3>2, RemoveClears
    <3>4. CountedOnce(store') /\ PortsUsed(store')
      BY <1>3, <2>2, <3>1, <3>3, AddKeeps
    <3>5. \A n \in AllNames :
             /\ ObjectOf(store', n) = ObjectOf(r, n)
             /\ \A k \in PodKeys : Charge(store', n, k) =
                   IF n = node /\ k = key THEN Charge(r, n, k) + 1 ELSE Charge(r, n, k)
      BY <1>3, <2>2, <3>1, AddCharges
    <3>6. \A n \in AllNames :
             /\ ObjectOf(r, n) = ObjectOf(store, n)
             /\ \A k \in PodKeys \ {key} : Charge(r, n, k) = Charge(store, n, k)
      BY <1>3, <1>6, RemoveCharges
    <3>7. \A n \in Names : Charge(store', n, key) > 0 => n = node
      BY <3>3, <3>5 DEF AllNames
    <3> HIDE DEF r
    <3>8. QED
      BY <3>4, <3>5, <3>6, <3>7
  <2>3. QED
    BY <2>1, <2>2 DEF old, new
<1>9. NodesFollow'
  BY <1>1, <1>8, ObjectsKept DEF OnPodUpdate
<1>10. PodsFollow'
  <2>1. assumedPods' = {} /\ sweep' = {} /\ listed' = listed /\ renewed' = renewed
    BY <1>1 DEF PodsFollow, OnPodUpdate
  <2>2. key \in DOMAIN podStates /\ podStates[key] \in PodStates
    BY <1>1, <1>2, <1>6 DEF PodsFollow, Known, StatesOK
  <2>3. /\ DOMAIN podStates' = DOMAIN podStates
        /\ podStates'[key].pod = new
        /\ \A k \in DOMAIN podStates \ {key} : podStates'[k] = podStates[k]
    BY <2>2 DEF PodStates, new
  <2>4. \A k \in listed' \ renewed' : Known(k)' /\ podStates'[k].pod = Pod(k, podView'[k])
    <3> SUFFICES ASSUME NEW k \in listed \ renewed
                 PROVE  k \in DOMAIN podStates' /\ podStates'[k].pod = Pod(k, podView'[k])
      BY <2>1 DEF Known
    <3>1. CASE k = key
      BY <1>5, <2>2, <2>3, <3>1 DEF new
    <3>2. CASE k # key
      <4>1. k \in DOMAIN podStates /\ podStates[k].pod = Pod(k, podView[k]) /\ k \in PodKeys
        BY <1>1 DEF PodsFollow, Known, HInv, ViewsOK
      <4>2. QED
        BY <1>5, <2>3, <3>2, <4>1
    <3>3. QED
      BY <3>1, <3>2
  <2>5. \A k \in PodKeys \ listed' : podView'[k] # Gone =>
           ~Known(k)' /\ \A n \in AllNames : Charge(store', n, k) = 0
    <3> SUFFICES ASSUME NEW k \in PodKeys \ listed, podView'[k] # Gone
                 PROVE  k \notin DOMAIN podStates' /\ \A n \in AllNames : Charge(store', n, k) = 0
      BY <2>1 DEF Known
    <3>1. k # key /\ podView[k] # Gone
      BY <1>2, <1>5
    <3>2. k \notin DOMAIN podStates /\ \A n \in AllNames : Charge(store, n, k) = 0
      BY <1>1, <3>1 DEF PodsFollow, Known
    <3>3. QED
      BY <1>8, <2>3, <3>1, <3>2
  <2>6. \A n \in Names, k \in PodKeys \ renewed' : Charge(store', n, k) > 0 =>
           k \in listed' /\ podView'[k] = n
    <3> SUFFICES ASSUME NEW n \in Names, NEW k \in PodKeys \ renewed, Charge(store', n, k) > 0
                 PROVE  k \in listed /\ podView'[k] = n
      BY <2>1
    <3>1. CASE k = key
      BY <1>2, <1>5, <1>8, <3>1
    <3>2. CASE k # key
      <4>1. Charge(store, n, k) > 0
        BY <1>8, <3>2 DEF AllNames
      <4>2. QED
        BY <1>1, <1>5, <3>2, <4>1 DEF PodsFollow
    <3>3. QED
      BY <3>1, <3>2
  <2>7. \A k \in listed' \cap renewed' : ~Known(k)'
    BY <1>1, <2>1, <2>3 DEF PodsFollow, Known
  <2>8. QED
    BY <2>1, <2>4, <2>5, <2>6, <2>7 DEF PodsFollow
<1>11. QED
  BY <1>4, <1>5, <1>8, <1>9, <1>10 DEF HInv

(* OnPodUpdate: when updatePod fails, the object it got is the one it has. *)
LEMMA PodUpdateKeeps ==
    ASSUME HInv, NEW key \in PodKeys \ renewed, NEW node \in AllNames, OnPodUpdate(key, node)
    PROVE  HInv'
<1> DEFINE old == Pod(key, podView[key])
           new == Pod(key, node)
<1>1. ~dead /\ PodsFollow /\ NodesFollow
  BY DEF OnPodUpdate, UpdatePod, CanChange, Callable, HInv
<1>2. key \in listed /\ podView[key] \in AllNames /\ (podView[key] \in Names => node = podView[key])
  BY DEF OnPodUpdate, Possible, HInv, ViewsOK
<1>3. old.key = key /\ old.node = podView[key] /\ new.key = key /\ new.node = node
  BY DEF Pod
<1>4. Added(key)
  BY <1>1, <1>2 DEF PodsFollow, Added
<1>5. UpdatePod(old, new)
  BY DEF OnPodUpdate
<1> HIDE DEF old, new
<1>6. CASE Panic
  <2>1. node # Gone /\ podView[key] # Gone /\ listed' = listed \cup {key}
    BY <1>2, HandlersAssumption DEF OnPodUpdate
  <2>2. ViewsOK'
    BY <2>1, PodViewOK DEF OnPodUpdate, HInv
  <2>3. QED
    BY <1>6, <2>2, PanicKeeps
<1>7. CASE Refused /\ node \in DOMAIN store.nodes /\ RemoveOutcome(store, old) = "error"
  <2>1. podView[key] \in DOMAIN store.nodes /\ store.nodes[podView[key]].obj # Null
    BY <1>3, <1>7 DEF RemoveOutcome
  <2>2. podView[key] # NoNode
    BY <1>1, <2>1 DEF NodesFollow, ObjectOf, InfoOf
  <2>3. node = podView[key]
    BY <1>2, <2>2 DEF AllNames
  <2>4. podView' = podView
    BY <2>3 DEF OnPodUpdate, HInv, ViewsOK
  <2>5. UNCHANGED allVars
    BY <1>7, <2>4 DEF OnPodUpdate, Refused, allVars, views
  <2>6. IInv'
    BY <1>7, StutterStep DEF HInv, Refused
  <2>7. QED
    BY <2>5, <2>6 DEF HInv, ViewsOK, PodsFollow, NodesFollow, CountedOnce, PortsUsed,
       Charge, ObjectOf, PortsOf, Known, allVars, views, vars
<1>8. CASE /\ podStates' = [podStates EXCEPT ![key].pod = new]
           /\ UNCHANGED <<assumedPods, sweep, tree, imageStates, snapshot, dead>>
           /\ \/ node \notin DOMAIN store.nodes /\ store' = store
              \/ /\ node \in DOMAIN store.nodes
                 /\ RemoveOutcome(store, old) \in {"nil", "removed"}
                 /\ store' = StoreAddPod(StoreRemovePod(store, old), new)
  BY <1>8, PodUpdated DEF old, new
<1>9. QED
  BY <1>3, <1>4, <1>5, <1>6, <1>7, <1>8 DEF UpdatePod

(* OnPodDelete: removePod never meets a cached object on another node, and *)
(* an error of it means that the pod was counted on no named node.         *)
LEMMA PodDeleteKeeps ==
    ASSUME HInv, NEW key \in PodKeys \ renewed, OnPodDelete(key)
    PROVE  HInv'
<1> DEFINE pod == Pod(key, podView[key])
<1>1. ~dead /\ PodsFollow /\ NodesFollow
  BY DEF OnPodDelete, RemovePod, CanChange, Callable, HInv
<1>2. key \in listed /\ podView[key] \in AllNames
  BY DEF OnPodDelete, HInv, ViewsOK
<1>3. pod \in Pods /\ pod.key = key /\ pod.node = podView[key]
  BY <1>2 DEF Pod, Pods
<1>4. Added(key) /\ podStates[key].pod = pod
  BY <1>1, <1>2 DEF PodsFollow, Added
<1>5. RemovePod(pod)
  BY DEF OnPodDelete
<1>6. IInv'
  BY <1>3, <1>5, RemovePodStep DEF HInv
<1>7. /\ ViewsOK'
      /\ podView'[key] = Gone
      /\ \A k \in PodKeys \ {key} : podView'[k] = podView[k]
  <2>1. listed' = listed \ {key} /\ podView[key] # Gone
    BY <1>2, HandlersAssumption DEF OnPodDelete
  <2>2. QED
    BY <2>1, PodViewOK DEF OnPodDelete, HInv
<1>8. StoreOK(store) /\ CountedOnce(store) /\ PortsUsed(store) /\ StatesOK
  BY DEF HInv, IInv
<1>9. \A n \in Names : Charge(store, n, key) > 0 => podView[key] = n
  BY <1>1 DEF PodsFollow
<1> HIDE DEF pod
<1>10. CASE Panic
  BY <1>7, <1>10, PanicKeeps
<1>11. CASE ~Panic
  <2>1. \/ /\ store' = StoreRemovePod(store, pod)
           /\ DropState(key)
           /\ UNCHANGED <<assumedPods, sweep, dead>>
           /\ RemoveOutcome(store, pod) \in {"nil", "removed"}
        \/ RemoveOutcome(store, pod) = "error" /\ UNCHANGED vars
    BY <1>3, <1>4, <1>5, <1>11 DEF RemovePod, Refused
  <2>2. StoreRemovePod(store, pod) = store \/ RemoveOutcome(store, pod) = "removed"
    BY DEF StoreRemovePod
  <2>3. store' = StoreRemovePod(store, pod)
    BY <2>1, <2>2 DEF vars
  <2>4. CountedOnce(store') /\ PortsUsed(store')
    BY <1>3, <1>8, <2>3, RemoveKeeps
  <2>5. \A n \in AllNames :
           /\ ObjectOf(store', n) = ObjectOf(store, n)
           /\ \A k \in PodKeys : Charge(store', n, k) =
                 IF (n = podView[key] /\ Charge(store, n, key) > 0) /\ k = key
                 THEN Charge(store, n, k) - 1 ELSE Charge(store, n, k)
    BY <1>3, <1>8, <2>3, RemoveCharges
  <2>6. \A n \in AllNames : Charge(store, n, key) \in Nat /\ Charge(store, n, key) <= 1
    BY <1>8, ChargeType DEF CountedOnce
  <2>7. NodesFollow'
    BY <1>1, <2>5, ObjectsKept DEF OnPodDelete
  <2>8. PodsFollow'
    <3>1. assumedPods' = {} /\ sweep' = {} /\ listed' = listed \ {key} /\ renewed' = renewed
      BY <1>1, <2>1 DEF PodsFollow, OnPodDelete, vars
    <3>2. \A k \in PodKeys \ {key} :
             /\ k \in DOMAIN podStates' <=> k \in DOMAIN podStates
             /\ k \in DOMAIN podStates => podStates'[k] = podStates[k]
      BY <2>1 DEF DropState, Restrict, vars
    <3>3. \A k \in listed' \ renewed' : Known(k)' /\ podStates'[k].pod = Pod(k, podView'[k])
      <4> SUFFICES ASSUME NEW k \in listed' \ renewed'
                   PROVE  k \in DOMAIN podStates' /\ podStates'[k].pod = Pod(k, podView'[k])
        BY DEF Known
      <4>1. k \in listed \ renewed /\ k # key /\ k \in PodKeys
        BY <3>1 DEF HInv, ViewsOK
      <4>2. k \in DOMAIN podStates /\ podStates[k].pod = Pod(k, podView[k])
        BY <1>1, <4>1 DEF PodsFollow, Known
      <4>3. QED
        BY <1>7, <3>2, <4>1, <4>2
    <3>4. \A k \in PodKeys \ listed' : podView'[k] # Gone =>
             ~Known(k)' /\ \A n \in AllNames : Charge(store', n, k) = 0
      <4> SUFFICES ASSUME NEW k \in PodKeys \ listed', podView'[k] # Gone
                   PROVE  /\ k \notin DOMAIN podStates'
                          /\ \A n \in AllNames : Charge(store', n, k) = 0
        BY DEF Known
      <4>1. k # key /\ k \in PodKeys \ listed /\ podView[k] # Gone
        BY <1>7, <3>1
      <4>2. k \notin DOMAIN podStates /\ \A n \in AllNames : Charge(store, n, k) = 0
        BY <1>1, <4>1 DEF PodsFollow, Known
      <4>3. QED
        BY <2>5, <3>2, <4>1, <4>2
    <3>5. \A n \in Names, k \in PodKeys \ renewed' : Charge(store', n, k) > 0 =>
             k \in listed' /\ podView'[k] = n
      <4> SUFFICES ASSUME NEW n \in Names, NEW k \in PodKeys \ renewed', Charge(store', n, k) > 0
                   PROVE  k \in listed' /\ podView'[k] = n
        OBVIOUS
      <4>0. n \in AllNames
        BY DEF AllNames
      <4>1. k # key
        BY <1>9, <2>5, <2>6, <4>0
      <4>2. Charge(store, n, k) > 0
        BY <2>5, <4>0, <4>1
      <4>3. QED
        BY <1>1, <1>7, <3>1, <4>1, <4>2 DEF PodsFollow
    <3>6. \A k \in listed' \cap renewed' : ~Known(k)'
      <4>1. \A k \in listed \cap renewed : k # key /\ k \in PodKeys
        BY DEF HInv, ViewsOK
      <4>2. QED
        BY <1>1, <3>1, <3>2, <4>1 DEF PodsFollow, Known
    <3>7. QED
      BY <3>1, <3>3, <3>4, <3>5, <3>6 DEF PodsFollow
  <2>9. QED
    BY <1>6, <1>7, <2>4, <2>7, <2>8 DEF HInv
<1>12. QED
  BY <1>10, <1>11

-----------------------------------------------------------------------------
(* Pods that came with an update from another UID have no state: whatever  *)
(* changes of them and only of them, the rest follows as before.           *)
LEMMA OthersFollow ==
    ASSUME PodsFollow, ViewsOK, ViewsOK',
           UNCHANGED <<assumedPods, sweep>>,
           renewed \subseteq renewed',
           \A k \in PodKeys \ renewed' :
               /\ podView'[k] = podView[k] /\ (k \in listed' <=> k \in listed)
               /\ Known(k)' <=> Known(k)
               /\ Known(k) => podStates'[k] = podStates[k]
               /\ \A n \in AllNames : Charge(store', n, k) = Charge(store, n, k),
           \A k \in listed' \cap renewed' : ~Known(k)'
    PROVE  PodsFollow'
<1>0. listed \subseteq PodKeys /\ listed' \subseteq PodKeys
  BY DEF ViewsOK
<1>1. \A k \in listed' \ renewed' : Known(k)' /\ podStates'[k].pod = Pod(k, podView'[k])
  BY <1>0 DEF PodsFollow
<1>2. \A k \in PodKeys \ listed' : podView'[k] # Gone =>
         ~Known(k)' /\ \A n \in AllNames : Charge(store', n, k) = 0
  <2> SUFFICES ASSUME NEW k \in PodKeys \ listed', podView'[k] # Gone
               PROVE  ~Known(k)' /\ \A n \in AllNames : Charge(store', n, k) = 0
    OBVIOUS
  <2>1. k \notin renewed'
    BY DEF ViewsOK
  <2>2. k \notin listed /\ podView[k] # Gone
    BY <2>1
  <2>3. ~Known(k) /\ \A n \in AllNames : Charge(store, n, k) = 0
    BY <2>2 DEF PodsFollow
  <2>4. QED
    BY <2>1, <2>3
<1>3. \A n \in Names, k \in PodKeys \ renewed' :
         Charge(store', n, k) > 0 => k \in listed' /\ podView'[k] = n
  BY DEF PodsFollow, AllNames
<1>4. QED
  BY <1>1, <1>2, <1>3 DEF PodsFollow

(* OnPodUpdate and OnPodDelete of such a pod: UpdatePod and RemovePod find *)
(* no state and refuse.                                                    *)
LEMMA RefusedKeeps ==
    ASSUME HInv, ~dead, UNCHANGED vars, ViewsOK', nodeView' = nodeView,
           renewed \subseteq renewed',
           \A k \in PodKeys \ renewed' :
               podView'[k] = podView[k] /\ (k \in listed' <=> k \in listed),
           \A k \in listed' \cap renewed' : ~Known(k)
    PROVE  HInv'
<1>1. IInv'
  BY StutterStep DEF HInv
<1>2. PodsFollow /\ NodesFollow /\ ViewsOK
  BY DEF HInv
<1>3. UNCHANGED <<store, podStates, assumedPods, sweep, dead>>
  BY DEF vars
<1>4. (\A k : Known(k)' <=> Known(k)) /\ CountedOnce(store)' /\ PortsUsed(store)'
  BY <1>3 DEF HInv, Known, CountedOnce, PortsUsed, Charge, PortsOf
<1>5. PodsFollow'
  BY <1>2, <1>3, <1>4, OthersFollow
<1>6. NodesFollow'
  BY <1>2, <1>3 DEF NodesFollow
<1>7. QED
  BY <1>1, <1>4, <1>5, <1>6 DEF HInv

LEMMA RenewedUpdateKeeps ==
    ASSUME HInv, NEW key \in renewed, NEW node \in AllNames, OnPodUpdate(key, node)
    PROVE  HInv'
<1>1. key \in listed /\ key \in PodKeys /\ podView[key] \in AllNames /\ ~dead
  BY DEF OnPodUpdate, HInv, ViewsOK, UpdatePod, CanChange, Callable
<1>2. PodsFollow
  BY <1>1 DEF HInv
<1>3. ~Added(key)
  BY <1>1, <1>2 DEF PodsFollow, Added
<1>4. UNCHANGED vars
  BY <1>3 DEF OnPodUpdate, UpdatePod, Pod, Refused
<1>5. node # Gone /\ podView[key] # Gone /\ listed' = listed \cup {key}
  BY <1>1, HandlersAssumption DEF OnPodUpdate
<1>6. ViewsOK' /\ \A k \in PodKeys \ {key} : podView'[k] = podView[k]
  BY <1>1, <1>5, PodViewOK DEF OnPodUpdate, HInv
<1>7. nodeView' = nodeView /\ listed' = listed /\ renewed' = renewed
  BY DEF OnPodUpdate
<1>8. \A k \in listed' \cap renewed' : ~Known(k)
  BY <1>2, <1>7 DEF PodsFollow
<1>9. QED
  BY <1>1, <1>4, <1>6, <1>7, <1>8, RefusedKeeps

LEMMA RenewedDeleteKeeps ==
    ASSUME HInv, NEW key \in renewed, OnPodDelete(key)
    PROVE  HInv'
<1>1. key \in listed /\ key \in PodKeys /\ podView[key] \in AllNames /\ ~dead
  BY DEF OnPodDelete, HInv, ViewsOK, RemovePod, CanChange, Callable
<1>2. PodsFollow
  BY <1>1 DEF HInv
<1>3. ~Added(key)
  BY <1>1, <1>2 DEF PodsFollow, Added
<1>4. UNCHANGED vars
  BY <1>3 DEF OnPodDelete, RemovePod, Pod, Refused
<1>5. podView[key] # Gone /\ listed' = listed \ {key}
  BY <1>1, HandlersAssumption DEF OnPodDelete
<1>6. ViewsOK' /\ \A k \in PodKeys \ {key} : podView'[k] = podView[k]
  BY <1>1, <1>5, PodViewOK DEF OnPodDelete, HInv
<1>7. nodeView' = nodeView /\ renewed' = renewed
  BY DEF OnPodDelete
<1>8. \A k \in listed' \cap renewed' : ~Known(k)
  BY <1>2, <1>5, <1>7 DEF PodsFollow
<1>9. QED
  BY <1>1, <1>4, <1>5, <1>6, <1>7, <1>8, RefusedKeeps

(* OnPodRenewed: the new UID was counted nowhere and stays without a state;*)
(* whether the old one is still counted no longer matters.                 *)
LEMMA PodRenewedKeeps ==
    ASSUME HInv, NEW old \in PodKeys, NEW new \in PodKeys, NEW node \in AllNames,
           OnPodRenewed(old, new, node)
    PROVE  HInv'
<1> DEFINE was == Pod(old, podView[old])
           is  == Pod(new, node)
           r   == StoreRemovePod(store, was)
<1>1. ~dead /\ PodsFollow /\ NodesFollow /\ ViewsOK
  BY DEF OnPodRenewed, UpdatePod, CanChange, Callable, HInv
<1>2. /\ old \in listed /\ podView[old] \in AllNames
      /\ podView[new] = Unseen
      /\ Unseen # Gone /\ Unseen \notin AllNames /\ Gone \notin AllNames
  BY HandlersAssumption DEF OnPodRenewed, HInv, ViewsOK
<1>3. old # new /\ new \notin listed
  BY <1>1, <1>2 DEF ViewsOK
<1>4. /\ was \in Pods /\ was.key = old /\ was.node = podView[old]
      /\ is \in Pods /\ is.key = new /\ is.node = node
  BY <1>2 DEF Pod, Pods
<1>5. UpdatePod(was, is)
  BY DEF OnPodRenewed
<1>6. ~Known(new) /\ \A n \in AllNames : Charge(store, n, new) = 0
  BY <1>1, <1>2, <1>3 DEF PodsFollow
<1>7. /\ podView'[old] = Gone /\ podView'[new] = node
      /\ \A k \in PodKeys \ {old, new} : podView'[k] = podView[k]
      /\ listed' = (listed \ {old}) \cup {new}
      /\ renewed' = renewed \cup {old, new}
      /\ nodeView' = nodeView
  BY <1>1, <1>3 DEF OnPodRenewed, ViewsOK
<1>8. ViewsOK'
  <2>1. podView' \in [PodKeys -> AllNames \cup {Unseen, Gone}]
    BY <1>1 DEF OnPodRenewed, ViewsOK
  <2>2. listed' \subseteq {k \in PodKeys : podView'[k] \in AllNames}
    BY <1>1, <1>7 DEF ViewsOK
  <2>3. renewed' \subseteq listed' \cup {k \in PodKeys : podView'[k] = Gone}
    BY <1>1, <1>2, <1>3, <1>7 DEF ViewsOK
  <2>4. QED
    BY <1>1, <1>7, <2>1, <2>2, <2>3 DEF ViewsOK
<1>9. /\ renewed \subseteq renewed'
      /\ \A k \in PodKeys \ renewed' :
            podView'[k] = podView[k] /\ (k \in listed' <=> k \in listed)
  BY <1>7
<1>10. \A k \in listed' \cap renewed' : ~Known(k)
  BY <1>1, <1>6, <1>7 DEF PodsFollow
<1> HIDE DEF was, is
<1>11. CASE Panic
  BY <1>8, <1>11, PanicKeeps
<1>12. CASE Refused
  <2>1. UNCHANGED vars
    BY <1>12 DEF Refused
  <2>2. QED
    BY <1>1, <1>7, <1>8, <1>9, <1>10, <2>1, RefusedKeeps
<1>13. CASE ~Panic /\ ~Refused
  <2>1. /\ Added(old) /\ podStates' = [podStates EXCEPT ![old].pod = is]
        /\ UNCHANGED <<assumedPods, sweep>>
        /\ store' = store \/ store' = StoreAddPod(r, is)
    BY <1>4, <1>5, <1>13 DEF UpdatePod
  <2>2. StoreOK(store) /\ CountedOnce(store) /\ PortsUsed(store)
    BY DEF HInv, IInv
  <2>3. /\ CountedOnce(store') /\ PortsUsed(store')
        /\ \A n \in AllNames : ObjectOf(store', n) = ObjectOf(store, n)
        /\ \A n \in AllNames, k \in PodKeys \ {old, new} :
               Charge(store', n, k) = Charge(store, n, k)
    <3>1. StoreOK(r) /\ CountedOnce(r) /\ PortsUsed(r)
      BY <1>4, <2>2, RemoveOK, RemoveKeeps
    <3>2. \A n \in AllNames :
             /\ ObjectOf(r, n) = ObjectOf(store, n)
             /\ \A k \in PodKeys \ {old} : Charge(r, n, k) = Charge(store, n, k)
      BY <1>4, <2>2, RemoveCharges
    <3>3. \A n \in AllNames : Charge(r, n, new) = 0
      BY <1>3, <1>6, <3>2
    <3> HIDE DEF r
    <3>4. CASE store' = StoreAddPod(r, is)
      <4>1. CountedOnce(store') /\ PortsUsed(store')
        BY <1>4, <3>1, <3>3, <3>4, AddKeeps
      <4>2. \A n \in AllNames :
               /\ ObjectOf(store', n) = ObjectOf(r, n)
               /\ \A k \in PodKeys \ {new} : Charge(store', n, k) = Charge(r, n, k)
        BY <1>4, <3>1, <3>4, AddCharges
      <4>3. QED
        BY <3>2, <4>1, <4>2
    <3>5. QED
      BY <2>1, <2>2, <3>4
  <2>4. NodesFollow'
    BY <1>1, <1>7, <2>3, ObjectsKept
  <2>5. /\ \A k : Known(k)' <=> Known(k)
        /\ \A k \in PodKeys \ {old} : Known(k) => podStates'[k] = podStates[k]
    BY <2>1 DEF Known
  <2>6. PodsFollow'
    BY <1>1, <1>7, <1>8, <1>9, <1>10, <2>1, <2>3, <2>5, OthersFollow
  <2>7. IInv'
    BY <1>4, <1>5, UpdatePodStep DEF HInv
  <2>8. QED
    BY <1>8, <2>3, <2>4, <2>6, <2>7 DEF HInv
<1>14. QED
  BY <1>11, <1>12, <1>13

-----------------------------------------------------------------------------
(* A node is given an object: OnNodeAdd and OnNodeUpdate.                  *)
LEMMA NodeSetKeeps ==
    ASSUME HInv, IInv', ~dead, NEW obj \in Objects, NEW summary,
           store' = StoreSetNode(store, obj, summary),
           nodeView' = [nodeView EXCEPT ![obj.name] = obj],
           UNCHANGED <<podStates, assumedPods, sweep, podView, listed, renewed>>
    PROVE  HInv'
<1>1. StoreOK(store) /\ CountedOnce(store) /\ PortsUsed(store) /\ PodsFollow /\ NodesFollow
  BY DEF HInv, IInv
<1>2. CountedOnce(store') /\ PortsUsed(store')
  BY <1>1, SetNodeKeeps
<1>3. obj.name \in Names
  BY DEF Objects
<1>4. ViewsOK' /\ \A n \in Names : nodeView'[n] = IF n = obj.name THEN obj ELSE nodeView[n]
  BY <1>3, NodeViewOK DEF HInv
<1>5. \A n \in AllNames :
         /\ \A k \in PodKeys : Charge(store', n, k) = Charge(store, n, k)
         /\ ObjectOf(store', n) = IF n = obj.name THEN obj ELSE ObjectOf(store, n)
  BY <1>1, SetNodeCharges
<1>6. NodesFollow'
  <2>1. obj.name # NoNode
    BY <1>3, CacheAssumption
  <2>2. QED
    BY <1>1, <1>4, <1>5, <2>1 DEF NodesFollow, AllNames
<1>7. PodsFollow'
  BY <1>1, <1>5 DEF PodsFollow, Known, AllNames
<1>8. QED
  BY <1>2, <1>4, <1>6, <1>7 DEF HInv

(* A node is taken off: what was counted on it is counted nowhere.         *)
LEMMA NodeUnlinkKeeps ==
    ASSUME HInv, IInv', ~dead, NEW name \in Names,
           store' = Unlink(store, name),
           nodeView' = [nodeView EXCEPT ![name] = Null],
           UNCHANGED <<podStates, assumedPods, sweep, podView, listed, renewed>>
    PROVE  HInv'
<1>1. StoreOK(store) /\ CountedOnce(store) /\ PortsUsed(store) /\ PodsFollow /\ NodesFollow
  BY DEF HInv, IInv
<1>2. CountedOnce(store') /\ PortsUsed(store')
  BY <1>1, UnlinkKeeps
<1>3. ViewsOK' /\ \A n \in Names : nodeView'[n] = IF n = name THEN Null ELSE nodeView[n]
  BY NodeViewOK DEF HInv
<1>4. ASSUME NEW n
      PROVE  /\ \A k \in PodKeys : Charge(store', n, k) = IF n = name THEN 0
                                                          ELSE Charge(store, n, k)
             /\ PortsOf(store', n) = IF n = name THEN {} ELSE PortsOf(store, n)
             /\ ObjectOf(store', n) = IF n = name THEN Null ELSE ObjectOf(store, n)
  BY UnlinkCharges
<1>5. NodesFollow'
  BY <1>1, <1>3, <1>4 DEF NodesFollow
<1>6. \A n \in AllNames, k \in PodKeys :
         /\ Charge(store', n, k) > 0 => Charge(store, n, k) > 0
         /\ Charge(store, n, k) = 0 => Charge(store', n, k) = 0
  BY <1>4
<1>7. PodsFollow'
  BY <1>1, <1>6 DEF PodsFollow, Known, AllNames
<1>8. QED
  BY <1>2, <1>3, <1>5, <1>7 DEF HInv

LEMMA NodeAddKeeps ==
    ASSUME HInv, NEW obj \in Objects, OnNodeAdd(obj)
    PROVE  HInv'
<1>1. IInv'
  BY AddNodeStep DEF OnNodeAdd, HInv
<1>2. ~dead
  BY DEF OnNodeAdd, AddNode, CanChange, Callable
<1>3. QED
  BY <1>1, <1>2, NodeSetKeeps DEF OnNodeAdd, AddNode

LEMMA NodeUpdateKeeps ==
    ASSUME HInv, NEW obj \in Objects, OnNodeUpdate(obj)
    PROVE  HInv'
<1>1. nodeView[obj.name] \in Objects /\ nodeView[obj.name].name = obj.name
  BY DEF OnNodeUpdate, HInv, ViewsOK, Objects
<1>2. IInv'
  BY <1>1, UpdateNodeStep DEF OnNodeUpdate, HInv
<1>3. ~dead
  BY DEF OnNodeUpdate, UpdateNode, CanChange, Callable
<1>4. QED
  BY <1>2, <1>3, NodeSetKeeps DEF OnNodeUpdate, UpdateNode

LEMMA NodeDeleteKeeps ==
    ASSUME HInv, NEW name \in Names, OnNodeDelete(name)
    PROVE  HInv'
<1>1. nodeView[name] \in Objects /\ nodeView[name].name = name
  BY DEF OnNodeDelete, HInv, ViewsOK
<1>2. IInv'
  BY <1>1, RemoveNodeStep DEF OnNodeDelete, HInv
<1>3. ~dead
  BY DEF OnNodeDelete, RemoveNode, CanChange, Callable
<1>4. ObjectOf(store, name) # Null
  BY <1>3 DEF OnNodeDelete, HInv, NodesFollow
<1>5. name \in DOMAIN store.nodes
  BY <1>4 DEF ObjectOf, InfoOf, NewNodeInfo
<1>6. store' = Unlink(store, name) /\ UNCHANGED <<podStates, assumedPods, sweep>>
  BY <1>1, <1>5 DEF OnNodeDelete, RemoveNode
<1>7. QED
  BY <1>2, <1>3, <1>6, NodeUnlinkKeeps DEF OnNodeDelete

(* A deletion found out by relisting: a panic.                             *)
LEMMA PodMissedKeeps ==
    ASSUME HInv, NEW key \in PodKeys, OnPodDeleteMissed(key)
    PROVE  HInv'
<1>1. listed' = listed \ {key} /\ podView[key] # Gone
  BY HandlersAssumption DEF OnPodDeleteMissed, HInv, ViewsOK
<1>2. ViewsOK'
  BY <1>1, PodViewOK DEF OnPodDeleteMissed, HInv
<1>3. QED
  BY <1>2, PanicKeeps DEF OnPodDeleteMissed

LEMMA NodeMissedKeeps ==
    ASSUME HInv, NEW name \in Names, OnNodeDeleteMissed(name)
    PROVE  HInv'
<1>1. ViewsOK'
  BY NodeViewOK DEF OnNodeDeleteMissed, HInv
<1>2. QED
  BY <1>1, PanicKeeps DEF OnNodeDeleteMissed

-----------------------------------------------------------------------------
LEMMA SnapshotKeeps ==
    ASSUME HInv, Snapshot
    PROVE  HInv'
<1>1. IInv'
  BY UpdateSnapshotStep DEF Snapshot, HInv
<1>2. UNCHANGED <<store, podStates, assumedPods, sweep, dead, podView, nodeView, listed, renewed>>
  BY DEF Snapshot, UpdateSnapshot, views
<1>3. QED
  BY <1>1, <1>2 DEF HInv, ViewsOK, PodsFollow, NodesFollow, CountedOnce, PortsUsed,
     Charge, ObjectOf, PortsOf, Known

(* An empty store counts nothing.                                          *)
LEMMA EmptyStore ==
    ASSUME NEW s, s.nodes = [n \in {} |-> Null]
    PROVE  /\ CountedOnce(s) /\ PortsUsed(s)
           /\ \A n : ObjectOf(s, n) = Null /\ \A k \in PodKeys : Charge(s, n, k) = 0
<1>1. \A n : InfoOf(s, n) = NewNodeInfo
  BY DEF InfoOf
<1>2. \A n : /\ ObjectOf(s, n) = Null
             /\ PortsOf(s, n) = {}
             /\ \A k \in PodKeys : Charge(s, n, k) = 0
  BY <1>1 DEF ObjectOf, PortsOf, Charge, NewNodeInfo
<1>3. QED
  BY <1>2 DEF CountedOnce, PortsUsed

(* A new process: an empty cache, and nothing delivered to it yet.         *)
NewProcess ==
    /\ Init
    /\ nodeView = [n \in Names |-> Null]
    /\ listed = {} /\ renewed = {}
    /\ podView \in [PodKeys -> AllNames \cup {Unseen, Gone}]

LEMMA FreshProcess == NewProcess => HInv
<1> SUFFICES ASSUME NewProcess
             PROVE  HInv
  OBVIOUS
<1> USE DEF NewProcess
<1>1. store.nodes = [n \in {} |-> Null]
  BY DEF Init
<1>2. /\ CountedOnce(store) /\ PortsUsed(store)
      /\ \A n : ObjectOf(store, n) = Null /\ \A k \in PodKeys : Charge(store, n, k) = 0
  BY <1>1, EmptyStore
<1>3. ViewsOK
  BY DEF ViewsOK
<1>4. NodesFollow
  BY <1>2 DEF NodesFollow
<1>5. PodsFollow
  BY <1>2 DEF PodsFollow, Known, Init, AllNames
<1>6. QED
  BY <1>2, <1>3, <1>4, <1>5, InitOK DEF HInv

LEMMA RestartKeeps ==
    ASSUME HInv, Restart
    PROVE  HInv'
<1>1. NewProcess'
  BY DEF Restart, Init, HInv, ViewsOK, NewProcess
<1>2. QED
  BY <1>1, FreshProcess, PTL

LEMMA HandlersInitOK == HandlersInit => HInv
<1> SUFFICES ASSUME HandlersInit
             PROVE  HInv
  OBVIOUS
<1>1. NewProcess
  BY DEF HandlersInit, NewProcess
<1>2. QED
  BY <1>1, FreshProcess

LEMMA HandlersNextOK == HInv /\ [HandlersNext]_allVars => HInv'
<1> SUFFICES ASSUME HInv, [HandlersNext]_allVars
             PROVE  HInv'
  OBVIOUS
<1>1. ASSUME NEW key \in PodKeys, NEW node \in AllNames,
             OnPodAdd(key, node) \/ OnPodUpdate(key, node)
      PROVE  HInv'
  BY <1>1, PodAddKeeps, PodUpdateKeeps, RenewedUpdateKeeps
<1>2. ASSUME NEW key \in PodKeys, OnPodDelete(key) \/ OnPodDeleteMissed(key)
      PROVE  HInv'
  BY <1>2, PodDeleteKeeps, RenewedDeleteKeeps, PodMissedKeeps
<1>3. ASSUME NEW obj \in Objects, OnNodeAdd(obj) \/ OnNodeUpdate(obj)
      PROVE  HInv'
  BY <1>3, NodeAddKeeps, NodeUpdateKeeps
<1>4. ASSUME NEW name \in Names, OnNodeDelete(name) \/ OnNodeDeleteMissed(name)
      PROVE  HInv'
  BY <1>4, NodeDeleteKeeps, NodeMissedKeeps
<1>5. CASE Snapshot
  BY <1>5, SnapshotKeeps
<1>6. CASE Restart
  BY <1>6, RestartKeeps
<1>7. CASE UNCHANGED allVars
  <2>1. IInv'
    BY <1>7, StutterStep DEF HInv, allVars
  <2>2. QED
    BY <1>7, <2>1 DEF HInv, ViewsOK, PodsFollow, NodesFollow, CountedOnce, PortsUsed,
       Charge, ObjectOf, PortsOf, Known, allVars, views, vars
<1>8. ASSUME NEW old \in PodKeys, NEW new \in PodKeys, NEW node \in AllNames,
             OnPodRenewed(old, new, node)
      PROVE  HInv'
  BY <1>8, PodRenewedKeeps
<1>9. QED
  BY <1>1, <1>2, <1>3, <1>4, <1>5, <1>6, <1>7, <1>8 DEF HandlersNext

LEMMA HandlersInvariant == HandlersSpec => []HInv
  BY HandlersInitOK, HandlersNextOK, PTL DEF HandlersSpec

-----------------------------------------------------------------------------
(* No interleaving of the two informers' handlers, also across panics and  *)
(* restarts, counts a pod on two nodes or twice on one.                    *)
THEOREM PodsCountedAtMostOnce == HandlersSpec => []CountedAtMostOnce
<1>1. HInv => CountedAtMostOnce
  <2> SUFFICES ASSUME HInv, NEW k \in PodKeys
               PROVE  /\ \A n \in DOMAIN store.nodes : store.nodes[n].pods[k] <= 1
                      /\ \A m, n \in DOMAIN store.nodes :
                            store.nodes[m].pods[k] > 0 /\ store.nodes[n].pods[k] > 0 => m = n
    BY DEF CountedAtMostOnce
  <2>1. \A n \in DOMAIN store.nodes : n \in AllNames /\ Charge(store, n, k) = store.nodes[n].pods[k]
    BY DEF HInv, IInv, StoreOK, Charge, InfoOf
  <2>2. QED
    BY <2>1 DEF HInv, CountedOnce
<1>2. QED
  BY <1>1, HandlersInvariant, PTL

(* A host port taken on a node has a user there: InfoRemovePod gives back  *)
(* the ports of the pod it removes, and only while that pod was counted.   *)
THEOREM TakenPortsHaveUsers == HandlersSpec => []PortsHaveUsers
<1>1. HInv => PortsHaveUsers
  <2> SUFFICES ASSUME HInv, NEW n \in DOMAIN store.nodes, NEW p \in store.nodes[n].ports
               PROVE  p \in UNION {HostPort[k] :
                                     k \in {q \in PodKeys : store.nodes[n].pods[q] > 0}}
    BY Zenon DEF PortsHaveUsers
  <2>1. n \in AllNames /\ InfoOf(store, n) = store.nodes[n]
    BY DEF HInv, IInv, StoreOK, InfoOf
  <2>2. PICK k \in PodKeys : store.nodes[n].pods[k] > 0 /\ p \in HostPort[k]
    BY <2>1 DEF HInv, PortsUsed, PortsOf, Charge
  <2>3. QED
    BY <2>2
<1>2. QED
  BY <1>1, HandlersInvariant, PTL

(* As long as the process lives, what a named node is charged for is bound *)
(* to it now, but for the pods that one update took from a UID to another. *)
THEOREM OnlyBoundPodsAreCharged == HandlersSpec => []ChargedPodsAreBound
<1>1. HInv => ChargedPodsAreBound
  <2> SUFFICES ASSUME HInv, ~dead, NEW n \in DOMAIN store.nodes \ {NoNode},
                      NEW k \in PodKeys \ renewed, store.nodes[n].pods[k] > 0
               PROVE  k \in listed /\ podView[k] = n
    BY DEF ChargedPodsAreBound
  <2>1. n \in Names /\ Charge(store, n, k) > 0
    BY DEF HInv, IInv, StoreOK, InfoOf, Charge, AllNames
  <2>2. QED
    BY <2>1 DEF HInv, PodsFollow
<1>2. QED
  BY <1>1, HandlersInvariant, PTL

(* RemovePod never meets the mismatch it ends the process for (cache.go:   *)
(* 534-537): the cached object has the node the informer last delivered,   *)
(* or, of a pod that was renewed by one update, there is none.             *)
THEOREM CachedPodsFollowInformer == HandlersSpec => []CachedPodMatchesInformer
<1>1. HInv => CachedPodMatchesInformer
  <2> SUFFICES ASSUME HInv, ~dead, NEW k \in listed
               PROVE  IF k \in renewed THEN ~Known(k)
                      ELSE Added(k) /\ podStates[k].pod.node = podView[k]
    BY DEF CachedPodMatchesInformer
  <2>1. PodsFollow
    BY DEF HInv
  <2>2. CASE k \in renewed
    BY <2>1, <2>2 DEF PodsFollow
  <2>3. CASE k \notin renewed
    <3>1. assumedPods = {} /\ Known(k) /\ podStates[k].pod = Pod(k, podView[k])
      BY <2>1, <2>3 DEF PodsFollow
    <3>2. QED
      BY <2>3, <3>1 DEF Added, Pod
  <2>4. QED
    BY <2>2, <2>3
<1>2. QED
  BY <1>1, HandlersInvariant, PTL

-----------------------------------------------------------------------------
(* The nodes the informer has shown, per zone.                              *)
Shown(z) == {n \in Names : nodeView[n] # Null /\ nodeView[n].zone = z}
AllShown == {n \in Names : nodeView[n] # Null}

TreeFollows ==
    /\ TreeOK(tree)
    /\ \A z \in Zones : NamesOf(tree, z) = Shown(z)
    /\ IsFiniteSet(AllShown)
    /\ tree.numNodes = Cardinality(AllShown)

TInv == ~dead => TreeFollows /\ ImagesExact

-----------------------------------------------------------------------------
(* Which nodes are shown after a delivery of the node informer.            *)
LEMMA ShownAfter ==
    ASSUME ViewsOK, NEW obj \in Objects, nodeView' = [nodeView EXCEPT ![obj.name] = obj]
    PROVE  /\ \A z : Shown(z)' = IF z = obj.zone THEN Shown(z) \cup {obj.name}
                                 ELSE Shown(z) \ {obj.name}
           /\ AllShown' = AllShown \cup {obj.name}
<1>1. obj.name \in Names /\ obj # Null
  BY CacheAssumption DEF Objects
<1>2. \A n \in Names : nodeView'[n] = IF n = obj.name THEN obj ELSE nodeView[n]
  BY <1>1 DEF ViewsOK
<1>3. ASSUME NEW z
      PROVE  Shown(z)' = IF z = obj.zone THEN Shown(z) \cup {obj.name} ELSE Shown(z) \ {obj.name}
  BY <1>1, <1>2 DEF Shown
<1>4. AllShown' = AllShown \cup {obj.name}
  BY <1>1, <1>2 DEF AllShown
<1>5. QED
  BY <1>3, <1>4

LEMMA HiddenAfter ==
    ASSUME ViewsOK, NEW name \in Names, nodeView' = [nodeView EXCEPT ![name] = Null]
    PROVE  /\ \A z : Shown(z)' = Shown(z) \ {name}
           /\ AllShown' = AllShown \ {name}
<1>1. \A n \in Names : nodeView'[n] = IF n = name THEN Null ELSE nodeView[n]
  BY DEF ViewsOK
<1>2. QED
  BY <1>1 DEF Shown, AllShown

(* The images after a delivery, when the cache had the object the informer *)
(* showed last.                                                            *)
LEMMA ImagesAfter ==
    ASSUME ViewsOK, ImagesExact, ~dead, imageStates \in [Images -> SUBSET Names],
           NEW obj \in Objects, nodeView' = [nodeView EXCEPT ![obj.name] = obj],
           imageStates' = AddImages(RemoveImages(imageStates, nodeView[obj.name]), obj)
    PROVE  ImagesExact'
<1> DEFINE old == nodeView[obj.name]
           rem == RemoveImages(imageStates, old)
<1>1. obj.name \in Names /\ obj # Null /\ obj.images \subseteq Images
  BY CacheAssumption DEF Objects
<1>2. \A n \in Names : nodeView'[n] = IF n = obj.name THEN obj ELSE nodeView[n]
  BY <1>1 DEF ViewsOK
<1>3. old # Null => old.name = obj.name
  BY <1>1 DEF ViewsOK
<1>4. \A i \in Images :
         imageStates[i] = {n \in Names : nodeView[n] # Null /\ i \in nodeView[n].images}
  BY DEF ImagesExact
<1>5. ASSUME NEW i \in Images PROVE rem[i] = imageStates[i] \ {obj.name}
  <2>1. CASE old = Null
    BY <1>1, <1>4, <2>1 DEF RemoveImages
  <2>2. CASE old # Null
    <3>1. rem[i] = IF i \in old.images THEN imageStates[i] \ {obj.name} ELSE imageStates[i]
      BY <1>3, <2>2 DEF RemoveImages
    <3>2. i \notin old.images => obj.name \notin imageStates[i]
      BY <1>4
    <3>3. QED
      BY <3>1, <3>2
  <2>3. QED
    BY <2>1, <2>2
<1> HIDE DEF rem
<1>6. ASSUME NEW i \in Images
      PROVE  imageStates'[i] = {n \in Names : nodeView'[n] # Null /\ i \in nodeView'[n].images}
  <2>1. imageStates'[i] = IF i \in obj.images THEN rem[i] \cup {obj.name} ELSE rem[i]
    BY DEF AddImages, rem
  <2>2. QED
    BY <1>1, <1>2, <1>4, <1>5, <2>1
<1>7. QED
  BY <1>6 DEF ImagesExact

LEMMA ImagesAfterDelete ==
    ASSUME ViewsOK, ImagesExact, ~dead, imageStates \in [Images -> SUBSET Names],
           NEW name \in Names, nodeView[name] # Null,
           nodeView' = [nodeView EXCEPT ![name] = Null],
           imageStates' = RemoveImages(imageStates, nodeView[name])
    PROVE  ImagesExact'
<1>1. \A n \in Names : nodeView'[n] = IF n = name THEN Null ELSE nodeView[n]
  BY DEF ViewsOK
<1>2. \A i \in Images :
         imageStates[i] = {n \in Names : nodeView[n] # Null /\ i \in nodeView[n].images}
  BY DEF ImagesExact
<1>3. \A i \in Images : imageStates'[i] = IF i \in nodeView[name].images
                                          THEN imageStates[i] \ {name} ELSE imageStates[i]
  BY DEF RemoveImages, ViewsOK
<1>4. ASSUME NEW i \in Images
      PROVE  imageStates'[i] = {n \in Names : nodeView'[n] # Null /\ i \in nodeView'[n].images}
  <2>1. imageStates[i] = {n \in Names : nodeView[n] # Null /\ i \in nodeView[n].images}
    BY <1>2
  <2>2. name \in imageStates[i] <=> i \in nodeView[name].images
    BY <2>1
  <2>3. imageStates'[i] = imageStates[i] \ {name}
    BY <1>3, <2>2
  <2>4. ASSUME NEW n \in Names
        PROVE  n \in imageStates'[i] <=> nodeView'[n] # Null /\ i \in nodeView'[n].images
    BY <1>1, <2>1, <2>3
  <2>5. QED
    BY <2>1, <2>3, <2>4
<1>5. QED
  BY <1>4 DEF ImagesExact

-----------------------------------------------------------------------------
LEMMA TreeNodeAdd ==
    ASSUME HInv, TInv, NEW obj \in Objects, OnNodeAdd(obj)
    PROVE  TInv'
<1>1. ~dead /\ TreeFollows /\ ImagesExact /\ NodesFollow /\ ViewsOK
  BY DEF OnNodeAdd, AddNode, CanChange, Callable, TInv, HInv
<1>2. obj.name \in Names /\ obj.zone \in Zones /\ nodeView[obj.name] = Null
  BY DEF OnNodeAdd, Objects
<1>3. nodeView' = [nodeView EXCEPT ![obj.name] = obj]
  BY DEF OnNodeAdd
<1>4. tree' = TreeAddNode(tree, obj)
  BY DEF OnNodeAdd, AddNode
<1>5. imageStates' = AddImages(RemoveImages(imageStates, nodeView[obj.name]), obj)
  <2>1. ObjectOf(store, obj.name) = Null
    BY <1>1, <1>2 DEF NodesFollow
  <2>2. (IF obj.name \in DOMAIN store.nodes THEN store.nodes[obj.name].obj ELSE Null) = Null
    BY <2>1 DEF ObjectOf, InfoOf
  <2>3. QED
    BY <1>2, <2>2 DEF OnNodeAdd, AddNode
<1>6. ImagesExact'
  BY <1>1, <1>3, <1>5, ImagesAfter DEF HInv, IInv, StatesOK
<1>7. /\ \A z : Shown(z)' = IF z = obj.zone THEN Shown(z) \cup {obj.name}
                            ELSE Shown(z) \ {obj.name}
      /\ AllShown' = AllShown \cup {obj.name}
  BY <1>1, <1>3, ShownAfter
<1>8. obj.name \notin AllShown /\ \A z : obj.name \notin Shown(z)
  BY <1>2 DEF AllShown, Shown
<1>9. /\ TreeOK(tree')
      /\ \A z : NamesOf(tree', z) = IF z = obj.zone THEN NamesOf(tree, z) \cup {obj.name}
                                    ELSE NamesOf(tree, z)
      /\ tree'.numNodes = tree.numNodes + 1
  <2>1. obj.name \notin NamesOf(tree, obj.zone)
    BY <1>1, <1>2, <1>8 DEF TreeFollows
  <2>2. QED
    BY <1>1, <1>4, <2>1, ObjectsAreObjs, TreeAddOK DEF TreeFollows
<1>10. IsFiniteSet(AllShown') /\ Cardinality(AllShown') = Cardinality(AllShown) + 1
  BY <1>1, <1>7, <1>8, FS_AddElement DEF TreeFollows
<1>11. \A z \in Zones : NamesOf(tree', z) = Shown(z)'
  BY <1>1, <1>7, <1>8, <1>9 DEF TreeFollows
<1>12. TreeFollows'
  BY <1>1, <1>9, <1>10, <1>11 DEF TreeFollows
<1>13. QED
  BY <1>6, <1>12 DEF TInv

LEMMA TreeNodeUpdate ==
    ASSUME HInv, TInv, NEW obj \in Objects, OnNodeUpdate(obj)
    PROVE  TInv'
<1> DEFINE old == nodeView[obj.name]
<1>1. ~dead /\ TreeFollows /\ ImagesExact /\ NodesFollow /\ ViewsOK
  BY DEF OnNodeUpdate, UpdateNode, CanChange, Callable, TInv, HInv
<1>2. /\ obj.name \in Names /\ obj.zone \in Zones
      /\ old # Null /\ old \in Objects /\ old.name = obj.name /\ old.zone \in Zones
  BY <1>1 DEF OnNodeUpdate, Objects, ViewsOK
<1>3. nodeView' = [nodeView EXCEPT ![obj.name] = obj]
  BY DEF OnNodeUpdate
<1>4. obj.name \in DOMAIN store.nodes /\ store.nodes[obj.name].obj = old
  <2>1. ObjectOf(store, obj.name) = old
    BY <1>1, <1>2 DEF NodesFollow
  <2>2. QED
    BY <1>2, <2>1 DEF ObjectOf, InfoOf, NewNodeInfo
<1>5. /\ tree' = TreeUpdateNode(tree, old, obj)
      /\ imageStates' = AddImages(RemoveImages(imageStates, old), obj)
  BY <1>4 DEF OnNodeUpdate, UpdateNode
<1>6. ImagesExact'
  BY <1>1, <1>3, <1>5, ImagesAfter DEF HInv, IInv, StatesOK
<1>7. /\ \A z : Shown(z)' = IF z = obj.zone THEN Shown(z) \cup {obj.name}
                            ELSE Shown(z) \ {obj.name}
      /\ AllShown' = AllShown \cup {obj.name}
  BY <1>1, <1>3, ShownAfter
<1>8. obj.name \in AllShown /\ \A z : obj.name \in Shown(z) <=> z = old.zone
  BY <1>2 DEF AllShown, Shown
<1> HIDE DEF old
<1>9. /\ TreeOK(tree')
      /\ \A z : NamesOf(tree', z) = IF z = obj.zone THEN NamesOf(tree, z) \cup {obj.name}
                                    ELSE IF z = old.zone THEN NamesOf(tree, z) \ {old.name}
                                    ELSE NamesOf(tree, z)
      /\ tree'.numNodes = tree.numNodes
  <2>1. /\ old.name \in NamesOf(tree, old.zone)
        /\ old.zone # obj.zone => obj.name \notin NamesOf(tree, obj.zone)
    BY <1>1, <1>2, <1>8 DEF TreeFollows
  <2>2. TreeOK(tree)
    BY <1>1 DEF TreeFollows
  <2>3. QED
    BY <1>2, <1>5, <2>1, <2>2, ObjectsAreObjs, TreeUpdateOK
<1>10. AllShown' = AllShown
  BY <1>7, <1>8
<1>11. ASSUME NEW z \in Zones PROVE NamesOf(tree', z) = Shown(z)'
  <2>1. NamesOf(tree, z) = Shown(z)
    BY <1>1 DEF TreeFollows
  <2>2. CASE z = obj.zone
    BY <1>7, <1>9, <2>1, <2>2
  <2>3. CASE z # obj.zone /\ z = old.zone
    BY <1>2, <1>7, <1>9, <2>1, <2>3
  <2>4. CASE z # obj.zone /\ z # old.zone
    BY <1>7, <1>8, <1>9, <2>1, <2>4
  <2>5. QED
    BY <2>2, <2>3, <2>4
<1>12. TreeFollows'
  BY <1>1, <1>9, <1>10, <1>11 DEF TreeFollows
<1>13. QED
  BY <1>6, <1>12 DEF TInv

LEMMA TreeNodeDelete ==
    ASSUME HInv, TInv, NEW name \in Names, OnNodeDelete(name)
    PROVE  TInv'
<1> DEFINE old == nodeView[name]
<1>1. ~dead /\ TreeFollows /\ ImagesExact /\ NodesFollow /\ ViewsOK
  BY DEF OnNodeDelete, RemoveNode, CanChange, Callable, TInv, HInv
<1>2. old # Null /\ old \in Objects /\ old.name = name /\ old.zone \in Zones
  BY <1>1 DEF OnNodeDelete, Objects, ViewsOK
<1>3. nodeView' = [nodeView EXCEPT ![name] = Null]
  BY DEF OnNodeDelete
<1>4. name \in DOMAIN store.nodes
  BY <1>1, <1>2 DEF NodesFollow, ObjectOf, InfoOf, NewNodeInfo
<1>5. name \in AllShown /\ \A z : name \in Shown(z) <=> z = old.zone
  BY <1>2 DEF AllShown, Shown
<1>6. name \in NamesOf(tree, old.zone)
  BY <1>1, <1>2, <1>5 DEF TreeFollows
<1>7. tree' = TreeRemoveNode(tree, old) /\ imageStates' = RemoveImages(imageStates, old)
  BY <1>2, <1>4, <1>6 DEF OnNodeDelete, RemoveNode, TreeHas
<1>8. ImagesExact'
  BY <1>1, <1>2, <1>3, <1>7, ImagesAfterDelete DEF HInv, IInv, StatesOK
<1>9. (\A z : Shown(z)' = Shown(z) \ {name}) /\ AllShown' = AllShown \ {name}
  BY <1>1, <1>3, HiddenAfter
<1> HIDE DEF old
<1>10. /\ TreeOK(tree')
       /\ \A z : NamesOf(tree', z) = IF z = old.zone THEN NamesOf(tree, z) \ {name}
                                     ELSE NamesOf(tree, z)
       /\ tree'.numNodes = tree.numNodes - 1
  BY <1>1, <1>2, <1>6, <1>7, ObjectsAreObjs, TreeRemoveOK DEF TreeFollows
<1>11. IsFiniteSet(AllShown') /\ Cardinality(AllShown') = Cardinality(AllShown) - 1
  BY <1>1, <1>5, <1>9, FS_RemoveElement DEF TreeFollows
<1>12. \A z \in Zones : NamesOf(tree', z) = Shown(z)'
  BY <1>1, <1>5, <1>9, <1>10 DEF TreeFollows
<1>13. TreeFollows'
  BY <1>1, <1>10, <1>11, <1>12 DEF TreeFollows
<1>14. QED
  BY <1>8, <1>13 DEF TInv

LEMMA TreeUnchanged ==
    ASSUME TInv, tree' = tree, imageStates' = imageStates, nodeView' = nodeView, ~dead' => ~dead
    PROVE  TInv'
  BY DEF TInv, TreeFollows, ImagesExact, AllShown, Shown

(* A snapshot moves the cursors of the tree and nothing else.              *)
LEMMA TreeSnapshot ==
    ASSUME HInv, ListInv, TInv, Snapshot
    PROVE  TInv'
<1>1. ListInv' /\ SameNodes(tree, tree')
  BY ListsTaken DEF HInv, Snapshot
<1>2. UNCHANGED <<imageStates, nodeView, dead>>
  BY DEF Snapshot, UpdateSnapshot, views
<1>3. TreeOK(tree') /\ tree'.numNodes = tree.numNodes
  BY <1>1 DEF ListInv, SameNodes
<1>4. \A z : NamesOf(tree', z) = NamesOf(tree, z)
  BY <1>1, SameNames
<1>5. QED
  BY <1>2, <1>3, <1>4 DEF TInv, TreeFollows, ImagesExact, AllShown, Shown

(* The steps of the handlers are steps of the cache, but for the end of    *)
(* the process and its restart.                                            *)
LEMMA HandlersCallCache ==
    ASSUME HInv, [HandlersNext]_allVars
    PROVE  \/ [Next]_vars
           \/ dead' /\ UNCHANGED <<tree, snapshot>>
           \/ Restart
<1>1. ASSUME NEW key \in PodKeys, NEW node \in AllNames, OnPodAdd(key, node)
      PROVE  Next
  BY <1>1 DEF OnPodAdd, Pod, Pods, Next
<1>2. ASSUME NEW key \in PodKeys, NEW node \in AllNames, OnPodUpdate(key, node)
      PROVE  Next
  <2>1. podView[key] \in AllNames
    BY <1>2 DEF OnPodUpdate, HInv, ViewsOK
  <2>2. Pod(key, podView[key]) \in Pods /\ Pod(key, node) \in Pods
    BY <2>1 DEF Pod, Pods
  <2>3. UpdatePod(Pod(key, podView[key]), Pod(key, node))
    BY <1>2 DEF OnPodUpdate
  <2>4. QED
    BY <2>2, <2>3, Zenon DEF Next
<1>3. ASSUME NEW key \in PodKeys, OnPodDelete(key)
      PROVE  Next
  <2>1. Pod(key, podView[key]) \in Pods
    BY <1>3 DEF OnPodDelete, HInv, ViewsOK, Pod, Pods
  <2>2. QED
    BY <1>3, <2>1 DEF OnPodDelete, Next
<1>4. ASSUME NEW obj \in Objects, OnNodeAdd(obj) \/ OnNodeUpdate(obj)
      PROVE  Next
  <2>1. CASE OnNodeAdd(obj)
    BY <2>1 DEF OnNodeAdd, Next
  <2>2. CASE OnNodeUpdate(obj)
    <3>1. /\ nodeView[obj.name] \in Objects /\ nodeView[obj.name].name = obj.name
      BY <2>2 DEF OnNodeUpdate, HInv, ViewsOK, Objects
    <3>2. UpdateNode(nodeView[obj.name], obj)
      BY <2>2 DEF OnNodeUpdate
    <3>3. QED
      BY <3>1, <3>2, Zenon DEF Next
  <2>3. QED
    BY <1>4, <2>1, <2>2
<1>5. ASSUME NEW name \in Names, OnNodeDelete(name)
      PROVE  Next
  <2>1. nodeView[name] \in Objects
    BY <1>5 DEF OnNodeDelete, HInv, ViewsOK
  <2>2. QED
    BY <1>5, <2>1 DEF OnNodeDelete, Next
<1>6. ASSUME NEW key \in PodKeys, OnPodDeleteMissed(key)
      PROVE  dead' /\ UNCHANGED <<tree, snapshot>>
  BY <1>6 DEF OnPodDeleteMissed, Panic
<1>7. ASSUME NEW name \in Names, OnNodeDeleteMissed(name)
      PROVE  dead' /\ UNCHANGED <<tree, snapshot>>
  BY <1>7 DEF OnNodeDeleteMissed, Panic
<1>8. Snapshot => Next
  BY DEF Snapshot, Next
<1>9. UNCHANGED allVars => UNCHANGED vars
  BY DEF allVars
<1>10. ASSUME NEW old \in PodKeys, NEW new \in PodKeys, NEW node \in AllNames,
              OnPodRenewed(old, new, node)
       PROVE  Next
  <2>1. podView[old] \in AllNames
    BY <1>10 DEF OnPodRenewed, HInv, ViewsOK
  <2>2. Pod(old, podView[old]) \in Pods /\ Pod(new, node) \in Pods
    BY <2>1 DEF Pod, Pods
  <2>3. UpdatePod(Pod(old, podView[old]), Pod(new, node))
    BY <1>10 DEF OnPodRenewed
  <2>4. QED
    BY <2>2, <2>3, Zenon DEF Next
<1>11. QED
  BY <1>1, <1>2, <1>3, <1>4, <1>5, <1>6, <1>7, <1>8, <1>9, <1>10 DEF HandlersNext

LEMMA HandlersKeepLists == HInv /\ ListInv /\ [HandlersNext]_allVars => ListInv'
<1> SUFFICES ASSUME HInv, ListInv, [HandlersNext]_allVars
             PROVE  ListInv'
  OBVIOUS
<1>1. CASE [Next]_vars
  BY <1>1, ListInvNext DEF HInv
<1>2. CASE dead' /\ UNCHANGED <<tree, snapshot>>
  BY <1>2, ListInvUnchanged
<1>3. CASE Restart
  <2>1. Init'
    BY <1>3 DEF Restart, Init
  <2>2. QED
    BY <2>1, ListInvInit, PTL
<1>4. QED
  BY <1>1, <1>2, <1>3, HandlersCallCache

LEMMA FreshTree ==
    NewProcess => TInv
<1> SUFFICES ASSUME NewProcess
             PROVE  TInv
  OBVIOUS
<1>1. ListInv
  BY ListInvInit DEF NewProcess
<1>2. tree.tree = [z \in {} |-> <<>>] /\ tree.numNodes = 0 /\ imageStates = [i \in Images |-> {}]
  BY DEF NewProcess, Init, EmptyTree
<1>3. AllShown = {} /\ \A z : Shown(z) = {}
  BY DEF NewProcess, AllShown, Shown
<1>4. TreeFollows
  BY <1>1, <1>2, <1>3, FS_EmptySet DEF ListInv, TreeFollows, NamesOf
<1>5. ImagesExact
  BY <1>2 DEF ImagesExact, NewProcess
<1>6. QED
  BY <1>4, <1>5 DEF TInv

LEMMA HandlersKeepTree == HInv /\ ListInv /\ TInv /\ [HandlersNext]_allVars => TInv'
<1> SUFFICES ASSUME HInv, ListInv, TInv, [HandlersNext]_allVars
             PROVE  TInv'
  OBVIOUS
<1>1. ASSUME NEW key \in PodKeys, NEW node \in AllNames, OnPodAdd(key, node)
      PROVE  TInv'
  <2>1. UNCHANGED <<tree, imageStates, nodeView>> /\ ~dead
    BY <1>1 DEF OnPodAdd, AddPod, ConfirmPod, AddNewPod, Refused, Panic, vars,
       CanChange, Callable
  <2>2. QED
    BY <2>1, TreeUnchanged
<1>2. ASSUME NEW key \in PodKeys, NEW node \in AllNames, OnPodUpdate(key, node)
      PROVE  TInv'
  <2>1. UNCHANGED <<tree, imageStates, nodeView>> /\ ~dead
    BY <1>2 DEF OnPodUpdate, UpdatePod, Refused, Panic, vars, CanChange, Callable
  <2>2. QED
    BY <2>1, TreeUnchanged
<1>3. ASSUME NEW key \in PodKeys, OnPodDelete(key)
      PROVE  TInv'
  <2>1. UNCHANGED <<tree, imageStates, nodeView>> /\ ~dead
    BY <1>3 DEF OnPodDelete, RemovePod, Refused, Panic, vars, CanChange, Callable
  <2>2. QED
    BY <2>1, TreeUnchanged
<1>4. ASSUME NEW obj \in Objects, OnNodeAdd(obj) \/ OnNodeUpdate(obj)
      PROVE  TInv'
  BY <1>4, TreeNodeAdd, TreeNodeUpdate
<1>5. ASSUME NEW name \in Names, OnNodeDelete(name)
      PROVE  TInv'
  BY <1>5, TreeNodeDelete
<1>6. ASSUME NEW key \in PodKeys, OnPodDeleteMissed(key)
      PROVE  TInv'
  BY <1>6 DEF OnPodDeleteMissed, Panic, TInv
<1>7. ASSUME NEW name \in Names, OnNodeDeleteMissed(name)
      PROVE  TInv'
  BY <1>7 DEF OnNodeDeleteMissed, Panic, TInv
<1>8. CASE Snapshot
  BY <1>8, TreeSnapshot
<1>9. CASE Restart
  <2>1. NewProcess'
    BY <1>9 DEF Restart, Init, HInv, ViewsOK, NewProcess
  <2>2. QED
    BY <2>1, FreshTree, PTL
<1>10. CASE UNCHANGED allVars
  BY <1>10, TreeUnchanged DEF allVars, vars, views
<1>11. ASSUME NEW old \in PodKeys, NEW new \in PodKeys, NEW node \in AllNames,
              OnPodRenewed(old, new, node)
       PROVE  TInv'
  <2>1. UNCHANGED <<tree, imageStates, nodeView>> /\ ~dead
    BY <1>11 DEF OnPodRenewed, UpdatePod, Refused, Panic, vars, CanChange, Callable
  <2>2. QED
    BY <2>1, TreeUnchanged
<1>12. QED
  BY <1>1, <1>2, <1>3, <1>4, <1>5, <1>6, <1>7, <1>8, <1>9, <1>10, <1>11 DEF HandlersNext

LEMMA TreeInvariant == HandlersSpec => [](HInv /\ ListInv /\ TInv)
<1>1. HandlersInit => NewProcess
  BY DEF HandlersInit, NewProcess
<1>2. NewProcess => HInv /\ ListInv /\ TInv
  BY FreshProcess, FreshTree, ListInvInit DEF NewProcess
<1>3. QED
  BY <1>1, <1>2, HandlersNextOK, HandlersKeepLists, HandlersKeepTree, PTL DEF HandlersSpec

(* The node tree, the map and the image states agree with what the node    *)
(* informer has delivered, through zone changes, updates of nodes that are *)
(* placeholders, and removals (cache.go:564-700, node_tree.go).            *)
THEOREM NodesFollowInformer == HandlersSpec => []NodesMatchInformer
<1>1. HInv /\ TInv => NodesMatchInformer
  <2> SUFFICES ASSUME HInv, TInv, ~dead
               PROVE  TreeMatchesInformer /\ ImagesExact
    BY DEF NodesMatchInformer, TreeMatchesInformer, ImagesExact
  <2>1. TreeFollows /\ ImagesExact /\ NodesFollow
    BY DEF TInv, HInv
  <2>2. ASSUME NEW z \in DOMAIN tree.tree
        PROVE  /\ IsInjective(tree.tree[z].nodes)
               /\ NamesOf(tree, z) = Shown(z)
    BY <2>1 DEF TreeFollows, TreeOK
  <2>3. {n \in Names : InCache(n)} = AllShown
    <3>1. ASSUME NEW n \in Names PROVE InCache(n) <=> nodeView[n] # Null
      <4>1. ObjectOf(store, n) = nodeView[n]
        BY <2>1 DEF NodesFollow
      <4>2. QED
        BY <4>1 DEF ObjectOf, InfoOf, NewNodeInfo, InCache
    <3>2. QED
      BY <3>1 DEF AllShown
  <2>4. tree.numNodes = Cardinality(AllShown)
    BY <2>1 DEF TreeFollows
  <2>5. TreeMatchesInformer
    BY <2>2, <2>3, <2>4 DEF TreeMatchesInformer, Shown, AllShown
  <2>6. QED
    BY <2>1, <2>5
<1>2. QED
  BY <1>1, TreeInvariant, PTL

(* Every cycle starts with a list as long as the tree has nodes (cache.go: *)
(* 202-301): the names the walk takes are nodes the informer has shown,    *)
(* the cache has an object for each, so the map has them, and lists that   *)
(* are made again keep them all.  Nothing is said of which nodes they are. *)
THEOREM SnapshotsHaveLength == HandlersSpec => SnapshotHasLength
<1>1. HInv /\ ListInv /\ TInv /\ [HandlersNext]_allVars
         => [UpdateSnapshot => Len(snapshot'.list) = tree.numNodes]_allVars
  <2> SUFFICES ASSUME HInv, ListInv, TInv, UpdateSnapshot
               PROVE  Len(snapshot'.list) = tree.numNodes
    OBVIOUS
  <2>1. TreeFollows /\ NodesFollow
    BY DEF TInv, HInv, UpdateSnapshot, Callable
  <2>2. ASSUME NEW name, InTree(tree, name)
        PROVE  name \in DOMAIN snapshot'.map
    <3>1. PICK z \in DOMAIN tree.tree : name \in Range(tree.tree[z].nodes)
      BY <2>2 DEF InTree
    <3>2. z \in Zones /\ name \in NamesOf(tree, z)
      BY <2>1, <3>1 DEF TreeFollows, TreeOK, NamesOf
    <3>3. name \in Names /\ nodeView[name] # Null
      BY <2>1, <3>2 DEF TreeFollows, Shown
    <3>4. ObjectOf(store, name) # Null
      BY <2>1, <3>3 DEF NodesFollow
    <3>5. name \in DOMAIN store.nodes /\ store.nodes[name].obj # Null
      BY <3>4 DEF ObjectOf, InfoOf, NewNodeInfo
    <3>6. QED
      BY <3>5, SnapshotContents DEF HInv
  <2>3. QED
    BY <2>2, ListsTaken DEF HInv
<1>2. QED
  BY <1>1, TreeInvariant, PTL DEF HandlersSpec, SnapshotHasLength


-----------------------------------------------------------------------------
(* The node tree under any caller (NodeTree).  What a listing has yet to   *)
(* hand out before the next reset is a set of names; every call takes one  *)
(* out of it, and a reset fills it with all names of the tree.             *)
Remaining(t) ==
    {n \in Names : \E z \in DOMAIN t.tree : \E i \in 1..Len(t.tree[z].nodes) :
                       i > t.tree[z].lastIndex /\ t.tree[z].nodes[i] = n}

Everything(t) == {n \in Names : InTree(t, n)}

OneZone(t) ==
    \A y, z \in DOMAIN t.tree :
        Range(t.tree[y].nodes) \cap Range(t.tree[z].nodes) # {} => y = z

LEMMA SameNodesOneZone ==
    ASSUME NEW t, NEW u, SameNodes(t, u), OneZone(t)
    PROVE  OneZone(u) /\ Everything(u) = Everything(t)
<1>1. OneZone(u)
  BY DEF SameNodes, OneZone
<1>2. QED
  BY <1>1, SameNames DEF Everything

(* The zone that answers hands out the next name of its array.             *)
LEMMA TakeFromTakes ==
    ASSUME NEW t, TreeOK(t), OneZone(t),
           NEW i \in 0..Len(t.zones)-1, ~Exhausted(t.tree[t.zones[i+1]])
    PROVE  LET r == TakeFrom(t, i)
           IN  r.name \in Remaining(t) /\ Remaining(r.tree) = Remaining(t) \ {r.name}
<1> DEFINE zone  == t.zones[i+1]
           array == t.tree[zone]
           last  == array.lastIndex
           name  == array.nodes[last + 1]
           u     == [t EXCEPT !.zoneIndex = i + 1, !.tree[zone].lastIndex = @ + 1]
<1>1. i + 1 \in DOMAIN t.zones
  BY DEF TreeOK
<1>2. zone \in DOMAIN t.tree
  BY <1>1 DEF TreeOK, Range
<1>3. array \in Arrays /\ array.nodes # <<>> /\ IsInjective(array.nodes)
  BY <1>2 DEF TreeOK
<1>4. last \in Nat /\ last < Len(array.nodes) /\ array.nodes \in Seq(Names)
  BY <1>3 DEF Exhausted, Arrays
<1>5. TakeFrom(t, i) = [name |-> name, tree |-> u]
  BY <1>3 DEF TakeFrom
<1>6. /\ DOMAIN u.tree = DOMAIN t.tree
      /\ \A z \in DOMAIN t.tree :
            /\ u.tree[z].nodes = t.tree[z].nodes
            /\ u.tree[z].lastIndex = IF z = zone THEN last + 1 ELSE t.tree[z].lastIndex
  <2>1. u.tree = [t.tree EXCEPT ![zone].lastIndex = @ + 1]
    BY DEF TreeOK, IsRecord
  <2>2. array = [nodes |-> array.nodes, lastIndex |-> array.lastIndex]
    BY <1>3 DEF Arrays
  <2> HIDE DEF u, zone
  <2>3. ASSUME NEW z \in DOMAIN t.tree
        PROVE  u.tree[z] = IF z = zone THEN [array EXCEPT !.lastIndex = @ + 1] ELSE t.tree[z]
    BY <1>2, <2>1
  <2>4. QED
    BY <1>2, <2>1, <2>2, <2>3
<1>7. last + 1 \in 1..Len(array.nodes) /\ name \in Names
  <2> HIDE DEF u, last, array
  <2>1. Len(array.nodes) \in Nat
    BY <1>4
  <2>2. last + 1 \in 1..Len(array.nodes)
    BY <1>4, <2>1
  <2>3. QED
    BY <1>4, <2>2
<1> HIDE DEF u, zone
<1>8. name \in Remaining(t)
  <2>1. last + 1 > last
    BY <1>4
  <2>2. QED
    BY <1>2, <1>7, <2>1 DEF Remaining
<1> HIDE DEF array
<1>9. ASSUME NEW n \in Remaining(t), n # name PROVE n \in Remaining(u)
  <2>1. PICK z \in DOMAIN t.tree : \E k \in 1..Len(t.tree[z].nodes) :
                k > t.tree[z].lastIndex /\ t.tree[z].nodes[k] = n
    BY DEF Remaining
  <2>2. PICK k \in 1..Len(t.tree[z].nodes) : k > t.tree[z].lastIndex /\ t.tree[z].nodes[k] = n
    BY <2>1
  <2>3. k > u.tree[z].lastIndex
    <3>1. CASE z = zone
      <4>1. k # last + 1
        BY <1>9, <2>2, <3>1 DEF array
      <4>2. k > last /\ k \in Int /\ last \in Nat
        BY <1>4, <2>2, <3>1 DEF array
      <4>3. u.tree[z].lastIndex = last + 1
        BY <1>6, <3>1
      <4> HIDE DEF last
      <4>4. QED
        BY <4>1, <4>2, <4>3
    <3>2. CASE z # zone
      BY <1>6, <2>2, <3>2
    <3>3. QED
      BY <3>1, <3>2
  <2>4. QED
    BY <1>6, <2>2, <2>3 DEF Remaining
<1>10. ASSUME NEW n \in Remaining(u) PROVE n \in Remaining(t) /\ n # name
  <2>1. PICK z \in DOMAIN t.tree : \E k \in 1..Len(t.tree[z].nodes) :
                k > u.tree[z].lastIndex /\ t.tree[z].nodes[k] = n
    BY <1>6 DEF Remaining
  <2>2. PICK k \in 1..Len(t.tree[z].nodes) : k > u.tree[z].lastIndex /\ t.tree[z].nodes[k] = n
    BY <2>1
  <2>3. CASE z = zone
    <3>1. k > last + 1
      BY <1>6, <2>2, <2>3
    <3>2. n # name
      BY <1>3, <1>4, <1>7, <2>2, <2>3, <3>1 DEF IsInjective, array
    <3>3. n \in Remaining(t)
      BY <1>4, <1>10, <2>2, <2>3, <3>1 DEF Remaining, array
    <3>4. QED
      BY <3>2, <3>3
  <2>4. CASE z # zone
    <3>1. n \in Remaining(t)
      BY <1>6, <1>10, <2>2, <2>4 DEF Remaining
    <3>2. n \in Range(t.tree[z].nodes) /\ name \in Range(t.tree[zone].nodes)
      <4>1. t.tree[z].nodes \in Seq(Names) /\ t.tree[zone].nodes \in Seq(Names)
        BY <1>2 DEF TreeOK, Arrays
      <4>2. QED
        BY <1>7, <2>2, <4>1 DEF Range, array
    <3>3. n # name
      BY <1>2, <2>4, <3>2 DEF OneZone
    <3>4. QED
      BY <3>1, <3>3
  <2>5. QED
    BY <2>3, <2>4
<1>11. Remaining(u) = Remaining(t) \ {name}
  BY <1>9, <1>10
<1>12. QED
  BY <1>5, <1>8, <1>11

LEMMA ResetFills ==
    ASSUME NEW t, TreeOK(t)
    PROVE  Remaining(ResetExhausted(t)) = Everything(t)
<1> DEFINE u == ResetExhausted(t)
<1>1. /\ DOMAIN u.tree = DOMAIN t.tree
      /\ \A z \in DOMAIN t.tree : u.tree[z].nodes = t.tree[z].nodes /\ u.tree[z].lastIndex = 0
  <2>1. u.tree = [z \in DOMAIN t.tree |-> [t.tree[z] EXCEPT !.lastIndex = 0]]
    BY DEF ResetExhausted, TreeOK, IsRecord
  <2>2. ASSUME NEW z \in DOMAIN t.tree
        PROVE  /\ [t.tree[z] EXCEPT !.lastIndex = 0].nodes = t.tree[z].nodes
               /\ [t.tree[z] EXCEPT !.lastIndex = 0].lastIndex = 0
    BY DEF TreeOK, Arrays
  <2>3. QED
    BY <2>1, <2>2
<1> HIDE DEF u
<1>2. \A z \in DOMAIN t.tree : t.tree[z].nodes \in Seq(Names)
  BY DEF TreeOK, Arrays
<1>3. ASSUME NEW n \in Names, NEW z \in DOMAIN t.tree
      PROVE  n \in Range(t.tree[z].nodes)
                <=> \E i \in 1..Len(t.tree[z].nodes) : i > 0 /\ t.tree[z].nodes[i] = n
  BY <1>2 DEF Range
<1>4. QED
  BY <1>1, <1>3 DEF Remaining, Everything, InTree, u

LEMMA ExhaustedAll ==
    ASSUME NEW t, TreeOK(t)
    PROVE  (\A z \in DOMAIN t.tree : Exhausted(t.tree[z])) => Remaining(t) = {}
  BY DEF TreeOK, Arrays, Exhausted, Remaining

(* Every zone has its turn, wherever the round begins.                     *)
LEMMA Turn ==
    ASSUME NEW n \in Nat, NEW start \in 0..n-1, NEW j \in 0..n-1
    PROVE  \E k \in 0..n-1 : (start + k) % n = j
<1>1. CASE j >= start
  <2>1. j - start \in 0..n-1 /\ start + (j - start) = j /\ j % n = j
    BY <1>1
  <2>2. QED
    BY <2>1
<1>2. CASE j < start
  <2>1. j - start + n \in 0..n-1 /\ start + (j - start + n) = j + n /\ (j + n) % n = j
    BY <1>2
  <2>2. QED
    BY <2>1
<1>3. QED
  BY <1>1, <1>2

(* One call: it takes a name that remains, or any after a reset.           *)
LEMMA NextTakes ==
    ASSUME NEW t, TreeOK(t), OneZone(t), t.zones # <<>>
    PROVE  LET r == TreeNext(t)
               from == IF Remaining(t) = {} THEN Everything(t) ELSE Remaining(t)
           IN  r.name \in from /\ Remaining(r.tree) = from \ {r.name}
<1> DEFINE n      == Len(t.zones)
           start  == IF t.zoneIndex >= n THEN 0 ELSE t.zoneIndex
           pos(k) == (start + k) % n
           ready  == {k \in 0..n-1 : ~Exhausted(t.tree[t.zones[pos(k) + 1]])}
<1>0. t.zones \in Seq(Zones) /\ n \in Nat /\ n # 0 /\ t.zoneIndex \in Nat
  BY DEF TreeOK
<1>a. start \in 0..n-1
  BY <1>0
<1>2. CASE ready # {}
  <2>1. TreeNext(t) = TakeFrom(t, pos(Min(ready)))
    BY <1>0, <1>2 DEF TreeNext
  <2>2. PICK m \in ready : \A k \in ready : m <= k
    <3>1. ready \subseteq Nat
      BY <1>0
    <3>2. QED
      BY <1>2, <3>1, NatHasLeast
  <2>3. Min(ready) \in ready
    BY <2>2 DEF Min
  <2> DEFINE k == Min(ready)
  <2> HIDE DEF k
  <2>4. k \in 0..n-1 /\ ~Exhausted(t.tree[t.zones[pos(k) + 1]])
    BY <2>3 DEF k
  <2> HIDE DEF n, start
  <2>6. pos(k) \in 0..n-1
    BY <1>0, <1>a, <2>4
  <2> HIDE DEF pos
  <2>7. LET r == TakeFrom(t, pos(k))
        IN  r.name \in Remaining(t) /\ Remaining(r.tree) = Remaining(t) \ {r.name}
    BY <2>4, <2>6, TakeFromTakes DEF n
  <2>8. QED
    BY <2>1, <2>7 DEF k
<1>3. CASE ready = {}
  <2> DEFINE u == ResetExhausted(t)
  <2>1. TreeNext(t) = TakeFrom(u, 0)
    BY <1>0, <1>3 DEF TreeNext
  <2>2. /\ TreeOK(u) /\ SameNodes(t, u)
        /\ \A z \in DOMAIN t.tree : ~Exhausted(u.tree[z])
    BY ResetOK
  <2>3. Remaining(u) = Everything(t)
    BY ResetFills
  <2>4. ASSUME NEW z \in DOMAIN t.tree PROVE Exhausted(t.tree[z])
    <3>1. PICK j \in 1..n : t.zones[j] = z
      BY <1>0 DEF TreeOK, Range
    <3> HIDE DEF n, start
    <3>2. j - 1 \in 0..n-1
      BY <1>0, <3>1
    <3>3. PICK k \in 0..n-1 : (start + k) % n = j - 1
      BY <1>0, <1>a, <3>2, Turn
    <3>4. pos(k) + 1 = j
      BY <3>1, <3>3, <1>0
    <3>5. QED
      BY <1>3, <3>1, <3>3, <3>4
  <2>5. Remaining(t) = {}
    BY <2>4, ExhaustedAll
  <2> HIDE DEF u
  <2>6. OneZone(u)
    BY <2>2, SameNodesOneZone
  <2>7. u.zones = t.zones /\ 0 \in 0..Len(u.zones)-1 /\ u.zones[0+1] \in DOMAIN t.tree
    BY <1>0, <2>2 DEF SameNodes, TreeOK, Range
  <2>8. LET r == TakeFrom(u, 0)
        IN  r.name \in Remaining(u) /\ Remaining(r.tree) = Remaining(u) \ {r.name}
    BY <2>2, <2>6, <2>7, TakeFromTakes
  <2>9. QED
    BY <2>1, <2>3, <2>5, <2>8
<1>4. QED
  BY <1>2, <1>3

(* Listing names: what a listing has handed out after i calls, when the    *)
(* names in first remained of the round it began in.  First that round     *)
(* ends; then every name is handed out in turn.                            *)
Progress(names, left, all, first, i) ==
    LET r == Cardinality(first)
    IN  /\ names \in Seq(all) /\ Len(names) = i /\ left \subseteq all
        /\ i <= r => Cardinality(left) = r - i /\ first \subseteq Range(names) \cup left
        /\ r < i => /\ Cardinality(left) = r + Cardinality(all) - i
                    /\ first \subseteq Range(names)
                    /\ all \ left \subseteq Range(names)

LEMMA OneMoreName ==
    ASSUME NEW all, IsFiniteSet(all), NEW first, first \subseteq all,
           NEW i \in Nat, i < Cardinality(all),
           NEW names, NEW left, Progress(names, left, all, first, i),
           NEW name \in (IF left = {} THEN all ELSE left)
    PROVE  Progress(Append(names, name), (IF left = {} THEN all ELSE left) \ {name},
                    all, first, i + 1)
<1> DEFINE from == IF left = {} THEN all ELSE left
           new  == from \ {name}
           n    == Cardinality(all)
           r    == Cardinality(first)
           more == Append(names, name)
<1>1. left \subseteq all /\ names \in Seq(all) /\ Len(names) = i /\ name \in all
  BY DEF Progress
<1>2. /\ more \in Seq(all) /\ Len(more) = i + 1
      /\ Range(more) = Range(names) \cup {name}
  BY <1>1, AppendFacts
<1>3. /\ IsFiniteSet(from) /\ Cardinality(from) \in Nat /\ n \in Nat /\ r \in Nat
      /\ IsFiniteSet(left) /\ Cardinality(left) \in Nat
      /\ (Cardinality(left) = 0 <=> left = {})
  BY <1>1, FS_Subset, FS_CardinalityType, FS_EmptySet
<1>4. new \subseteq all /\ Cardinality(new) = Cardinality(from) - 1
  BY <1>1, <1>3, FS_RemoveElement
<1> HIDE DEF more
<1>6. CASE i < r
  <2>1. Cardinality(left) = r - i /\ first \subseteq Range(names) \cup left
    BY <1>3, <1>6 DEF Progress
  <2>2. from = left /\ Cardinality(new) = r - (i + 1)
    BY <1>3, <1>4, <1>6, <2>1
  <2>3. first \subseteq Range(more) \cup new
    BY <1>2, <2>1, <2>2
  <2>4. i + 1 <= r /\ ~(r < i + 1)
    BY <1>3, <1>6
  <2> HIDE DEF from, new, n
  <2>5. QED
    BY <1>2, <1>4, <2>2, <2>3, <2>4 DEF Progress, more, from, new, n, r
<1>7. CASE i = r
  <2>1. left = {} /\ first \subseteq Range(names)
    BY <1>3, <1>7 DEF Progress
  <2>2. Cardinality(new) = r + n - (i + 1) /\ all \ new = {name}
    BY <1>1, <1>3, <1>4, <1>7, <2>1
  <2> HIDE DEF from, new, n
  <2>3. all \ new \subseteq Range(more) /\ first \subseteq Range(more)
    BY <1>2, <2>1, <2>2
  <2>4. ~(i + 1 <= r)
    BY <1>3, <1>7
  <2>5. QED
    BY <1>2, <1>4, <2>2, <2>3, <2>4 DEF Progress, more, from, new, n, r
<1>8. CASE r < i
  <2>1. /\ Cardinality(left) = r + n - i
        /\ first \subseteq Range(names) /\ all \ left \subseteq Range(names)
    BY <1>3, <1>8 DEF Progress
  <2>2. from = left /\ Cardinality(new) = r + n - (i + 1)
    BY <1>3, <1>4, <1>8, <2>1
  <2>3. all \ new \subseteq Range(more) /\ first \subseteq Range(more)
    BY <1>2, <2>1, <2>2
  <2>4. ~(i + 1 <= r)
    BY <1>3, <1>8
  <2> HIDE DEF from, new, n
  <2>5. QED
    BY <1>2, <1>4, <2>2, <2>3, <2>4 DEF Progress, more, from, new, n, r
<1>9. QED
  BY <1>3, <1>6, <1>7, <1>8

(* A listing takes what remains of the round it begins in, and leaves out  *)
(* only names that remain for the next one.                                *)
LEMMA ListingProgress ==
    ASSUME NEW t, TreeOK(t), OneZone(t), t.zones # <<>>,
           NEW k \in Nat, k <= Cardinality(Everything(t))
    PROVE  Progress(TreeTake(t, k).names, Remaining(TreeTake(t, k).tree), Everything(t),
                    Remaining(t), k)
<1> DEFINE all   == Everything(t)
           first == Remaining(t)
<1>1. PICK c : IsCalls(c, t, k) /\ TreeTake(t, k) = c[k]
  BY TakeIsCalls
<1>2. /\ IsFiniteSet(all) /\ Cardinality(all) \in Nat
      /\ first \subseteq all /\ Cardinality(first) \in Nat
  <2>1. all \subseteq Names /\ first \subseteq all
    BY DEF Everything, Remaining, InTree, Range, TreeOK, Arrays
  <2>2. QED
    BY <2>1, NamesAssumption, FS_Subset, FS_CardinalityType
<1> DEFINE Good(i) == /\ TreeOK(c[i].tree) /\ SameNodes(t, c[i].tree)
                      /\ Progress(c[i].names, Remaining(c[i].tree), all, first, i)
           T == {i \in 0..k : Good(i)}
<1> HIDE DEF all, first
<1>3. 0 \in T
  <2>1. c[0] = [names |-> <<>>, tree |-> t]
    BY <1>1 DEF IsCalls
  <2>2. SameNodes(t, t)
    BY DEF SameNodes
  <2>3. Progress(<<>>, Remaining(t), all, first, 0)
    BY <1>2 DEF Progress, first, Range
  <2>4. Good(0)
    BY <2>1, <2>2, <2>3
  <2>5. QED
    BY <2>4
<1>4. ASSUME NEW i \in 0..k, i < k, i \in T PROVE i + 1 \in T
  <2> DEFINE u    == c[i].tree
             q    == TreeNext(u)
             from == IF Remaining(u) = {} THEN Everything(u) ELSE Remaining(u)
  <2>1. Good(i)
    BY <1>4
  <2>2. c[i+1] = [names |-> Append(c[i].names, q.name), tree |-> q.tree]
    BY <1>1, <1>4, NextCall
  <2>3. OneZone(u) /\ Everything(u) = all /\ u.zones # <<>>
    BY <2>1, SameNodesOneZone DEF SameNodes, all
  <2>4. TreeOK(q.tree) /\ SameNodes(u, q.tree)
    BY <2>1, TreeNextOK
  <2>5. q.name \in from /\ Remaining(q.tree) = from \ {q.name}
    BY <2>1, <2>3, NextTakes
  <2>6. SameNodes(t, q.tree)
    BY <2>1, <2>4, SameNodesTransitive
  <2> HIDE DEF u, q
  <2>7. Progress(Append(c[i].names, q.name), Remaining(q.tree), all, first, i + 1)
    <3>1. i \in Nat /\ i < Cardinality(all)
      BY <1>2, <1>4 DEF all
    <3>2. QED
      BY <1>2, <2>1, <2>3, <2>5, <3>1, OneMoreName DEF u
  <2>8. Good(i + 1)
    BY <2>2, <2>4, <2>6, <2>7
  <2> HIDE DEF Good
  <2>9. QED
    BY <1>4, <2>8
<1> HIDE DEF T
<1>5. 0..k \subseteq T
  BY <1>3, <1>4, UpTo
<1>6. Good(k)
  BY <1>5 DEF T
<1>7. QED
  BY <1>1, <1>6 DEF all, first

(* The inductive invariant: the arrays partition the known nodes by zone.  *)
ArraysFollow(t, kn) ==
    /\ DOMAIN kn \subseteq Names /\ kn \in [DOMAIN kn -> Zones]
    /\ \A z : NamesOf(t, z) = {n \in DOMAIN kn : kn[n] = z}
    /\ t.numNodes = Cardinality(DOMAIN kn)

TreeInv == TreeOK(nt) /\ Bounded(nt) /\ ArraysFollow(nt, known)

LEMMA TreeInitInv == TreeInit => TreeInv
<1> SUFFICES ASSUME TreeInit PROVE TreeInv
  OBVIOUS
<1>1. Cardinality(Zones) \in Nat
  BY NamesAssumption, FS_CardinalityType
<1>2. /\ DOMAIN nt.tree = {} /\ nt.zones = <<>> /\ nt.zoneIndex = 0 /\ nt.numNodes = 0
      /\ nt.tree \in [DOMAIN nt.tree -> Arrays] /\ IsRecord(nt)
  BY DEF TreeInit, EmptyTree, IsRecord
<1>3. TreeOK(nt)
  BY <1>2 DEF TreeOK, IsInjective, Range
<1>4. Bounded(nt)
  BY <1>1, <1>2 DEF Bounded
<1>5. DOMAIN known = {} /\ known \in [DOMAIN known -> Zones]
  BY DEF TreeInit
<1>6. ArraysFollow(nt, known)
  BY <1>2, <1>5, FS_EmptySet DEF ArraysFollow, NamesOf
<1>7. QED
  BY <1>3, <1>4, <1>6 DEF TreeInv

LEMMA KnownFinite ==
    TreeInv => IsFiniteSet(DOMAIN known) /\ Cardinality(DOMAIN known) \in Nat
  BY NamesAssumption, FS_Subset, FS_CardinalityType DEF TreeInv, ArraysFollow

LEMMA AddNameInv ==
    ASSUME TreeInv, NEW name \in Names, NEW zone \in Zones, AddName(name, zone)
    PROVE  TreeInv'
<1> DEFINE obj == Obj(name, zone)
<1>1. IsObj(obj) /\ obj.name = name /\ obj.zone = zone
  BY DEF IsObj, Obj
<1> HIDE DEF obj
<1>2. name \notin NamesOf(nt, zone)
  BY DEF TreeInv, ArraysFollow, AddName
<1>3. /\ TreeOK(nt') /\ Bounded(nt')
      /\ \A z : NamesOf(nt', z) = IF z = zone THEN NamesOf(nt, z) \cup {name}
                                  ELSE NamesOf(nt, z)
      /\ nt'.numNodes = nt.numNodes + 1
  BY <1>1, <1>2, TreeAddOK DEF TreeInv, AddName, obj
<1>4. /\ DOMAIN known' = DOMAIN known \cup {name} /\ name \notin DOMAIN known
      /\ \A n \in DOMAIN known' : known'[n] = IF n = name THEN zone ELSE known[n]
      /\ known' \in [DOMAIN known' -> Zones]
  BY DEF AddName, TreeInv, ArraysFollow
<1>5. Cardinality(DOMAIN known') = Cardinality(DOMAIN known) + 1
  BY <1>4, KnownFinite, FS_AddElement
<1>6. \A z : NamesOf(nt', z) = {n \in DOMAIN known' : known'[n] = z}
  BY <1>3, <1>4 DEF TreeInv, ArraysFollow
<1>7. QED
  BY <1>3, <1>4, <1>5, <1>6 DEF TreeInv, ArraysFollow

LEMMA MoveNameInv ==
    ASSUME TreeInv, NEW name \in Names, NEW zone \in Zones, MoveName(name, zone)
    PROVE  TreeInv'
<1> DEFINE old == Obj(name, known[name])
           new == Obj(name, zone)
<1>1. name \in DOMAIN known /\ known[name] \in Zones
  BY DEF MoveName, TreeInv, ArraysFollow
<1>2. /\ IsObj(old) /\ old.name = name /\ old.zone = known[name]
      /\ IsObj(new) /\ new.name = name /\ new.zone = zone
  BY <1>1 DEF IsObj, Obj
<1> HIDE DEF old, new
<1>3. /\ name \in NamesOf(nt, known[name])
      /\ known[name] # zone => name \notin NamesOf(nt, zone)
  BY <1>1 DEF TreeInv, ArraysFollow
<1>4. /\ TreeOK(nt') /\ Bounded(nt')
      /\ \A z : NamesOf(nt', z) = IF z = zone THEN NamesOf(nt, z) \cup {name}
                                  ELSE IF z = known[name] THEN NamesOf(nt, z) \ {name}
                                  ELSE NamesOf(nt, z)
      /\ nt'.numNodes = nt.numNodes
  BY <1>2, <1>3, TreeUpdateOK DEF TreeInv, MoveName, old, new
<1>5. /\ DOMAIN known' = DOMAIN known
      /\ \A n \in DOMAIN known' : known'[n] = IF n = name THEN zone ELSE known[n]
      /\ known' \in [DOMAIN known' -> Zones]
  BY DEF MoveName, TreeInv, ArraysFollow
<1>6. \A z : NamesOf(nt', z) = {n \in DOMAIN known' : known'[n] = z}
  BY <1>1, <1>4, <1>5 DEF TreeInv, ArraysFollow
<1>7. QED
  BY <1>4, <1>5, <1>6 DEF TreeInv, ArraysFollow

LEMMA RemoveNameInv ==
    ASSUME TreeInv, NEW name \in Names, RemoveName(name)
    PROVE  TreeInv'
<1> DEFINE obj == Obj(name, known[name])
<1>1. name \in DOMAIN known /\ known[name] \in Zones
  BY DEF RemoveName, TreeInv, ArraysFollow
<1>2. IsObj(obj) /\ obj.name = name /\ obj.zone = known[name]
  BY <1>1 DEF IsObj, Obj
<1> HIDE DEF obj
<1>3. name \in NamesOf(nt, known[name])
  BY <1>1 DEF TreeInv, ArraysFollow
<1>4. /\ TreeOK(nt') /\ Bounded(nt')
      /\ \A z : NamesOf(nt', z) = IF z = known[name] THEN NamesOf(nt, z) \ {name}
                                  ELSE NamesOf(nt, z)
      /\ nt'.numNodes = nt.numNodes - 1
  BY <1>2, <1>3, TreeRemoveOK DEF TreeInv, RemoveName, obj
<1>5. /\ DOMAIN known' = DOMAIN known \ {name}
      /\ \A n \in DOMAIN known' : known'[n] = known[n]
      /\ known' \in [DOMAIN known' -> Zones]
  BY DEF RemoveName, Restrict, TreeInv, ArraysFollow
<1>6. Cardinality(DOMAIN known') = Cardinality(DOMAIN known) - 1
  BY <1>1, <1>5, KnownFinite, FS_RemoveElement
<1>7. \A z : NamesOf(nt', z) = {n \in DOMAIN known' : known'[n] = z}
  BY <1>4, <1>5 DEF TreeInv, ArraysFollow
<1>8. QED
  BY <1>4, <1>5, <1>6, <1>7 DEF TreeInv, ArraysFollow

LEMMA ListingInv ==
    ASSUME TreeInv, List
    PROVE  TreeInv'
<1>0. nt.numNodes \in Nat
  BY KnownFinite DEF TreeInv, ArraysFollow
<1>1. /\ TreeOK(nt') /\ Bounded(nt') /\ SameNodes(nt, nt') /\ known' = known
  BY <1>0, TreeTakeOK DEF TreeInv, List
<1>2. \A z : NamesOf(nt', z) = NamesOf(nt, z)
  BY <1>1, SameNames
<1>3. QED
  BY <1>1, <1>2 DEF TreeInv, ArraysFollow, SameNodes

(* Additions, moves, removals and listings keep the invariant.             *)
THEOREM NodeTreeInvariant == TreeSpec => []TreeInv
<1>1. TreeInv /\ [TreeStep]_treeVars => TreeInv'
  <2> SUFFICES ASSUME TreeInv, [TreeStep]_treeVars PROVE TreeInv'
    OBVIOUS
  <2>1. CASE UNCHANGED treeVars
    BY <2>1 DEF treeVars, TreeInv
  <2>2. ASSUME NEW name \in Names, NEW zone \in Zones, AddName(name, zone) PROVE TreeInv'
    BY <2>2, AddNameInv
  <2>3. ASSUME NEW name \in Names, NEW zone \in Zones, MoveName(name, zone) PROVE TreeInv'
    BY <2>3, MoveNameInv
  <2>4. ASSUME NEW name \in Names, RemoveName(name) PROVE TreeInv'
    BY <2>4, RemoveNameInv
  <2>5. CASE List
    BY <2>5, ListingInv
  <2>6. QED
    BY <2>1, <2>2, <2>3, <2>4, <2>5 DEF TreeStep
<1>2. QED
  BY <1>1, TreeInitInv, PTL DEF TreeSpec

(* Every known node is in the array of its zone, once, and in no other,    *)
(* whatever the number of nodes and zones.                                 *)
THEOREM TreeMatches == TreeSpec => []TreeMatchesNodes
<1>1. TreeInv => TreeMatchesNodes
  <2> SUFFICES ASSUME TreeInv PROVE TreeMatchesNodes
    OBVIOUS
  <2>1. DOMAIN nt.tree = Range(known)
    <3>1. ASSUME NEW z \in DOMAIN nt.tree PROVE z \in Range(known)
      <4>1. nt.tree[z].nodes \in Seq(Names) /\ nt.tree[z].nodes # <<>>
        BY DEF TreeInv, TreeOK, Arrays
      <4>2. nt.tree[z].nodes[1] \in NamesOf(nt, z)
        BY <4>1 DEF NamesOf, Range
      <4>3. QED
        BY <4>2 DEF TreeInv, ArraysFollow, Range
    <3>2. ASSUME NEW n \in DOMAIN known PROVE known[n] \in DOMAIN nt.tree
      BY DEF TreeInv, ArraysFollow, NamesOf
    <3>3. QED
      BY <3>1, <3>2 DEF Range
  <2>2. ASSUME NEW z \in DOMAIN nt.tree
        PROVE  nt.tree[z].lastIndex \in 0..Cardinality(Names)
    <3>1. nt.tree[z].lastIndex \in Nat /\ Cardinality(Names) \in Nat
      BY NamesAssumption, FS_CardinalityType DEF TreeInv, TreeOK, Arrays
    <3>2. QED
      BY <3>1 DEF TreeInv, Bounded
  <2>3. nt.zoneIndex \in 0..Cardinality(Zones)
    <3>1. nt.zoneIndex \in Nat /\ Cardinality(Zones) \in Nat
      BY NamesAssumption, FS_CardinalityType DEF TreeInv, TreeOK
    <3>2. QED
      BY <3>1 DEF TreeInv, Bounded
  <2>4. QED
    BY <2>1, <2>2, <2>3 DEF TreeMatchesNodes, TreeInv, TreeOK, ArraysFollow
<1>2. QED
  BY <1>1, NodeTreeInvariant, PTL

(* What the last listing left out remains for the next one.                *)
LeftRemains == leftOut \subseteq Remaining(nt)

LEMMA TreeIsSplit ==
    ASSUME TreeInv
    PROVE  OneZone(nt) /\ Everything(nt) = DOMAIN known
<1>1. ASSUME NEW y \in DOMAIN nt.tree, NEW z \in DOMAIN nt.tree,
             NEW n, n \in Range(nt.tree[y].nodes), n \in Range(nt.tree[z].nodes)
      PROVE  y = z
  BY <1>1 DEF TreeInv, ArraysFollow, NamesOf
<1>2. ASSUME NEW n \in Names PROVE InTree(nt, n) <=> n \in DOMAIN known
  BY DEF InTree, TreeInv, ArraysFollow, NamesOf
<1>3. QED
  BY <1>1, <1>2 DEF OneZone, Everything, TreeInv, ArraysFollow

(* A listing takes all that remains, and what it leaves out remains.       *)
LEMMA ListingTakesRemaining ==
    ASSUME TreeInv
    PROVE  LET r == TreeTake(nt, nt.numNodes)
           IN  /\ Remaining(nt) \subseteq Range(r.names)
               /\ DOMAIN known \ Range(r.names) \subseteq Remaining(r.tree)
<1> DEFINE all   == Everything(nt)
           first == Remaining(nt)
           k     == nt.numNodes
           names == TreeTake(nt, k).names
           left  == Remaining(TreeTake(nt, k).tree)
<1>1. TreeOK(nt) /\ OneZone(nt) /\ all = DOMAIN known
  BY TreeIsSplit DEF TreeInv
<1>2. k = Cardinality(all) /\ k \in Nat /\ IsFiniteSet(all)
  BY <1>1, KnownFinite DEF TreeInv, ArraysFollow
<1>3. first \subseteq all
  BY DEF Everything, Remaining, InTree, Range, TreeInv, TreeOK, Arrays
<1>4. /\ Cardinality(first) \in Nat /\ Cardinality(first) <= k
      /\ Cardinality(first) = k => first = all
  BY <1>2, <1>3, FS_Subset, FS_CardinalityType
<1>5. CASE nt.zones = <<>>
  <2>1. DOMAIN nt.tree = {}
    BY <1>1, <1>5 DEF TreeOK, Range
  <2>2. first = {} /\ all = {}
    BY <2>1 DEF Remaining, Everything, InTree
  <2> HIDE DEF all, first, k
  <2>3. QED
    BY <1>1, <2>2 DEF first, k
<1>6. CASE nt.zones # <<>>
  <2>1. Progress(names, left, all, first, k)
    BY <1>1, <1>2, <1>6, ListingProgress
  <2> HIDE DEF names, left, all, first, k
  <2>2. CASE Cardinality(first) < k
    BY <1>1, <2>1, <2>2 DEF Progress, names, left, first, k
  <2>3. CASE Cardinality(first) = k
    <3>1. Cardinality(left) = 0 /\ left \subseteq all /\ first \subseteq Range(names) \cup left
      BY <1>2, <1>4, <2>1, <2>3 DEF Progress
    <3>2. left = {}
      BY <1>2, <3>1, FS_Subset, FS_EmptySet
    <3>3. QED
      BY <1>1, <1>4, <2>3, <3>1, <3>2 DEF names, left, first, k
  <2>4. QED
    BY <1>2, <1>4, <2>2, <2>3
<1>7. QED
  BY <1>5, <1>6

(* A new name goes to the end of an array: nothing that remains is lost.   *)
LEMMA AdditionKeepsRemaining ==
    ASSUME NEW t, TreeOK(t), NEW obj, IsObj(obj)
    PROVE  Remaining(t) \subseteq Remaining(TreeAddNode(t, obj))
<1> DEFINE u == TreeAddNode(t, obj)
<1>1. ASSUME NEW z \in DOMAIN t.tree
      PROVE  /\ z \in DOMAIN u.tree
             /\ u.tree[z].lastIndex = t.tree[z].lastIndex
             /\ Len(u.tree[z].nodes) >= Len(t.tree[z].nodes)
             /\ \A i \in 1..Len(t.tree[z].nodes) : u.tree[z].nodes[i] = t.tree[z].nodes[i]
  <2>0. /\ t.tree[z] \in Arrays /\ t.tree[z].nodes \in Seq(Names)
        /\ Len(t.tree[z].nodes) \in Nat /\ obj.name \in Names
    BY DEF TreeOK, Arrays, IsObj
  <2>1. CASE obj.name \in NamesOf(t, obj.zone)
    BY <2>0, <2>1 DEF TreeAddNode
  <2>2. CASE obj.name \notin NamesOf(t, obj.zone) /\ obj.zone \in DOMAIN t.tree
    <3>1. u.tree = [t.tree EXCEPT ![obj.zone].nodes = Append(@, obj.name)]
      BY <2>2 DEF TreeAddNode, TreeOK, IsRecord
    <3> HIDE DEF u
    <3>2. u.tree[z] = IF z = obj.zone
                      THEN [t.tree[z] EXCEPT !.nodes = Append(t.tree[z].nodes, obj.name)]
                      ELSE t.tree[z]
      BY <3>1
    <3>3. DOMAIN u.tree = DOMAIN t.tree
      BY <3>1
    <3> DEFINE new == Append(t.tree[z].nodes, obj.name)
    <3>4. /\ Len(new) = Len(t.tree[z].nodes) + 1
          /\ \A i \in 1..Len(t.tree[z].nodes) : new[i] = t.tree[z].nodes[i]
      BY <2>0, AppendFacts
    <3> HIDE DEF new
    <3>5. /\ u.tree[z].lastIndex = t.tree[z].lastIndex
          /\ u.tree[z].nodes = IF z = obj.zone THEN new ELSE t.tree[z].nodes
      BY <2>0, <3>2 DEF Arrays, new
    <3>6. QED
      BY <2>0, <3>3, <3>4, <3>5
  <2>3. CASE obj.name \notin NamesOf(t, obj.zone) /\ obj.zone \notin DOMAIN t.tree
    <3>1. u.tree = [y \in DOMAIN t.tree \cup {obj.zone} |->
                      IF y = obj.zone THEN [nodes |-> <<obj.name>>, lastIndex |-> 0] ELSE t.tree[y]]
      BY <2>3 DEF TreeAddNode, TreeOK, IsRecord
    <3>2. u.tree[z] = t.tree[z] /\ z \in DOMAIN u.tree
      BY <2>3, <3>1
    <3>3. QED
      BY <2>0, <3>2
  <2>4. QED
    BY <2>1, <2>2, <2>3
<1> HIDE DEF u
<1>2. \A z \in DOMAIN t.tree : Len(t.tree[z].nodes) \in Nat
  BY DEF TreeOK, Arrays
<1>3. \A z \in DOMAIN u.tree : Len(u.tree[z].nodes) \in Nat
  BY TreeAddOK DEF u, TreeOK, Arrays
<1>4. ASSUME NEW n \in Remaining(t) PROVE n \in Remaining(u)
  <2>1. PICK z \in DOMAIN t.tree : \E i \in 1..Len(t.tree[z].nodes) :
                i > t.tree[z].lastIndex /\ t.tree[z].nodes[i] = n
    BY DEF Remaining
  <2>2. PICK i \in 1..Len(t.tree[z].nodes) : i > t.tree[z].lastIndex /\ t.tree[z].nodes[i] = n
    BY <2>1
  <2>3. i \in 1..Len(u.tree[z].nodes) /\ i > u.tree[z].lastIndex /\ u.tree[z].nodes[i] = n
    BY <1>1, <1>2, <1>3, <2>2
  <2>4. n \in Names
    BY DEF Remaining
  <2>5. QED
    BY <1>1, <2>3, <2>4 DEF Remaining
<1>5. QED
  BY <1>4 DEF u

LEMMA LeftRemainsNext == TreeInv /\ LeftRemains /\ [TreeStep]_treeVars => LeftRemains'
<1> SUFFICES ASSUME TreeInv, LeftRemains, [TreeStep]_treeVars PROVE LeftRemains'
  OBVIOUS
<1>1. CASE UNCHANGED treeVars
  BY <1>1 DEF treeVars, LeftRemains
<1>2. ASSUME NEW name \in Names, NEW zone \in Zones, AddName(name, zone) PROVE LeftRemains'
  <2>1. IsObj(Obj(name, zone))
    BY DEF IsObj, Obj
  <2>2. QED
    BY <1>2, <2>1, AdditionKeepsRemaining DEF AddName, LeftRemains, TreeInv
<1>3. ASSUME NEW name \in Names, NEW zone \in Zones, MoveName(name, zone) PROVE LeftRemains'
  BY <1>3 DEF MoveName, TreeUpdateNode, Obj, LeftRemains
<1>4. ASSUME NEW name \in Names, RemoveName(name) PROVE LeftRemains'
  BY <1>4 DEF RemoveName, LeftRemains
<1>5. CASE List
  BY <1>5, ListingTakesRemaining DEF List, LeftRemains
<1>6. QED
  BY <1>1, <1>2, <1>3, <1>4, <1>5 DEF TreeStep

(* What a listing leaves out remained of its round, additions do not take  *)
(* it back, and the next listing begins with all that remains.             *)
THEOREM LeftOutAreNext == TreeSpec => []LeftOutComesNext
<1>1. TreeInit => LeftRemains
  BY DEF TreeInit, LeftRemains
<1>2. TreeSpec => []LeftRemains
  BY <1>1, LeftRemainsNext, NodeTreeInvariant, PTL DEF TreeSpec
<1>3. TreeInv /\ LeftRemains => LeftOutComesNext
  BY ListingTakesRemaining DEF LeftRemains, LeftOutComesNext
<1>4. QED
  BY <1>2, <1>3, NodeTreeInvariant, PTL

=============================================================================
