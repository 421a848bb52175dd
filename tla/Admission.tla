------------------------------ MODULE Admission ------------------------------
(***************************************************************************)
(* Which pods get on a node together.  A scheduler runs the filters on     *)
(* what its cache shows and binds the pod; the binding is charged to the   *)
(* node only when the informer delivers it, because Schedule never assumes *)
(* a pod, so that pods are placed blind to those in flight.                *)
(***************************************************************************)
EXTENDS NodeFilters, InterPodAffinity

CONSTANTS
    Pods, Nodes,
    PodShapes,       \* the records a pod may have
    NodeShapes(_),   \* the records a node may have
    Wirings          \* values of shared: {FALSE} is what New does

Amounts == [Resources -> Nat]

(* A container port is an address and a number.  The API server takes no   *)
(* negative amounts.                                                       *)
ASSUME AdmissionAssumption ==
    /\ Nil \notin Nodes
    /\ \A s \in PodShapes :
          /\ \A cp \in s.ports : cp = [ip |-> cp.ip, port |-> cp.port] /\ cp.port \in Nat
          /\ s.containers \in Seq(Amounts) /\ s.inits \in Seq(Amounts) /\ s.overhead \in Amounts
    /\ \A n \in Nodes : \A s \in NodeShapes(n) :
          /\ s.allocatable \in Amounts /\ s.allowedPods \in Nat
          /\ IsFiniteSet(s.reserved) /\ \A v \in s.reserved : v.amount \in [Computed -> Nat]

VARIABLES
    shape, node,     \* the records of the pods and nodes, which never change
    shared,          \* whether the plugins' lister lists the snapshot's nodes
    alive, bound,    \* the pods in the API server, and the nodes they are bound to
    seen, used,      \* what the cache shows: bound pods, and the ports of each node
    blind,           \* history: the pods in flight when a pod was placed
    doubled          \* history: the nodes on which two pods have shown one port

cluster == <<alive, bound>>
cache   == <<seen, used>>
vars    == <<shape, node, shared, cluster, cache, blind, doubled>>

Shown(n) == {p \in seen : bound[p] = n}

Requested(pods) == [r \in Resources |-> SumFunction([p \in pods |-> PodRequest(shape[p])[r]])]

Init ==
    /\ shape \in [Pods -> PodShapes]
    /\ node \in [Nodes -> UNION {NodeShapes(n) : n \in Nodes}]
    /\ \A n \in Nodes : node[n] \in NodeShapes(n)
    /\ shared \in Wirings
    /\ alive = {} /\ bound = [p \in Pods |-> Nil]
    /\ seen = {} /\ used = [n \in Nodes |-> {}]
    /\ blind = [p \in Pods |-> {}]
    /\ doubled = {}

-----------------------------------------------------------------------------
(* What PreFilter finds.  New gives the framework a snapshot of which it   *)
(* keeps a copy, and only the copy's lists are updated, so that the lister *)
(* of the plugins lists no node: shared is FALSE.  TRUE is what the plugin *)
(* is written for, a lister of the snapshot the filters see.               *)
Listed == IF shared THEN Nodes ELSE {}

PreFilterState(p) == PreFilter(shape, node, [n \in Listed |-> Shown(n)], p)

Code(ok, otherwise) == IF ok THEN "Success" ELSE otherwise

(* The filter plugins and the status of each for p on n.  VolumeBinding is *)
(* left out: pods here have no claims.                                     *)
FilterCodes(p, n) ==
    LET pod == shape[p]
        rec == node[n]
        final(ok) == Code(ok, "UnschedulableAndUnresolvable")
    IN  [NodeStatus         |-> final(NodeReady(rec)),
         TaintToleration    |-> final(Tolerated(pod, rec)),
         NodeAffinity       |-> final(NodeSelected(pod, rec)),
         NodeResourcesFit   |-> Code(FitsResources(pod, rec, Shown(n), Requested(Shown(n))),
                                     "Unschedulable"),
         NodeName           |-> final(NamedNode(pod, rec)),
         NodePorts          |-> Code(FitsPorts(pod, used[n]), "Unschedulable"),
         NodeUnschedulable  |-> final(ToleratesCordon(pod, rec)),
         InterPodAffinity   |-> AffinityFilter(shape, PreFilterState(p), p, rec),
         VolumeRestrictions |-> Code(DisksFree(pod, {shape[q] : q \in Shown(n)}), "Unschedulable")]

(* The plugins that failed, with their status.                             *)
RunFilterPlugins(p, n) ==
    LET codes == FilterCodes(p, n)
    IN  [pl \in {x \in DOMAIN codes : codes[x] # "Success"} |-> codes[pl]]

Feasible(p) == {n \in Nodes : DOMAIN RunFilterPlugins(p, n) = {}}

-----------------------------------------------------------------------------
Create(p) ==
    /\ p \notin alive /\ p \notin seen
    /\ alive' = alive \cup {p}
    /\ bound' = [bound EXCEPT ![p] = Nil]
    /\ blind' = [q \in Pods |-> IF q = p THEN {} ELSE blind[q] \ {p}]
    /\ UNCHANGED <<shape, node, shared, cache, doubled>>

(* Schedule and bind.                                                      *)
Place(p) ==
    /\ p \in alive /\ bound[p] = Nil
    /\ \E n \in Feasible(p) : bound' = [bound EXCEPT ![p] = n]
    /\ blind' = [blind EXCEPT ![p] = {q \in alive \ seen : bound[q] # Nil}]
    /\ UNCHANGED <<shape, node, shared, alive, cache, doubled>>

(* The informer shows a binding: AddPod of the cache.                      *)
Show(p) ==
    /\ p \in alive /\ bound[p] # Nil /\ p \notin seen
    /\ seen' = seen \cup {p}
    /\ used' = [used EXCEPT ![bound[p]] = AddPorts(@, shape[p])]
    /\ doubled' = IF HostPorts(shape[p]) \cap used[bound[p]] = {} THEN doubled
                  ELSE doubled \cup {bound[p]}
    /\ UNCHANGED <<shape, node, shared, cluster, blind>>

(* A pod ends or is deleted; the node runs it no longer.                   *)
Delete(p) ==
    /\ p \in alive
    /\ alive' = alive \ {p}
    /\ UNCHANGED <<shape, node, shared, bound, cache, blind, doubled>>

(* The informer shows the deletion: RemovePod of the cache.                *)
Hide(p) ==
    /\ p \in seen \ alive
    /\ seen' = seen \ {p}
    /\ used' = [used EXCEPT ![bound[p]] = RemovePorts(@, shape[p])]
    /\ UNCHANGED <<shape, node, shared, cluster, blind, doubled>>

Next == \E p \in Pods : Create(p) \/ Place(p) \/ Show(p) \/ Delete(p) \/ Hide(p)

Spec == Init /\ [][Next]_vars

-----------------------------------------------------------------------------
Running(n) == {p \in alive : bound[p] = n}

(* Two pods of which neither was placed blind to the other.                *)
Aware(p, q) == p \notin blind[q] /\ q \notin blind[p]

(* Whether two nodes are one domain of a term.                             *)
SameDomain(key, n, m) ==
    /\ key \in DOMAIN node[n].labels /\ key \in DOMAIN node[m].labels
    /\ node[n].labels[key] = node[m].labels[key]

(* Whether a term of p forbids q where the two run.                        *)
Forbids(p, q) ==
    \E t \in shape[p].anti :
        TermMatches(shape, p, t, q) /\ SameDomain(t.key, bound[p], bound[q])

SamePort(cp, cq) ==
    /\ cp.port = cq.port /\ cp.port > 0
    /\ \/ cp.ip = cq.ip
       \/ {cp.ip, cq.ip} \cap {AnyIP, NoIP} # {}

(* Pods placed with knowledge of each other never need more together than  *)
(* their node has, at any stage of their start: an init container running, *)
(* or all containers.                                                      *)
Stages(pod) ==
    {[r \in Resources |-> pod.overhead[r] + pod.inits[i][r]] : i \in DOMAIN pod.inits}
    \cup {[r \in Resources |-> pod.overhead[r] +
              SumFunction([c \in DOMAIN pod.containers |-> pod.containers[c][r]])]}

RoomUnlessBlind ==
    \A n \in Nodes : \A S \in SUBSET Running(n) :
        (\A p, q \in S : Aware(p, q)) =>
            /\ Cardinality(S) <= node[n].allowedPods
            /\ \A r \in Resources :
                 SumFunction([p \in S |-> Max({s[r] : s \in Stages(shape[p])})])
                    <= node[n].allocatable[r]

(* Two running pods share a host port only when one was placed blind to    *)
(* the other, or when two pods have shared one on that node before: the    *)
(* cache keeps a set of ports, not the number of their users.              *)
PortsUnlessBlind ==
    \A p, q \in alive :
        p # q /\ bound[p] = bound[q] /\ bound[p] \in Nodes \ doubled /\ Aware(p, q) =>
            \A cp \in shape[p].ports, cq \in shape[q].ports : ~SamePort(cp, cq)

(* Two running pods mount a disk together, one of them writing, only when  *)
(* one was placed blind to the other.                                      *)
DisksUnlessBlind ==
    \A p, q \in alive :
        p # q /\ bound[p] = bound[q] /\ bound[p] # Nil /\ Aware(p, q) =>
            \A v \in shape[p].disks, w \in shape[q].disks :
                v.kind = w.kind /\ v.id = w.id /\ v.parts \cap w.parts # {} => v.ro /\ w.ro

(* What can be shared is shared only as the filters allow.                 *)
NothingSharedUnlessBlind == PortsUnlessBlind /\ DisksUnlessBlind

(* With a shared snapshot, required anti-affinity holds in both directions *)
(* between all running pods, unless one was placed blind to the other.     *)
AntiAffinityUnlessBlind ==
    shared => \A p, q \in alive :
        p # q /\ bound[p] # Nil /\ bound[q] # Nil /\ Aware(p, q) => ~Forbids(p, q)

(* With a shared one, a pod is placed in a domain in which every term of   *)
(* its affinity is matched by a pod that matches all of them, or, as the   *)
(* first of a series, when it matches its own terms and no pod does that   *)
(* runs in a domain of one of them.                                        *)
AffinityWhenPlaced ==
    [][\A p \in Pods :
        LET matching == {q \in seen : MatchesAllTerms(shape, p, q)}
        IN  shared /\ bound[p] = Nil /\ bound'[p] # Nil =>
              \/ \A t \in shape[p].affinity : \E q \in matching :
                    SameDomain(t.key, bound'[p], bound[q])
              \/ /\ MatchesAllTerms(shape, p, p)
                 /\ \A q \in matching, t \in shape[p].affinity :
                        t.key \notin DOMAIN node[bound[q]].labels]_vars

(* filtering.go:401: "Checks if scheduling the pod onto this node would    *)
(* break any anti-affinity terms indicated by the existing pods."  Then no *)
(* pod is placed where a pod the cache shows forbids it.                   *)
ExistingPodsKeepAway ==
    \A p \in alive, q \in alive :
        p # q /\ bound[p] # Nil /\ bound[q] # Nil /\ Aware(p, q) => ~Forbids(q, p)
=============================================================================
