----------------------------- MODULE NodeFilters -----------------------------
(***************************************************************************)
(* The filter plugins of the general purpose scheduler that look at one    *)
(* node, as operators.  A pod is a record of what the plugins read of its  *)
(* spec (ns, app, nodeName, tolerates, selector, required, containers,     *)
(* inits, overhead, ports, disks, affinity, anti), a node one of its       *)
(* status and spec (name, ready, unschedulable, taints, labels,            *)
(* allocatable, allowedPods, reserved).                                    *)
(***************************************************************************)
EXTENDS Naturals, FiniteSets, Sequences, SequencesExt

CONSTANTS
    Computed,        \* cpu, memory and ephemeral storage, which may be reserved
    Scalar,          \* the other resources
    AnyIP,           \* DefaultBindAllHostIP
    NoIP,            \* the empty host address
    Nil

Resources == Computed \cup Scalar

ASSUME FilterAssumption == Computed \cap Scalar = {} /\ AnyIP # NoIP

-----------------------------------------------------------------------------
(* Resources.  Containers run together, init containers one by one before. *)
NoRequest == [r \in Resources |-> 0]

Added(a, b) == [r \in Resources |-> a[r] + b[r]]

Largest(a, b) == [r \in Resources |-> Max({a[r], b[r]})]

(* Mutant: init containers are forgotten. *)
PodRequestNoInits(pod) ==
    Added(FoldLeft(Added, NoRequest, pod.containers), pod.overhead)

PodRequest(pod) ==
    Added(FoldLeft(Largest, FoldLeft(Added, NoRequest, pod.containers), pod.inits), pod.overhead)

(* A reservation counts for a minute.                                      *)
Reserved(node, r) ==
    IF r \in Scalar THEN 0
    ELSE SumFunction([v \in {w \in node.reserved : ~w.expired} |-> v.amount[r]])

(* What the node is short of for a request, given what its pods request.   *)
Insufficient(request, node, pods, requested) ==
    (IF Cardinality(pods) + 1 > node.allowedPods THEN {"pods"} ELSE {})
    \cup {r \in Resources :
            /\ \E s \in Resources : request[s] > 0
            /\ r \in Scalar => request[r] > 0
            /\ node.allocatable[r] < request[r] + requested[r] + Reserved(node, r)}

FitsResources(pod, node, pods, requested) ==
    Insufficient(PodRequest(pod), node, pods, requested) = {}

-----------------------------------------------------------------------------
(* Host ports: a set of (address, port), whoever uses them.                *)
Sanitized(cp) == [cp EXCEPT !.ip = IF @ = NoIP THEN AnyIP ELSE @]

HostPorts(pod) == {Sanitized(cp) : cp \in {c \in pod.ports : c.port > 0}}

AddPorts(used, pod)    == used \cup HostPorts(pod)
RemovePorts(used, pod) == used \ HostPorts(pod)

(* Mutant: the wildcard address only conflicts with itself. *)
CheckConflictSameIP(used, cp) == cp.port > 0 /\ Sanitized(cp) \in used

CheckConflict(used, cp) ==
    /\ cp.port > 0
    /\ \E u \in used :
         /\ u.port = cp.port
         /\ Sanitized(cp).ip # AnyIP => u.ip \in {AnyIP, Sanitized(cp).ip}

FitsPorts(pod, used) == \A cp \in pod.ports : ~CheckConflict(used, cp)

-----------------------------------------------------------------------------
(* Disks: only AWS volumes conflict although both are read-only; two RBD   *)
(* images are one when they share a monitor (part).                        *)
DiskConflict(v, w) ==
    /\ v.kind = w.kind /\ v.id = w.id
    /\ v.parts \cap w.parts # {}
    /\ v.kind = "aws" \/ ~(v.ro /\ w.ro)

DisksFree(pod, others) ==
    \A q \in others : \A v \in pod.disks, w \in q.disks : ~DiskConflict(v, w)

-----------------------------------------------------------------------------
(* The node itself.  Without a Ready condition it is not ready.            *)
NodeReady(node) == node.ready = "True"

UntoleratedTaints(pod, taints) == taints \ pod.tolerates

Tolerated(pod, node) ==
    UntoleratedTaints(pod, {t \in node.taints : t.effect \in {"NoSchedule", "NoExecute"}}) = {}

ToleratesCordon(pod, node) ==
    node.unschedulable => [key |-> "unschedulable", effect |-> "NoSchedule"] \in pod.tolerates

LabelPairs(node) == {<<k, node.labels[k]>> : k \in DOMAIN node.labels}

(* A pod without required terms takes any node, one with an empty list     *)
(* takes none, nor does an empty term.                                     *)
NodeSelected(pod, node) ==
    /\ pod.selector \subseteq LabelPairs(node)
    /\ pod.required # Nil => \E t \in pod.required : t # {} /\ t \subseteq LabelPairs(node)

NamedNode(pod, node) == pod.nodeName \in {Nil, node.name}
=============================================================================
