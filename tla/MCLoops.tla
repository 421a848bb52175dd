------------------------------ MODULE MCLoops ------------------------------
(***************************************************************************)
(* Five parts that share no state: the scheduler cache under an arbitrary  *)
(* caller, the node tree alone (NodeTree), the choice among scored nodes   *)
(* (Selection), the short job scheduler and the autoscaler.  A behaviour   *)
(* is one of a single part, and the variables of the others keep an        *)
(* initial value.                                                          *)
(*                                                                         *)
(* The cache has two nodes, two pods (p1 has affinity terms) and the       *)
(* nameless node of pods that are not scheduled.                           *)
(***************************************************************************)
EXTENDS SchedulerCache, NodeTree, Selection, ShortJobScheduler, Autoscaler, TLC

CONSTANTS Parts, n1, n2, n3, n4, p1, p2, p3, z1, z2, z3, port

NoPorts == [k \in PodKeys |-> {}]

VARIABLE part

-----------------------------------------------------------------------------
(* Four nodes in two zones or three in three: n4 and z3 do not meet.       *)
TreeBound == n4 \notin DOMAIN known \/ z3 \notin Range(known)

(* The cache gets to know two nodes and two zones only.                    *)
CacheBound ==
    /\ DOMAIN store.nodes \subseteq {n1, n2, NoNode} /\ DOMAIN tree.tree \subseteq {z1, z2}
    /\ \A k \in DOMAIN podStates : podStates[k].pod.node \in {n1, n2, NoNode}

-----------------------------------------------------------------------------
(* Selection: equal nodes; a node to be avoided and one whose capacity has *)
(* no number; a pod with preferences whose weights are above 100 together, *)
(* which no node of one world meets and n1 of the other does; a pod that   *)
(* runs and is liked by one and keeps away from another, listed or not; a  *)
(* node that is listed twice, beside one that is better or equal.          *)
PlainNode == [labels |-> <<>>, taints |-> {}, images |-> {}, capacity |-> 4, requested |-> 1]
PlainPod  == [prefers |-> {}, tolerates |-> {}, images |-> {},
              ns |-> "x", app |-> "a", affinity |-> {}, near |-> {}]

Prefers(label, w) ==
    [weight |-> w, expressions |-> {[key |-> label, op |-> "Exists", values |-> {}]}]

Greedy    == [PlainPod EXCEPT !.prefers = {Prefers("ssd", 40), Prefers("gpu", 70)}]
WithImage == [PlainPod EXCEPT !.images = {"i"}]
Avoided   == [PlainNode EXCEPT !.taints = {[key |-> "old", effect |-> "PreferNoSchedule"]},
                               !.requested = 2]
Huge      == [PlainNode EXCEPT !.capacity = Unknown, !.images = {"i"}]

Near(apps, w)  == [namespaces |-> {}, apps |-> apps, key |-> "zone", weight |-> w]
Zoned(z)       == [PlainNode EXCEPT !.labels = [zone |-> z]]
Likes(apps)    == [PlainPod EXCEPT !.near = {Near(apps, 30)}]
Server         == [PlainPod EXCEPT !.app = "s", !.near = {Near({"b"}, -5)},
                                   !.affinity = {[namespaces |-> {}, apps |-> {"a"}, key |-> "zone"]}]

World(nodeRecs, podRecs, high) ==
    [node |-> nodeRecs, pod |-> podRecs, running |-> <<>>, listed |-> {}, high |-> high,
     slots |-> [n \in DOMAIN nodeRecs |-> 1]]

Empty == [PlainNode EXCEPT !.requested = 0]

MCChoices ==
    { World(n1 :> PlainNode @@ n2 :> PlainNode,
            p1 :> PlainPod @@ p2 :> PlainPod @@ p3 :> PlainPod, FALSE),
      World(n1 :> Avoided @@ n2 :> Huge @@ NoNode :> PlainNode,
            p1 :> WithImage @@ p2 :> PlainPod, TRUE) }
    \cup {[World(n1 :> twice @@ n2 :> Empty, p1 :> PlainPod @@ p2 :> PlainPod, FALSE)
              EXCEPT !.slots = n1 :> 2 @@ n2 :> 1] : twice \in {PlainNode, Empty}}
    \cup {World(n1 :> [PlainNode EXCEPT !.labels = labels] @@ n2 :> PlainNode @@ NoNode :> PlainNode,
                p1 :> Greedy @@ p2 :> PlainPod, FALSE)
            : labels \in {[ssd |-> 1], [ssd |-> 1, gpu |-> 1]}}
    \cup {[World(n1 :> Zoned(1) @@ n2 :> Zoned(2),
                 p1 :> Likes({"s"}) @@ p2 :> [PlainPod EXCEPT !.app = app] @@ p3 :> Server, FALSE)
              EXCEPT !.running = (p3 :> n1), !.listed = seen]
            : app \in {"a", "b"}, seen \in {{}, {n1, n2}}}

-----------------------------------------------------------------------------
(* ShortJobScheduler: three nodes, one of them tainted in some worlds, and *)
(* two jobs that are alike or not.                                         *)
Taint(label, effect)  == [key |-> label, value |-> 1, effect |-> effect]
ShortNode(taints, c)  == [taints |-> taints, capacity |-> c]
ShortJob(tols, m)     == [tolerations |-> tols, memory |-> m]
TwoJobs(a, b)         == p1 :> a @@ p2 :> b

Tainted == ShortNode({Taint("a", "NoSchedule")}, 2)
Twofold == ShortNode({Taint("a", "NoSchedule"), Taint("b", "NoSchedule")}, 2)
Free(c) == ShortNode({}, c)

MCJobs ==
    { [node |-> <<Free(2), Free(2), Free(2)>>, job |-> TwoJobs(ShortJob({}, <<1>>), ShortJob({}, <<1>>))],
      [node |-> <<Tainted, Free(2), Free(1)>>,
       job  |-> TwoJobs(ShortJob({}, <<1, 1>>), ShortJob({Taint("a", "any")}, <<1>>))],
      [node |-> <<Twofold, Free(2), Tainted>>,
       job  |-> TwoJobs(ShortJob({Taint("a", "NoSchedule"), Taint("a", "any")}, <<1, 1>>),
                        ShortJob({}, <<1>>))] }

-----------------------------------------------------------------------------
(* Autoscaler: readings on either side of every threshold.                 *)
MCReadings ==
    [pending : {0, 4}, nodes : {0, 3}, consumers : {0, 1, 3}, busy : BOOLEAN,
     arrived : {0, 2399, 5000}, predicted : {0, 1, 5, 9}]

ASSUME PartsAssumption ==
    SelectionAssumption /\ ShortJobAssumption /\ AutoscalerAssumption

-----------------------------------------------------------------------------
SomeWorld == CHOOSE w \in MCChoices : TRUE
SomeJobs  == CHOOSE w \in MCJobs : TRUE

MCInit ==
    /\ part \in Parts
    /\ Init
    /\ TreeInit
    /\ ChoiceInit /\ (part = "choice" \/ world = SomeWorld)
    /\ ShortInit  /\ (part = "short" \/ (setting = SomeJobs /\ nodes = 1..3 /\ previousNodeIndex = 0))
    /\ ScalerInit /\ (part = "scaler" \/ (unique /\ api[1].replicas = 0))

InCache(action)  == part = "cache"  /\ action /\ UNCHANGED <<part, treeVars, choiceVars, shortVars, scalerVars>>
InTree(action)   == part = "tree"   /\ action /\ UNCHANGED <<part, vars, choiceVars, shortVars, scalerVars>>
InChoice(action) == part = "choice" /\ action /\ UNCHANGED <<part, vars, treeVars, shortVars, scalerVars>>
InShort(action)  == part = "short"  /\ action /\ UNCHANGED <<part, vars, treeVars, choiceVars, scalerVars>>
InScaler(action) == part = "scaler" /\ action /\ UNCHANGED <<part, vars, treeVars, choiceVars, shortVars>>

MCNext ==
    \/ InCache(Next /\ CacheBound') \/ InTree(TreeStep /\ TreeBound') \/ InChoice(ChoiceNext)
    \/ InShort(ShortNext) \/ InScaler(ScalerNext)

allVars == <<part, vars, treeVars, choiceVars, shortVars, scalerVars>>

(* The fairness of the parts that assume any.                              *)
MCSpec ==
    /\ MCInit /\ [][MCNext]_allVars
    /\ WF_allVars(InCache(StartSweep))
    /\ WF_allVars(InCache(\E key \in PodKeys : SweepPod(key)))
    /\ WF_allVars(InCache(Tick))
    /\ WF_allVars(InChoice(ChoiceLoop))
    /\ \A p \in {p1, p2, p3} : WF_allVars(InChoice(p \in NewPods /\ IncreaseNodeUsageFactor(p)))
    /\ WF_allVars(InShort(Start))
    /\ \A j \in {p1, p2} :
          /\ WF_allVars(InShort(Schedule(j)))
          /\ WF_allVars(InShort(IndexOutOfRange(j)))

-----------------------------------------------------------------------------
(* Selection: every pod gets a node unless one of them has a score that is *)
(* refused.                                                                *)
PodsAnswered == part = "choice" => EveryPodAnswered

(* Selection: a pod that cannot be scored is in no other pod's way.        *)
OthersAnswered == part = "choice" => ScorablePodsAnswered

(* ShortJobScheduler: every job is placed or refused once the nodes rest.  *)
JobsAnswered == part = "short" => EveryJobAnswered
=============================================================================
