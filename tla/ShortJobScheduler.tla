------------------------- MODULE ShortJobScheduler -------------------------
(***************************************************************************)
(* The short job scheduler (short_job_scheduler/scheduler.go): it goes     *)
(* round the nodes, sorted by name, from the place in the list it got to   *)
(* with the last pod.  The list is fetched for every pod; a place that it  *)
(* no longer has ends the process, a new one starts at a random place, and *)
(* the broker delivers the message again.                                  *)
(*                                                                         *)
(* Names are numbers, for their order.  Jobs that are done come again.     *)
(***************************************************************************)
EXTENDS Integers, FiniteSets, Sequences, FiniteSetsExt, SequencesExt

CONSTANTS
    Jobs, NodeNames,
    Settings,             \* the inputs: the records of the jobs and of the nodes
    NoJob

ShortJobAssumption ==
    /\ NodeNames \subseteq Nat \ {0} /\ IsFiniteSet(NodeNames)
    /\ NoJob \notin Jobs

VARIABLES
    setting,
    nodes,                \* the names of the nodes the lister has
    running,              \* whether there is a process
    previousNodeIndex,
    job,                  \* of each job: status, and its node when it is placed
    round, lastJob        \* ghosts: who got a job like the last one since all had

shortVars == <<setting, nodes, running, previousNodeIndex, job, round, lastJob>>

Job(status, node) == [status |-> status, node |-> node]
Nowhere == 0

(* Where a name is in the sorted list.                                     *)
PlaceOf(name) == Cardinality({m \in nodes : m < name})

-----------------------------------------------------------------------------
(* A toleration matches key and value of a taint and has its effect or     *)
(* none.  The matches with NoSchedule taints are compared in number with   *)
(* all the taints there are.                                               *)
Matches(taint, tol) ==
    /\ taint.effect = "NoSchedule"
    /\ tol.key = taint.key /\ tol.value = taint.value
    /\ tol.effect \in {taint.effect, "any"}

CheckTaints(pod, node) ==
    Cardinality({m \in node.taints \X pod.tolerations : Matches(m[1], m[2])})
        = Cardinality(node.taints)

(* A container asks for memory; a node is compared as a whole, whatever    *)
(* runs on it.                                                             *)
CheckNode(pod, node) ==
    CheckTaints(pod, node) /\ FoldLeft(+, 0, pod.memory) <= node.capacity

Suits(j, n) == CheckNode(setting.job[j], setting.node[n])

-----------------------------------------------------------------------------
(* Mutant: the bound is taken for one of the places. *)
PlacesPastEnd == 0..Cardinality(nodes)

(* NewShortJobScheduler: a random place in the list, 0 in an empty one.    *)
Places == IF nodes = {} THEN {0} ELSE 0..Cardinality(nodes)-1

ShortInit ==
    /\ setting \in Settings
    /\ nodes \in (SUBSET NodeNames) \ {{}}
    /\ running = TRUE
    /\ previousNodeIndex \in Places
    /\ job = [j \in Jobs |-> Job("none", Nowhere)]
    /\ round = {} /\ lastJob = NoJob

Submit(j) ==
    /\ job[j].status # "waiting"
    /\ job' = [job EXCEPT ![j] = Job("waiting", Nowhere)]
    /\ UNCHANGED <<setting, nodes, running, previousNodeIndex, round, lastJob>>

(* The loop tries each place once, from the one after the last: after how  *)
(* many others it gets to a node.                                          *)
TriedAfter(name) == (PlaceOf(name) - previousNodeIndex - 1) % Cardinality(nodes)

(* Mutant: the place is not kept for the next pod. *)
FoundForgotten(j, n) ==
    /\ job' = [job EXCEPT ![j] = Job("placed", n)]
    /\ UNCHANGED previousNodeIndex

Found(j, n) ==
    /\ job' = [job EXCEPT ![j] = Job("placed", n)]
    /\ previousNodeIndex' = PlaceOf(n)

Alike(j, k) == k # NoJob /\ setting.job[j] = setting.job[k]

(* Schedule.  When no node suits, the loop ends where it began.            *)
Schedule(j) ==
    LET suitable == {n \in nodes : Suits(j, n)}
    IN  /\ running /\ job[j].status = "waiting"
        /\ nodes = {} \/ previousNodeIndex < Cardinality(nodes)
        /\ \/ \E n \in suitable :
                 /\ \A m \in suitable : TriedAfter(n) <= TriedAfter(m)
                 /\ Found(j, n)
                 /\ lastJob' = j
                 /\ round' = IF Alike(j, lastJob) /\ n \notin round THEN round \cup {n} ELSE {n}
           \/ /\ suitable = {}
              /\ job' = [job EXCEPT ![j] = Job("refused", Nowhere)]
              /\ UNCHANGED <<previousNodeIndex, round, lastJob>>
        /\ UNCHANGED <<setting, nodes, running>>

(* The index is out of range; the message is not acknowledged.             *)
IndexOutOfRange(j) ==
    /\ running /\ job[j].status = "waiting"
    /\ nodes # {} /\ previousNodeIndex >= Cardinality(nodes)
    /\ running' = FALSE
    /\ UNCHANGED <<setting, nodes, previousNodeIndex, job, round, lastJob>>

Start ==
    /\ ~running
    /\ running' = TRUE
    /\ previousNodeIndex' \in Places
    /\ round' = {} /\ lastJob' = NoJob
    /\ UNCHANGED <<setting, nodes, job>>

(* Nodes join and leave.                                                   *)
NodeChange ==
    /\ nodes' \in {nodes \cup {n} : n \in NodeNames} \cup {nodes \ {n} : n \in NodeNames}
    /\ nodes' # nodes
    /\ round' = {} /\ lastJob' = NoJob
    /\ UNCHANGED <<setting, running, previousNodeIndex, job>>

ShortLoop == Start \/ \E j \in Jobs : Schedule(j) \/ IndexOutOfRange(j)

ShortNext == NodeChange \/ ShortLoop \/ \E j \in Jobs : Submit(j)

ShortSpec == ShortInit /\ [][ShortNext]_shortVars

(* The process is started again, and no job that waits is passed over for  *)
(* ever: the broker delivers in order.                                     *)
ShortFairSpec ==
    /\ ShortSpec
    /\ WF_shortVars(Start)
    /\ \A j \in Jobs : WF_shortVars(Schedule(j)) /\ WF_shortVars(IndexOutOfRange(j))

-----------------------------------------------------------------------------
(* While the nodes stay and the jobs are alike, none gets a second one     *)
(* before every node that suits has had one, wherever in the list the      *)
(* process started.                                                        *)
Placed(j) == job[j].status = "waiting" /\ job'[j].status = "placed"

RoundRobin ==
    [][\A j \in Jobs : Placed(j) /\ Alike(j, lastJob) /\ job'[j].node \in round =>
          \A n \in nodes : Suits(j, n) => n \in round]_shortVars

(* Whatever the nodes do before they come to rest, and however often the   *)
(* process ended on the way, every job is then placed or refused.          *)
Resting == <>[][nodes' = nodes]_nodes

EveryJobAnswered ==
    Resting => \A j \in Jobs : (job[j].status = "waiting" ~> job[j].status # "waiting")
=============================================================================
