------------------------------ MODULE Preemption ------------------------------
(***************************************************************************)
(* Several general purpose schedulers making room on one node.  A pod that *)
(* does not fit has a victim chosen for it; the scheduler reserves the     *)
(* pod's request in the conditions of the node, deletes the victim, polls  *)
(* until it is gone, binds the pod and removes the reservation.  Each      *)
(* scheduler decides on the pods and the conditions its informers show.    *)
(*                                                                         *)
(* The pods are in one namespace.  A request whose pod cannot be placed    *)
(* comes back from the retry service: here it stays in the queue.          *)
(***************************************************************************)
EXTENDS NodeFilters

CONSTANTS
    Pods, Schedulers,
    Node,            \* allocatable and allowedPods of the node
    Request,         \* of each pod: PodRequest
    Priority,        \* of each pod
    Checked,         \* what getPodToPreempt compares: memory and storage, not cpu
    Recreated,       \* pods whose controller creates them again, once
    Faulty,          \* schedulers that may crash or lose the connection to the broker
    MaxTrouble,      \* bound on crashes, broken connections, and pods created again
                     \* or deleted by a user
    None

Works == [pod : Pods, victim : Pods, owed : BOOLEAN,
          step : {"reserve", "delete", "await", "release"}]

ASSUME PreemptionAssumption ==
    /\ Request \in [Pods -> [Resources -> Nat]]
    /\ Checked \subseteq Computed
    /\ Recreated \subseteq Pods /\ Faulty \subseteq Schedulers /\ MaxTrouble \in Nat
    /\ None \notin Works

VARIABLES
    phase,           \* of each pod in the API server
    conditions,      \* the Preemption conditions of the node in the API server
    queue,           \* pods with a request that waits
    work,            \* the preemption each scheduler is in
    shown, read,     \* the pods and the conditions each scheduler sees
    born, removed,   \* pods created again, and those a user deleted
    faults,          \* crashes and broken connections
    contested,       \* history: victims that two preemptions had at one time
    abandoned        \* history: how often a preemption of a victim was cut short

api     == <<phase, conditions>>
view    == <<shown, read>>
history == <<contested, abandoned>>
vars    == <<api, queue, work, view, born, removed, faults, history>>

(* What an informer shows of a pod: a binding, and the phase in its status,*)
(* which a pod that is being deleted keeps.                                *)
Look == [p \in Pods |-> CASE phase[p] \in {"pending", "gone"}        -> "unbound"
                          [] phase[p] = "bound"                      -> "bound"
                          [] phase[p] \in {"running", "terminating"} -> "running"]

Init ==
    /\ phase = [p \in Pods |-> "pending"] /\ conditions = <<>>
    /\ queue = Pods
    /\ work = [s \in Schedulers |-> None]
    /\ shown = [s \in Schedulers |-> Look] /\ read = [s \in Schedulers |-> conditions]
    /\ born = {} /\ removed = {} /\ faults = 0
    /\ contested = {} /\ abandoned = [p \in Pods |-> 0]

Doing(step) == {s \in Schedulers : work[s] # None /\ work[s].step = step}

TroubleLeft == faults + Cardinality(born) + Cardinality(removed) < MaxTrouble

Goto(s, step) == work' = [work EXCEPT ![s].step = step]

Bound(p) == IF phase[p] = "pending" THEN [phase EXCEPT ![p] = "bound"] ELSE phase

-----------------------------------------------------------------------------
Charged(s) == {p \in Pods : shown[s][p] # "unbound"}

(* What NodeResourcesFit finds missing for p.  How old a reservation is    *)
(* stays open: those in expired are older than their minute.               *)
Missing(s, p, expired) ==
    LET node == [allocatable |-> Node.allocatable, allowedPods |-> Node.allowedPods,
                 reserved    |-> {[at |-> i, amount |-> Request[read[s][i].for],
                                   expired |-> i \in expired] : i \in DOMAIN read[s]}]
    IN  Insufficient(Request[p], node, Charged(s),
            [r \in Resources |-> MapThenSumSet(LAMBDA q : Request[q][r], Charged(s))])

Fits(s, p)  == \E expired \in SUBSET DOMAIN read[s] : Missing(s, p, expired) = {}
Lacks(s, p) == \E expired \in SUBSET DOMAIN read[s] : Missing(s, p, expired) # {}

(* Whether getPodToPreempt takes v for p.  It compares with all the node   *)
(* has, not with what is free, and a name stays taken after its minute.    *)
Preemptable(s, p, v) ==
    /\ \A i \in DOMAIN read[s] : read[s][i].victim # v
    /\ Priority[v] <= Priority[p]
    /\ shown[s][v] = "running"
    /\ \/ \A r \in Computed : Request[v][r] = 0
       \/ \A r \in Checked : Request[v][r] + Node.allocatable[r] > Request[p][r]

Receives(s, p) ==
    /\ work[s] = None /\ read[s] # None
    /\ p \in queue /\ phase[p] # "gone"

(* The pod has gone: its request is acknowledged.                          *)
Skip(p) ==
    /\ p \in queue /\ phase[p] = "gone"
    /\ queue' = queue \ {p}
    /\ UNCHANGED <<api, work, view, born, removed, faults, history>>

(* There is room: bind, whose failure for a pod bound before is ignored.   *)
Place(s, p) ==
    /\ Receives(s, p) /\ Fits(s, p)
    /\ phase' = Bound(p)
    /\ queue' = queue \ {p}
    /\ UNCHANGED <<conditions, work, view, born, removed, faults, history>>

(* Mutant: the request is not taken from the queue. *)
ChooseVictimKeepsRequest(s, p, v) ==
    /\ Receives(s, p) /\ Lacks(s, p) /\ Priority[p] # 0
    /\ Preemptable(s, p, v)
    /\ \A w \in Pods : Preemptable(s, p, w) => Priority[v] <= Priority[w]
    /\ work' = [work EXCEPT ![s] = [pod |-> p, victim |-> v, step |-> "reserve", owed |-> TRUE]]
    /\ contested' = contested \cup
                        {v : t \in {t \in Schedulers : work[t] # None /\ work[t].victim = v}}
    /\ UNCHANGED <<api, queue, view, born, removed, faults, abandoned>>

(* There is none: one of the lowest pods that can be preempted is chosen.  *)
ChooseVictim(s, p, v) ==
    /\ Receives(s, p) /\ Lacks(s, p) /\ Priority[p] # 0
    /\ Preemptable(s, p, v)
    /\ \A w \in Pods : Preemptable(s, p, w) => Priority[v] <= Priority[w]
    /\ work' = [work EXCEPT ![s] = [pod |-> p, victim |-> v, step |-> "reserve", owed |-> TRUE]]
    /\ queue' = queue \ {p}
    /\ contested' = contested \cup
                        {v : t \in {t \in Schedulers : work[t] # None /\ work[t].victim = v}}
    /\ UNCHANGED <<api, view, born, removed, faults, abandoned>>

-----------------------------------------------------------------------------
(* Mutant: nothing is deleted before the wait. *)
ReserveThenAwait(s) ==
    /\ s \in Doing("reserve")
    /\ conditions' = Append(conditions, [for |-> work[s].pod, victim |-> work[s].victim])
    /\ Goto(s, "await")
    /\ UNCHANGED <<phase, queue, view, born, removed, faults, history>>

(* PreemptionProcess: AddNodeStatusofPreemption ...                        *)
Reserve(s) ==
    /\ s \in Doing("reserve")
    /\ conditions' = Append(conditions, [for |-> work[s].pod, victim |-> work[s].victim])
    /\ Goto(s, "delete")
    /\ UNCHANGED <<phase, queue, view, born, removed, faults, history>>

(* ... Delete, by name, with a grace period if the pod is on a node ...    *)
Deleted(p) == [phase EXCEPT ![p] = IF @ = "pending" THEN "gone" ELSE "terminating"]

DeleteVictim(s) ==
    /\ s \in Doing("delete") /\ phase[work[s].victim] # "gone"
    /\ phase' = Deleted(work[s].victim)
    /\ Goto(s, "await")
    /\ UNCHANGED <<conditions, queue, view, born, removed, faults, history>>

(* ... bind, once Get no longer finds the victim ...                       *)
Bind(s) ==
    /\ s \in Doing("await") /\ phase[work[s].victim] = "gone"
    /\ phase' = Bound(work[s].pod)
    /\ Goto(s, "release")
    /\ UNCHANGED <<conditions, queue, view, born, removed, faults, history>>

(* Mutant: the last element is not copied before the slice is cut. *)
WithoutUncopied(conds, key) ==
    FoldLeft(LAMBDA c, i : IF i <= Len(c) /\ c[i].victim = key THEN Front(c) ELSE c,
             conds, [i \in DOMAIN conds |-> i])

(* Mutant: the last condition is not looked at. *)
WithoutLast(conds, key) ==
    FoldLeft(LAMBDA c, i : IF i < Len(c) /\ c[i].victim = key
                           THEN Front([c EXCEPT ![i] = Last(c)]) ELSE c,
             conds, [i \in DOMAIN conds |-> i])

(* The loop of RemovePreemptionInfo: the last element takes the place of a *)
(* removed one and is not looked at there.                                 *)
Without(conds, key) ==
    FoldLeft(LAMBDA c, i : IF i <= Len(c) /\ c[i].victim = key
                           THEN Front([c EXCEPT ![i] = Last(c)]) ELSE c,
             conds, [i \in DOMAIN conds |-> i])

(* ... and RemovePreemptionInfo.  The request is acknowledged after it.    *)
Release(s) ==
    /\ s \in Doing("release")
    /\ conditions' = Without(conditions, work[s].victim)
    /\ work' = [work EXCEPT ![s] = None]
    /\ UNCHANGED <<phase, queue, view, born, removed, faults, history>>

-----------------------------------------------------------------------------
(* The process ends; its request is delivered again, and it starts with    *)
(* informers that have not shown anything.                                 *)
Restart(s) ==
    /\ work' = [work EXCEPT ![s] = None]
    /\ queue' = IF work[s] # None /\ work[s].owed THEN queue \cup {work[s].pod} ELSE queue
    /\ shown' = [shown EXCEPT ![s] = [p \in Pods |-> "unbound"]]
    /\ read' = [read EXCEPT ![s] = None]
    /\ abandoned' = IF s \in Doing("reserve") \/ work[s] = None THEN abandoned
                    ELSE [abandoned EXCEPT ![work[s].victim] = @ + 1]
    /\ UNCHANGED <<api, born, removed, contested>>

(* Delete finds no victim: panic.                                          *)
Panic(s) ==
    /\ s \in Doing("delete") /\ phase[work[s].victim] = "gone"
    /\ Restart(s)
    /\ UNCHANGED faults

Crash(s) ==
    /\ s \in Faulty /\ TroubleLeft
    /\ faults' = faults + 1
    /\ Restart(s)

(* The connection to the broker breaks during a preemption, which goes on. *)
Disconnect(s) ==
    /\ s \in Faulty /\ TroubleLeft
    /\ work[s] # None /\ work[s].owed
    /\ faults' = faults + 1
    /\ work' = [work EXCEPT ![s].owed = FALSE]
    /\ queue' = queue \cup {work[s].pod}
    /\ UNCHANGED <<api, view, born, removed, history>>

(* The kubelet starts a pod, and ends one that is deleted.                 *)
Start(p) ==
    /\ phase[p] = "bound"
    /\ phase' = [phase EXCEPT ![p] = "running"]
    /\ UNCHANGED <<conditions, queue, work, view, born, removed, faults, history>>

End(p) ==
    /\ phase[p] = "terminating"
    /\ phase' = [phase EXCEPT ![p] = "gone"]
    /\ UNCHANGED <<conditions, queue, work, view, born, removed, faults, history>>

(* A controller creates a pod again under its name.                        *)
Recreate(p) ==
    /\ p \in Recreated \ born /\ TroubleLeft /\ phase[p] = "gone"
    /\ phase' = [phase EXCEPT ![p] = "pending"]
    /\ queue' = queue \cup {p} /\ born' = born \cup {p}
    /\ UNCHANGED <<conditions, work, view, removed, faults, history>>

(* A user deletes a pod, whatever the schedulers have under way for it.    *)
UserDelete(p) ==
    /\ TroubleLeft /\ phase[p] \notin {"terminating", "gone"}
    /\ phase' = Deleted(p)
    /\ removed' = removed \cup {p}
    /\ UNCHANGED <<conditions, queue, work, view, born, faults, history>>

ShowPods(s) ==
    /\ shown[s] # Look
    /\ shown' = [shown EXCEPT ![s] = Look]
    /\ UNCHANGED <<api, queue, work, read, born, removed, faults, history>>

ShowNode(s) ==
    /\ read[s] # conditions
    /\ read' = [read EXCEPT ![s] = conditions]
    /\ UNCHANGED <<api, queue, work, shown, born, removed, faults, history>>

Proceed(s) == Reserve(s) \/ DeleteVictim(s) \/ Bind(s) \/ Release(s) \/ Panic(s)

Next ==
    \/ \E p \in Pods : Skip(p) \/ Start(p) \/ End(p) \/ Recreate(p) \/ UserDelete(p)
    \/ \E s \in Schedulers, p \in Pods : Place(s, p) \/ \E v \in Pods : ChooseVictim(s, p, v)
    \/ \E s \in Schedulers : Proceed(s) \/ Crash(s) \/ Disconnect(s) \/ ShowPods(s) \/ ShowNode(s)

Spec == Init /\ [][Next]_vars

-----------------------------------------------------------------------------
Reservations(v) == {i \in DOMAIN conditions : conditions[i].victim = v}

(* The schedulers that have reserved for the deletion of v.                *)
Holders(v) == {s \in Schedulers \ Doing("reserve") : work[s] # None /\ work[s].victim = v}

Undisturbed == faults = 0 /\ \A v \in Pods : abandoned[v] = 0

(* Reservations do not pile up: those for a victim are at most the         *)
(* preemptions of it that go on and those that were cut short.             *)
ReservationsHaveHolders ==
    \A v \in Pods : Cardinality(Reservations(v)) <= Cardinality(Holders(v)) + abandoned[v]

(* A preemption keeps its reservation until it is done, whatever others    *)
(* remove, unless two preemptions had its victim at one time.              *)
ReservationKept ==
    \A v \in Pods \ contested : \A s \in Holders(v) :
        \E i \in Reservations(v) : conditions[i].for = work[s].pod

(* Without faults and panics, a victim is only deleted for a pod that      *)
(* still needs its place, unless that pod was created again or a user has  *)
(* deleted it since: PreemptionProcess does not look at it again.          *)
EvictedForPending ==
    [][\A s \in Doing("delete") : work'[s] # work[s] /\ Undisturbed' =>
            phase[work[s].pod] = "pending" \/ work[s].pod \in born \cup removed]_vars

(* No preemption waits in vain: the pod it waits for is being deleted, or  *)
(* has gone, unless it was created again, when the wait may have no end.   *)
AwaitedPodsEnd ==
    \A s \in Doing("await") :
        phase[work[s].victim] \in {"terminating", "gone"} \/ work[s].victim \in born
=============================================================================
