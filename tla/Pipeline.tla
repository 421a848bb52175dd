------------------------------ MODULE Pipeline ------------------------------
(***************************************************************************)
(* The way of a pod through Epsilon's services: the coordinator turns a    *)
(* new pod into a schedule request, the message broker carries it to a     *)
(* scheduler, and a request that cannot be met goes through the retry      *)
(* service and comes back with a longer backoff until it is given up.      *)
(*                                                                         *)
(* A service hands most of its work to goroutines: its loop spawns one and *)
(* acknowledges the message at once, so that a crash or a broken           *)
(* connection can fall between any two of these steps.  The two schedulers *)
(* run the same loop and differ in when they give up, in what they do to   *)
(* the backoff and in how they bind (Kind); each has a queue of its own    *)
(* and takes the pods that name it (Wanted).                               *)
(*                                                                         *)
(* Requests carry the name of a pod.  A user may delete a pod and create   *)
(* another one under its name: requests of the two cannot be told apart,   *)
(* the objects fetched for them can, by uid, which numbers the pods        *)
(* created under the name.                                                 *)
(*                                                                         *)
(* Left out: the order of the queues, and what Schedule looks at to find a *)
(* node (it may always fail or succeed).                                   *)
(***************************************************************************)
EXTENDS Integers, FiniteSets, Functions, BagsExt, Bags

CONSTANTS
    Pods,
    Schedulers,           \* the replicas of both schedulers
    Coordinator, Retry,   \* the other two services
    Kind,                 \* "general" or "short": which scheduler a replica is
    Wanted,               \* the kind of scheduler a pod names
    MaxBackOff,           \* maximum_backoff_time
    None,
    Crashable,            \* the services that may crash
    Breakable,            \* the services whose connection to the broker may break
    MaxFaults,            \* bound on crashes, broken connections and API errors
    MaxCreated,           \* bound on the pods created under one name
    Deletable,            \* the pods users may delete
    ApiErrors             \* whether the API server fails calls

Consumers == Schedulers \cup {Retry}
Services  == Consumers \cup {Coordinator}
Kinds     == {"general", "short"}

(* The message a consumer has in hand, with the object it fetched, if any. *)
Objects  == [phase : {"pending", "bound", "gone"}, exceeded : BOOLEAN, uid : Nat]
Messages == [req : [pod : Pods, backoff : Nat], stage : {"schedule", "bind", "ack"},
             obj : Objects \cup {None}, live : BOOLEAN]

ASSUME PipelineAssumption ==
    /\ IsFiniteSet(Schedulers)
    /\ Kind \in [Schedulers -> Kinds] /\ Wanted \in [Pods -> Kinds]
    /\ MaxBackOff \in Nat /\ MaxFaults \in Nat /\ MaxCreated \in Nat
    /\ Crashable \subseteq Services /\ Breakable \subseteq Services
    /\ Deletable \subseteq Pods /\ ApiErrors \in BOOLEAN
    /\ None \notin Pods \cup Messages /\ Retry \notin Schedulers /\ Coordinator \notin Consumers

VARIABLES
    api,         \* what the API server holds under each name: phase, exceeded, uid
    told,        \* the last pod of each name this coordinator process was told of
    workqueue,   \* the coordinator's work queue
    syncing,     \* the pod in ObjectSync
    queue,       \* bags of requests: the queues of both schedulers and the retry queue
    held,        \* the message each consumer is processing
    stale,       \* messages a consumer has prefetched over a connection now closed
    tasks,       \* bag of goroutines of each consumer
    up,          \* the services with a connection to the broker
    faults       \* how many faults there were

coordinator == <<told, workqueue, syncing>>
broker      == <<queue, up>>
consumers   == <<held, stale, tasks>>
vars == <<api, coordinator, broker, consumers, faults>>

-----------------------------------------------------------------------------
Request(p, b)   == [pod |-> p, backoff |-> b]
Task(kind, r, obj) == [kind |-> kind, req |-> r, obj |-> obj]

QueueOf(c) == IF c = Retry THEN "retry" ELSE Kind[c]

(* What a request that could not be met runs into: the test on its backoff *)
(* and the backoff it is sent to the retry service with.                   *)
NeverGivesUp(s, b) == FALSE                   \* Mutant: no limit.
GivesUp(s, b) == IF Kind[s] = "general" THEN b > MaxBackOff ELSE b >= MaxBackOff
Handed(s, b)  == IF Kind[s] = "general" THEN b ELSE 2 * b

(* WaitAndSend squares the backoff when the wait is over. *)
Squared(r) == Request(r.pod, r.backoff * r.backoff)

Fault == faults < MaxFaults /\ faults' = faults + 1

Init ==
    /\ api = [p \in Pods |-> [phase |-> "gone", exceeded |-> FALSE, uid |-> 0]]
    /\ told = [p \in Pods |-> 0] /\ workqueue = {} /\ syncing = None
    /\ queue = [q \in Kinds \cup {"retry"} |-> EmptyBag]
    /\ held = [c \in Consumers |-> None]
    /\ stale = [c \in Consumers |-> EmptyBag]
    /\ tasks = [c \in Consumers |-> EmptyBag]
    /\ up = Services
    /\ faults = 0

-----------------------------------------------------------------------------
(* Users.  When the coordinator's watch breaks and both the deletion of a  *)
(* pod and the creation of the next one fall into the gap, the informer    *)
(* delivers one update, and UpdateFunc is empty: a fault of its own.       *)
CreatePod(p) ==
    /\ api[p].phase = "gone"
    /\ api[p].uid < MaxCreated
    /\ api' = [api EXCEPT ![p] = [phase |-> "pending", exceeded |-> FALSE, uid |-> api[p].uid + 1]]
    /\ \/ UNCHANGED <<told, faults>>
       \/ /\ ApiErrors /\ Fault
          /\ told[p] = api[p].uid /\ told[p] > 0
          /\ told' = [told EXCEPT ![p] = @ + 1]
    /\ UNCHANGED <<workqueue, syncing, broker, consumers>>

DeletePod(p) ==
    /\ p \in Deletable
    /\ api[p].phase \in {"pending", "bound"}
    /\ api' = [api EXCEPT ![p].phase = "gone"]
    /\ UNCHANGED <<coordinator, broker, consumers, faults>>

-----------------------------------------------------------------------------
(* Mutant: a pod whose name was queued before is not queued again. *)
AddFuncKnown(p) ==
    /\ told[p] < api[p].uid
    /\ told' = [told EXCEPT ![p] = @ + 1]
    /\ workqueue' = IF told[p] = 0 THEN workqueue \cup {p} ELSE workqueue
    /\ UNCHANGED <<api, syncing, broker, consumers, faults>>

(* The coordinator.  AddFunc is called once per process for each pod, and  *)
(* ignores one that has a node.  It is given the pod as it was listed or   *)
(* created, which may be before it was bound or deleted.  Updates and      *)
(* resyncs reach the empty UpdateFunc.                                     *)
AddFunc(p) ==
    /\ told[p] < api[p].uid
    /\ told' = [told EXCEPT ![p] = @ + 1]
    /\ \/ workqueue' = workqueue \cup {p}
       \/ /\ ~(told'[p] = api[p].uid /\ api[p].phase = "pending")
          /\ UNCHANGED workqueue
    /\ UNCHANGED <<api, syncing, broker, consumers, faults>>

ProcessNextItem(p) ==
    /\ syncing = None
    /\ p \in workqueue
    /\ workqueue' = workqueue \ {p}
    /\ syncing' = p
    /\ UNCHANGED <<api, told, broker, consumers, faults>>

(* The lister no longer has the pod, or not yet the one created after it.  *)
NotListed(p) == api[p].phase = "gone" \/ told[p] < api[p].uid

(* Mutant: the request carries no first backoff. *)
ObjectSyncZero ==
    /\ syncing # None
    /\ \/ NotListed(syncing) /\ UNCHANGED queue
       \/ /\ Coordinator \in up
          /\ queue' = [queue EXCEPT ![Wanted[syncing]] = BagAdd(@, Request(syncing, 0))]
    /\ syncing' = None
    /\ UNCHANGED <<api, told, workqueue, up, consumers, faults>>

(* ObjectSync skips a pod the lister does not have, and otherwise sends    *)
(* until it succeeds; the lister may lag behind a deletion.                *)
ObjectSync ==
    /\ syncing # None
    /\ \/ NotListed(syncing) /\ UNCHANGED queue
       \/ /\ Coordinator \in up
          /\ queue' = [queue EXCEPT ![Wanted[syncing]] = BagAdd(@, Request(syncing, 2))]
    /\ syncing' = None
    /\ UNCHANGED <<api, told, workqueue, up, consumers, faults>>

-----------------------------------------------------------------------------
(* A consumer's loop takes one message at a time: from the broker, or what *)
(* is left of the messages a closed connection had prefetched.  live: the  *)
(* message's channel is open; once it is not, the broker has queued the    *)
(* message again and the acknowledgement fails unnoticed.                  *)
Message(r, stage, obj, live) == [req |-> r, stage |-> stage, obj |-> obj, live |-> live]

Take(c, r, stage, obj) ==
    /\ held[c] = None
    /\ \/ /\ c \in up /\ stale[c] = EmptyBag
          /\ BagIn(r, queue[QueueOf(c)])
          /\ queue' = [queue EXCEPT ![QueueOf(c)] = BagRemove(@, r)]
          /\ held' = [held EXCEPT ![c] = Message(r, stage, obj, TRUE)]
          /\ UNCHANGED stale
       \/ /\ BagIn(r, stale[c])
          /\ stale' = [stale EXCEPT ![c] = BagRemove(@, r)]
          /\ held' = [held EXCEPT ![c] = Message(r, stage, obj, FALSE)]
          /\ UNCHANGED queue

At(c, stage) == held[c] # None /\ held[c].stage = stage
Move(c, stage) == held' = [held EXCEPT ![c].stage = stage]

Ack(c) ==
    /\ At(c, "ack")
    /\ held' = [held EXCEPT ![c] = None]
    /\ UNCHANGED <<api, coordinator, broker, stale, tasks, faults>>

(* The client library drops what it has prefetched.                        *)
DropStale(c) ==
    /\ stale[c] # EmptyBag
    /\ stale' = [stale EXCEPT ![c] = EmptyBag]
    /\ UNCHANGED <<api, coordinator, broker, held, tasks, faults>>

Running(c, t, kind) == BagIn(t, tasks[c]) /\ t.kind = kind
Spawn(c, t) == tasks' = [tasks EXCEPT ![c] = BagAdd(@, t)]
Return(c, t) == tasks' = [tasks EXCEPT ![c] = BagRemove(@, t)]

-----------------------------------------------------------------------------
(* ScheduleProcess: fetch the pod, schedule it, leave the rest to a        *)
(* goroutine and acknowledge.  Any error of the Get counts as a deletion.  *)
ScheduleProcess(s, r) ==
    /\ \/ api[r.pod].phase # "gone" /\ Take(s, r, "schedule", api[r.pod]) /\ UNCHANGED faults
       \/ api[r.pod].phase = "gone" /\ Take(s, r, "ack", None) /\ UNCHANGED faults
       \/ ApiErrors /\ Take(s, r, "ack", None) /\ Fault
    /\ UNCHANGED <<api, coordinator, up, tasks>>

(* Mutant: a request that is given up is retried as well. *)
ScheduleFailsNoElse(s) ==
    LET r == held[s].req
        sent == BagAdd(tasks[s], Task("SendToQueue", Request(r.pod, Handed(s, r.backoff)), None))
    IN  /\ At(s, "schedule")
        /\ tasks' = [tasks EXCEPT ![s] =
                        IF GivesUp(s, r.backoff) THEN BagAdd(sent, Task("AddPodStatus", r, held[s].obj))
                        ELSE sent]
        /\ Move(s, "ack")
        /\ UNCHANGED <<api, coordinator, broker, stale, faults>>

ScheduleFails(s) ==
    LET r == held[s].req
    IN  /\ At(s, "schedule")
        /\ IF GivesUp(s, r.backoff) THEN Spawn(s, Task("AddPodStatus", r, held[s].obj))
           ELSE Spawn(s, Task("SendToQueue", Request(r.pod, Handed(s, r.backoff)), None))
        /\ Move(s, "ack")
        /\ UNCHANGED <<api, coordinator, broker, stale, faults>>

(* The general purpose scheduler binds in a goroutine, except after a      *)
(* preemption; the other one binds before it acknowledges.                 *)
ScheduleFits(s) ==
    /\ At(s, "schedule")
    /\ \/ Kind[s] = "general" /\ Spawn(s, Task("bind", held[s].req, held[s].obj)) /\ Move(s, "ack")
       \/ Move(s, "bind") /\ UNCHANGED tasks
    /\ UNCHANGED <<api, coordinator, broker, stale, faults>>

(* The Bind call for the pod that was fetched: the API server takes the    *)
(* first one for a pod only, and may or may not refuse one whose UID is    *)
(* that of an earlier pod of the name.  The callers ignore errors.         *)
Bind(p, obj) ==
    \/ /\ api[p].phase = "pending"
       /\ api' = [api EXCEPT ![p].phase = "bound"]
       /\ UNCHANGED faults
    \/ /\ api[p].phase # "pending" \/ api[p].uid # obj.uid
       /\ UNCHANGED <<api, faults>>
    \/ ApiErrors /\ Fault /\ UNCHANGED api

BindInLoop(s) ==
    /\ At(s, "bind")
    /\ Bind(held[s].req.pod, held[s].obj)
    /\ Move(s, "ack")
    /\ UNCHANGED <<coordinator, broker, stale, tasks>>

BindTask(s, t) ==
    /\ Running(s, t, "bind")
    /\ Bind(t.req.pod, t.obj)
    /\ Return(s, t)
    /\ UNCHANGED <<coordinator, broker, held, stale>>

(* SendToQueue connects again until the message is out. *)
SendToQueue(s, t) ==
    /\ Running(s, t, "SendToQueue")
    /\ s \in up
    /\ queue' = [queue EXCEPT !["retry"] = BagAdd(@, t.req)]
    /\ Return(s, t)
    /\ UNCHANGED <<api, coordinator, up, held, stale, faults>>

(* A process that ends: the broker queues again what was not acknowledged, *)
(* the goroutines are gone.                                                *)
Requeued(c) ==
    IF held[c] # None /\ held[c].live
    THEN [queue EXCEPT ![QueueOf(c)] = BagAdd(@, held[c].req)] ELSE queue

Stop(c) ==
    /\ queue' = Requeued(c)
    /\ held' = [held EXCEPT ![c] = None]
    /\ stale' = [stale EXCEPT ![c] = EmptyBag]
    /\ tasks' = [tasks EXCEPT ![c] = EmptyBag]
    /\ up' = up \ {c}

(* AddPodStatus writes the object it was given: when the pod has changed   *)
(* since it was fetched every attempt is a conflict, and the goroutine     *)
(* panics, which ends the process.                                         *)
AddPodStatus(s, t) ==
    LET p == t.req.pod
    IN  /\ Running(s, t, "AddPodStatus")
        /\ \/ /\ api[p] = t.obj
              /\ api' = [api EXCEPT ![p].exceeded = TRUE]
              /\ Return(s, t)
              /\ UNCHANGED <<broker, held, stale, faults>>
           \/ api[p] # t.obj /\ Stop(s) /\ faults' = faults + 1 /\ UNCHANGED api
        /\ UNCHANGED coordinator

-----------------------------------------------------------------------------
(* The retry service spawns WaitAndSend, then acknowledges.                *)
RetryProcess(r) ==
    /\ Take(Retry, r, "ack", None)
    /\ Spawn(Retry, Task("WaitAndSend", r, None))
    /\ UNCHANGED <<api, coordinator, up, faults>>

(* The wait is over: one attempt to send, whose error is only logged.      *)
WaitAndSend(t) ==
    /\ Running(Retry, t, "WaitAndSend")
    /\ queue' = IF Retry \in up THEN [queue EXCEPT ![Wanted[t.req.pod]] = BagAdd(@, Squared(t.req))]
                ELSE queue
    /\ Return(Retry, t)
    /\ UNCHANGED <<api, coordinator, up, held, stale, faults>>

-----------------------------------------------------------------------------
(* The subbags with the elements S, of what a consumer may have prefetched *)
(* (not by SubBag, whose definition is recursive).                         *)
Prefetched(c, S) ==
    LET bag == queue[QueueOf(c)]
    IN  {b \in [S -> 1..BagCardinality(bag)] : \A r \in S : b[r] <= bag[r]}

(* Faults.  A connection that breaks closes the channel of the message     *)
(* being processed and of those prefetched: the broker queues them again,  *)
(* and the loop may still see some of them.                                *)
Break(c) ==
    /\ c \in Breakable \cap up
    /\ Fault
    /\ up' = up \ {c}
    /\ IF c = Coordinator THEN UNCHANGED <<queue, held, stale>>
       ELSE /\ queue' = Requeued(c)
            /\ held' = IF held[c] = None THEN held ELSE [held EXCEPT ![c].live = FALSE]
            /\ \E S \in SUBSET BagToSet(queue[QueueOf(c)]) : \E b \in Prefetched(c, S) :
                  stale' = [stale EXCEPT ![c] = b]
    /\ UNCHANGED <<api, coordinator, tasks>>

Connect(c) ==
    /\ c \notin up
    /\ up' = up \cup {c}
    /\ UNCHANGED <<api, coordinator, queue, consumers, faults>>

Crash(c) ==
    /\ c \in Crashable
    /\ Fault
    /\ Stop(c)
    /\ UNCHANGED <<api, coordinator>>

(* A new coordinator process is told again of the pods there are.          *)
CrashCoordinator ==
    /\ Coordinator \in Crashable
    /\ Fault
    /\ told' = [p \in Pods |-> IF api[p].phase = "gone" THEN api[p].uid ELSE api[p].uid - 1]
    /\ workqueue' = {} /\ syncing' = None
    /\ up' = up \ {Coordinator}
    /\ UNCHANGED <<api, queue, consumers>>

-----------------------------------------------------------------------------
CoordinatorStep ==
    \/ \E p \in Pods : AddFunc(p) \/ ProcessNextItem(p)
    \/ ObjectSync

SchedulerStep(s) ==
    \/ \E r \in BagToSet(queue[Kind[s]]) \cup BagToSet(stale[s]) : ScheduleProcess(s, r)
    \/ ScheduleFails(s) \/ ScheduleFits(s) \/ BindInLoop(s) \/ Ack(s) \/ DropStale(s)
    \/ \E t \in BagToSet(tasks[s]) : SendToQueue(s, t) \/ BindTask(s, t) \/ AddPodStatus(s, t)

RetryStep ==
    \/ \E r \in BagToSet(queue["retry"]) \cup BagToSet(stale[Retry]) : RetryProcess(r)
    \/ Ack(Retry) \/ DropStale(Retry)
    \/ \E t \in BagToSet(tasks[Retry]) : WaitAndSend(t)

Next ==
    \/ \E p \in Pods : CreatePod(p) \/ DeletePod(p)
    \/ CoordinatorStep
    \/ \E s \in Schedulers : SchedulerStep(s)
    \/ RetryStep
    \/ \E c \in Services : Break(c) \/ Connect(c)
    \/ \E c \in Consumers : Crash(c)
    \/ CrashCoordinator

Spec == Init /\ [][Next]_vars

(* Every service keeps working: its loop and each of its goroutines run,   *)
(* broken connections are made again.  Nothing is assumed of users, of     *)
(* faults or of what Schedule finds.                                       *)
Fairness ==
    /\ WF_vars(CoordinatorStep)
    /\ \A s \in Schedulers : WF_vars(SchedulerStep(s))
    /\ WF_vars(RetryStep)
    /\ \A c \in Services : WF_vars(Connect(c))

FairSpec == Spec /\ Fairness

-----------------------------------------------------------------------------
(* How many requests of a pod are under way: with the coordinator, the     *)
(* broker, in the loop of a consumer, or with a goroutine.  A prefetched   *)
(* copy counts when the loop takes it: until then it may be dropped.       *)
One(condition) == IF condition THEN 1 ELSE 0

Total(bag, S)      == SumFunction([x \in S |-> bag[x]])
Copies(bag, p)     == Total(bag, {r \in DOMAIN bag : r.pod = p})
Goroutines(bag, p) == Total(bag, {t \in DOMAIN bag : t.req.pod = p})

InHand(c, p) == held[c] # None /\ held[c].stage # "ack" /\ held[c].req.pod = p

Outstanding(p) ==
    One(p \in workqueue) + One(p = syncing) + Copies(queue[Wanted[p]], p) + Copies(queue["retry"], p)
      + SumFunction([c \in Consumers |-> One(InHand(c, p)) + Goroutines(tasks[c], p)])

(* With c pods created under a name and no failure, c requests with that   *)
(* name are under way at most, one for each pod, though all but one may be *)
(* of pods that are gone.  One failure makes at most 2n + 1 of n: every    *)
(* one of them may be prefetched and taken again, and the message whose    *)
(* acknowledgement was still to come is delivered again after its request  *)
(* has gone on.                                                            *)
Twice[n \in Nat] == IF n = 0 THEN 1 ELSE 2 * Twice[n - 1]

DuplicatesNeedFaults ==
    \A p \in Pods : Outstanding(p) <= Twice[faults] * (api[p].uid + 1) - 1

(* No request waits longer than the configured maximum before it is tried  *)
(* again (MaxBackOffTime), however often it was squared; that of a short   *)
(* job, which is doubled after the comparison, not twice as long.          *)
WaitsWithinMaximum ==
    \A t \in DOMAIN tasks[Retry] :
        IF Wanted[t.req.pod] = "general" THEN t.req.backoff <= MaxBackOff
        ELSE t.req.backoff < 2 * MaxBackOff

(* Every service is ready to lose a pod only where the code is: a pod that *)
(* is neither bound, given up nor deleted loses its last request only when *)
(* a process dies or a call to the API server fails, or when the retry     *)
(* service has no connection at the one moment it sends.                   *)
Pending(p) == api[p].phase = "pending" /\ ~api[p].exceeded

(* What is left in the hands of a scheduler that fetched an earlier pod of *)
(* the name does nothing for the one there is.                             *)
Fetched(p, obj) == obj.uid = api[p].uid
Serves(t, p)    == t.req.pod = p /\ (t.kind \in {"SendToQueue", "WaitAndSend"} \/ Fetched(p, t.obj))

HasRequest(p) ==
    \/ p \in workqueue \/ p = syncing
    \/ \E q \in DOMAIN queue : \E r \in DOMAIN queue[q] : r.pod = p
    \/ \E c \in Consumers :
          \/ InHand(c, p) /\ Fetched(p, held[c].obj)
          \/ \E t \in DOMAIN tasks[c] : Serves(t, p)

Tracked(p) == told[p] < api[p].uid \/ HasRequest(p)

LosesPod(p) == Tracked(p) /\ Pending(p)' /\ ~Tracked(p)'

LostOnlyByFaults ==
    [][\A p \in Pods : LosesPod(p) => faults' > faults \/ Retry \notin up]_vars

(* Crashes, broken connections, deletions and errors of the API server     *)
(* cannot keep a pod going round for ever: it is bound, reported as given  *)
(* up, deleted, or it is lost.                                             *)
Settled(p) == api[p].phase \in {"bound", "gone"} \/ api[p].exceeded

PodsSettleUnlessLost == \A p \in Pods : api[p].phase = "pending" ~> Settled(p) \/ ~Tracked(p)

(* Every pod a user creates is bound, reported as given up, or deleted.    *)
EveryPodSettles == \A p \in Pods : api[p].phase = "pending" ~> Settled(p)
=============================================================================
