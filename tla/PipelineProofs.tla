--------------------------- MODULE PipelineProofs ---------------------------
(***************************************************************************)
(* Theorems about the services, for any set of pods and finite set of      *)
(* schedulers, any maximum and any number of faults: how long a request    *)
(* waits before it is tried again, how many requests a pod can have under  *)
(* way, and when it can lose the last of them.                             *)
(*                                                                         *)
(* The backoff is tested by a scheduler and squared by the retry service,  *)
(* with two queues, prefetched copies and redeliveries in between.  The    *)
(* invariant says of each place a request can be at what requests are      *)
(* there: those of its kind of scheduler, or those that passed the test.   *)
(* It needs the kinds, because the two schedulers test differently: a      *)
(* request of the one must never be handed on by the other.                *)
(*                                                                         *)
(* The number of requests is not inductive: a broken connection leaves     *)
(* stale copies that count only when they are taken, and a new process of  *)
(* the coordinator makes a request for each pod again.  Ahead counts these *)
(* too; each step then keeps it, but for one more with a pod created       *)
(* (Kept), or it is a failure and makes at most twice as many and one of   *)
(* it (Failed).                                                            *)
(***************************************************************************)
EXTENDS Pipeline, ListTheorems, TLAPS

Requests == [pod : Pods, backoff : Nat]
Queues   == Kinds \cup {"retry"}

Bounded(r) == IF Wanted[r.pod] = "general" THEN r.backoff <= MaxBackOff
              ELSE r.backoff < 2 * MaxBackOff

OfKind(k) == {r \in Requests : Wanted[r.pod] = k}
Retried   == {r \in Requests : Bounded(r)}

(* What a queue holds, and what a consumer takes.                          *)
Held(q)    == IF q = "retry" THEN Retried ELSE OfKind(q)
Accepts(c) == Held(QueueOf(c))

QueueOK ==
    /\ DOMAIN queue = Queues
    /\ \A q \in Queues : DOMAIN queue[q] \subseteq Held(q)

HeldOK ==
    /\ DOMAIN held = Consumers
    /\ \A c \in Consumers : held[c] # None =>
          "req" \in DOMAIN held[c] /\ held[c].req \in Accepts(c)

StaleOK ==
    /\ DOMAIN stale = Consumers
    /\ \A c \in Consumers : DOMAIN stale[c] \subseteq Accepts(c)

TaskOK(c, t) == t.req \in Accepts(c) /\ (t.kind = "SendToQueue" => t.req \in Retried)

TasksOK ==
    /\ DOMAIN tasks = Consumers
    /\ \A c \in Consumers : \A t \in DOMAIN tasks[c] : TaskOK(c, t)

WorkOK == workqueue \subseteq Pods /\ syncing \in Pods \cup {None}

IInv == QueueOK /\ HeldOK /\ StaleOK /\ TasksOK /\ WorkOK

-----------------------------------------------------------------------------
LEMMA BagAddDomain == \A B, x : DOMAIN BagAdd(B, x) = DOMAIN B \cup {x}
  BY DEF BagAdd

LEMMA BagRemoveDomain == \A B, x : DOMAIN BagRemove(B, x) \subseteq DOMAIN B
  BY DEF BagRemove

LEMMA EmptyDomain == DOMAIN EmptyBag = {}
  BY DEF EmptyBag, SetToBag

LEMMA Places ==
    /\ \A c \in Consumers : QueueOf(c) \in Queues
    /\ \A s \in Schedulers : s \in Consumers /\ s # Retry /\ Accepts(s) = OfKind(Kind[s])
    /\ Retry \in Consumers /\ Accepts(Retry) = Retried /\ Held("retry") = Retried
    /\ \A k \in Kinds : k \in Queues /\ Held(k) = OfKind(k)
  BY PipelineAssumption DEF Consumers, QueueOf, Queues, Kinds, Accepts, Held

LEMMA Squares == \A b \in Nat : b * b \in Nat
  OBVIOUS

(* A request that is handed on passed the test of its own scheduler.       *)
LEMMA HandedOn ==
    ASSUME NEW s \in Schedulers, NEW r \in OfKind(Kind[s]), ~GivesUp(s, r.backoff)
    PROVE  Request(r.pod, Handed(s, r.backoff)) \in Retried \cap OfKind(Kind[s])
  BY PipelineAssumption
     DEF OfKind, Retried, Requests, Bounded, GivesUp, Handed, Request, Kinds

LEMMA SentBack ==
    ASSUME NEW r \in Retried
    PROVE  Squared(r) \in OfKind(Wanted[r.pod]) /\ Wanted[r.pod] \in Kinds
  BY Squares, PipelineAssumption DEF Retried, OfKind, Requests, Squared, Request

-----------------------------------------------------------------------------
(* What the operations on a single variable preserve.                      *)
LEMMA QueueAdd ==
    ASSUME QueueOK, NEW q \in Queues, NEW r \in Held(q),
           queue' = [queue EXCEPT ![q] = BagAdd(@, r)]
    PROVE  QueueOK'
  <1>1. DOMAIN queue' = Queues /\ queue'[q] = BagAdd(queue[q], r)
    BY DEF QueueOK
  <1>2. DOMAIN queue'[q] \subseteq Held(q)
    <2>1. DOMAIN BagAdd(queue[q], r) = DOMAIN queue[q] \cup {r}
      BY BagAddDomain
    <2> QED  BY <1>1, <2>1 DEF QueueOK
  <1>3. \A k \in Queues \ {q} : queue'[k] = queue[k]
    BY DEF QueueOK
  <1> QED  BY <1>1, <1>2, <1>3 DEF QueueOK

LEMMA TaskAdded ==
    ASSUME TasksOK, NEW c \in Consumers, NEW t, TaskOK(c, t), Spawn(c, t)
    PROVE  TasksOK'
  <1>1. DOMAIN tasks' = Consumers /\ tasks'[c] = BagAdd(tasks[c], t)
    BY DEF TasksOK, Spawn
  <1>2. \A u \in DOMAIN tasks'[c] : TaskOK(c, u)
    <2>1. DOMAIN BagAdd(tasks[c], t) = DOMAIN tasks[c] \cup {t}
      BY BagAddDomain
    <2> QED  BY <1>1, <2>1 DEF TasksOK
  <1>3. \A d \in Consumers \ {c} : tasks'[d] = tasks[d]
    BY DEF TasksOK, Spawn
  <1> QED  BY <1>1, <1>2, <1>3 DEF TasksOK, TaskOK

LEMMA TaskRemoved ==
    ASSUME TasksOK, NEW c \in Consumers, NEW t, Return(c, t)
    PROVE  TasksOK'
  BY BagRemoveDomain DEF TasksOK, Return

LEMMA StageMoved ==
    ASSUME HeldOK, NEW c \in Consumers, NEW stage, held[c] # None, Move(c, stage)
    PROVE  HeldOK'
  <1>1. ASSUME NEW d \in Consumers, held'[d] # None
        PROVE  "req" \in DOMAIN held'[d] /\ held'[d].req \in Accepts(d)
    BY <1>1 DEF HeldOK, Move
  <1>2. DOMAIN held' = Consumers
    BY DEF HeldOK, Move
  <1> QED  BY <1>1, <1>2 DEF HeldOK

LEMMA Taken ==
    ASSUME QueueOK, HeldOK, StaleOK, NEW c \in Consumers, NEW r, NEW stage, NEW obj,
           Take(c, r, stage, obj)
    PROVE  QueueOK' /\ HeldOK' /\ StaleOK' /\ r \in Accepts(c)
  <1>1. r \in Accepts(c)
    BY Places DEF Take, BagIn, BagToSet, QueueOK, StaleOK, Accepts
  <1>2. QueueOK'
    BY Places, BagRemoveDomain DEF Take, QueueOK
  <1>3. StaleOK'
    BY BagRemoveDomain DEF Take, StaleOK
  <1>4. PICK live \in BOOLEAN : held' = [held EXCEPT ![c] = Message(r, stage, obj, live)]
    BY DEF Take
  <1>5. HeldOK'
    BY <1>1, <1>4 DEF HeldOK, Message
  <1> QED  BY <1>1, <1>2, <1>3, <1>5

(* What was held goes back to the queue it came from.                      *)
LEMMA Returned ==
    ASSUME QueueOK, HeldOK, NEW c \in Consumers, queue' = Requeued(c)
    PROVE  QueueOK'
  <1>1. CASE held[c] # None /\ held[c].live
    BY <1>1, Places, QueueAdd DEF Requeued, HeldOK, Accepts
  <1>2. CASE ~(held[c] # None /\ held[c].live)
    BY <1>2 DEF Requeued, QueueOK
  <1> QED  BY <1>1, <1>2

LEMMA Stopped ==
    ASSUME QueueOK, HeldOK, StaleOK, TasksOK, NEW c \in Consumers, Stop(c)
    PROVE  QueueOK' /\ HeldOK' /\ StaleOK' /\ TasksOK'
  <1>1. QueueOK'
    BY Returned DEF Stop
  <1>2. HeldOK'
    BY DEF Stop, HeldOK
  <1>3. StaleOK' /\ TasksOK'
    BY EmptyDomain DEF Stop, StaleOK, TasksOK
  <1> QED  BY <1>1, <1>2, <1>3

-----------------------------------------------------------------------------
LEMMA InitIInv == Init => IInv
  <1> SUFFICES ASSUME Init PROVE IInv
    OBVIOUS
  <1>1. QueueOK
    BY EmptyDomain DEF Init, QueueOK, Queues
  <1>2. HeldOK
    BY DEF Init, HeldOK
  <1>3. StaleOK /\ TasksOK
    BY EmptyDomain DEF Init, StaleOK, TasksOK
  <1>4. WorkOK
    BY DEF Init, WorkOK
  <1> QED  BY <1>1, <1>2, <1>3, <1>4 DEF IInv

LEMMA CoordinatorPreserves == IInv /\ CoordinatorStep => IInv'
  <1> SUFFICES ASSUME IInv, CoordinatorStep PROVE IInv'
    OBVIOUS
  <1>1. UNCHANGED <<held, stale, tasks>>
    BY DEF CoordinatorStep, AddFunc, ProcessNextItem, ObjectSync, consumers
  <1>2. HeldOK' /\ StaleOK' /\ TasksOK'
    BY <1>1 DEF IInv, HeldOK, StaleOK, TasksOK
  <1>3. WorkOK'
    BY DEF IInv, WorkOK, CoordinatorStep, AddFunc, ProcessNextItem, ObjectSync
  <1>4. QueueOK'
    <2>1. CASE UNCHANGED queue
      BY <2>1 DEF IInv, QueueOK
    <2>2. CASE /\ syncing # None
               /\ queue' = [queue EXCEPT ![Wanted[syncing]] = BagAdd(@, Request(syncing, 2))]
      <3>1. syncing \in Pods /\ Wanted[syncing] \in Kinds
        BY <2>2, PipelineAssumption DEF IInv, WorkOK
      <3>2. Request(syncing, 2) \in Held(Wanted[syncing])
        BY <3>1, Places DEF Request, OfKind, Requests
      <3> QED  BY <2>2, <3>1, <3>2, Places, QueueAdd DEF IInv
    <2> QED  BY <2>1, <2>2 DEF CoordinatorStep, AddFunc, ProcessNextItem, ObjectSync, broker
  <1> QED  BY <1>2, <1>3, <1>4 DEF IInv

LEMMA SchedulerPreserves ==
    ASSUME IInv, NEW s \in Schedulers, SchedulerStep(s)
    PROVE  IInv'
  <1>0. s \in Consumers /\ Accepts(s) = OfKind(Kind[s])
    BY Places
  <1>1. ASSUME NEW r, ScheduleProcess(s, r) PROVE IInv'
    <2>1. \E stage, obj : Take(s, r, stage, obj)
      BY <1>1 DEF ScheduleProcess
    <2>2. QueueOK' /\ HeldOK' /\ StaleOK'
      BY <2>1, <1>0, Taken DEF IInv
    <2>3. TasksOK' /\ WorkOK'
      BY <1>1 DEF ScheduleProcess, coordinator, IInv, TasksOK, WorkOK
    <2> QED  BY <2>2, <2>3 DEF IInv
  <1>2. CASE ScheduleFails(s)
    <2>1. held[s] # None /\ held[s].req \in OfKind(Kind[s])
      BY <1>0, <1>2 DEF ScheduleFails, At, IInv, HeldOK
    <2>2. HeldOK'
      BY <1>0, <1>2, <2>1, StageMoved DEF ScheduleFails, IInv
    <2>3. TasksOK'
      <3>1. CASE GivesUp(s, held[s].req.backoff)
        <4>1. Spawn(s, Task("AddPodStatus", held[s].req, held[s].obj))
          BY <1>2, <3>1 DEF ScheduleFails
        <4>2. TaskOK(s, Task("AddPodStatus", held[s].req, held[s].obj))
          BY <1>0, <2>1 DEF TaskOK, Task
        <4> QED  BY <1>0, <4>1, <4>2, TaskAdded DEF IInv
      <3>2. CASE ~GivesUp(s, held[s].req.backoff)
        <4> DEFINE req == Request(held[s].req.pod, Handed(s, held[s].req.backoff))
        <4>1. Spawn(s, Task("SendToQueue", req, None))
          BY <1>2, <3>2 DEF ScheduleFails
        <4>2. req \in Retried \cap OfKind(Kind[s])
          BY <2>1, <3>2, HandedOn
        <4>3. TaskOK(s, Task("SendToQueue", req, None))
          BY <1>0, <4>2 DEF TaskOK, Task
        <4> QED  BY <1>0, <4>1, <4>3, TaskAdded DEF IInv
      <3> QED  BY <3>1, <3>2
    <2>4. QueueOK' /\ StaleOK' /\ WorkOK'
      BY <1>2 DEF ScheduleFails, coordinator, broker, IInv, QueueOK, StaleOK, WorkOK
    <2> QED  BY <2>2, <2>3, <2>4 DEF IInv
  <1>3. CASE ScheduleFits(s)
    <2>1. held[s] # None /\ held[s].req \in Accepts(s)
      BY <1>0, <1>3 DEF ScheduleFits, At, IInv, HeldOK
    <2>2. HeldOK'
      BY <1>0, <1>3, <2>1, StageMoved DEF ScheduleFits, IInv
    <2>3. TaskOK(s, Task("bind", held[s].req, held[s].obj))
      BY <2>1 DEF TaskOK, Task
    <2>4. TasksOK'
      BY <1>0, <1>3, <2>3, TaskAdded DEF ScheduleFits, IInv, TasksOK
    <2>5. QueueOK' /\ StaleOK' /\ WorkOK'
      BY <1>3 DEF ScheduleFits, coordinator, broker, IInv, QueueOK, StaleOK, WorkOK
    <2> QED  BY <2>2, <2>4, <2>5 DEF IInv
  <1>4. CASE BindInLoop(s)
    <2>1. HeldOK'
      BY <1>0, <1>4, StageMoved DEF BindInLoop, At, IInv
    <2>2. QueueOK' /\ StaleOK' /\ TasksOK' /\ WorkOK'
      BY <1>4 DEF BindInLoop, coordinator, broker, IInv, QueueOK, StaleOK, TasksOK, WorkOK
    <2> QED  BY <2>1, <2>2 DEF IInv
  <1>5. CASE Ack(s) \/ DropStale(s)
    <2>1. HeldOK' /\ StaleOK'
      BY <1>0, <1>5, EmptyDomain DEF Ack, DropStale, IInv, HeldOK, StaleOK
    <2>2. QueueOK' /\ TasksOK' /\ WorkOK'
      BY <1>5 DEF Ack, DropStale, coordinator, broker, IInv, QueueOK, TasksOK, WorkOK
    <2> QED  BY <2>1, <2>2 DEF IInv
  <1>6. ASSUME NEW t \in DOMAIN tasks[s], SendToQueue(s, t) PROVE IInv'
    <2>1. t.req \in Held("retry")
      BY <1>0, <1>6, Places DEF SendToQueue, Running, IInv, TasksOK, TaskOK
    <2>2. QueueOK'
      BY <1>6, <2>1, QueueAdd DEF SendToQueue, Queues, IInv
    <2>3. TasksOK'
      BY <1>0, <1>6, TaskRemoved DEF SendToQueue, IInv
    <2>4. HeldOK' /\ StaleOK' /\ WorkOK'
      BY <1>6 DEF SendToQueue, coordinator, IInv, HeldOK, StaleOK, WorkOK
    <2> QED  BY <2>2, <2>3, <2>4 DEF IInv
  <1>7. ASSUME NEW t \in DOMAIN tasks[s], BindTask(s, t) PROVE IInv'
    <2>1. TasksOK'
      BY <1>0, <1>7, TaskRemoved DEF BindTask, IInv
    <2>2. QueueOK' /\ HeldOK' /\ StaleOK' /\ WorkOK'
      BY <1>7 DEF BindTask, coordinator, broker, IInv, QueueOK, HeldOK, StaleOK, WorkOK
    <2> QED  BY <2>1, <2>2 DEF IInv
  <1>8. ASSUME NEW t \in DOMAIN tasks[s], AddPodStatus(s, t) PROVE IInv'
    <2>1. WorkOK'
      BY <1>8 DEF AddPodStatus, coordinator, IInv, WorkOK
    <2>2. CASE Stop(s)
      BY <1>0, <2>1, <2>2, Stopped DEF IInv
    <2>3. CASE Return(s, t) /\ UNCHANGED <<broker, held, stale>>
      <3>1. TasksOK'
        BY <1>0, <2>3, TaskRemoved DEF IInv
      <3> QED  BY <2>1, <2>3, <3>1 DEF broker, IInv, QueueOK, HeldOK, StaleOK
    <2> QED  BY <1>8, <2>2, <2>3 DEF AddPodStatus
  <1> QED
    BY <1>1, <1>2, <1>3, <1>4, <1>5, <1>6, <1>7, <1>8 DEF SchedulerStep, BagToSet

LEMMA RetryPreserves == IInv /\ RetryStep => IInv'
  <1> SUFFICES ASSUME IInv, RetryStep PROVE IInv'
    OBVIOUS
  <1>0. Retry \in Consumers /\ Accepts(Retry) = Retried
    BY Places
  <1>1. ASSUME NEW r, RetryProcess(r) PROVE IInv'
    <2>1. QueueOK' /\ HeldOK' /\ StaleOK' /\ r \in Accepts(Retry)
      BY <1>0, <1>1, Taken DEF RetryProcess, IInv
    <2>2. TaskOK(Retry, Task("WaitAndSend", r, None))
      BY <2>1 DEF TaskOK, Task
    <2>3. TasksOK'
      BY <1>0, <1>1, <2>2, TaskAdded DEF RetryProcess, IInv
    <2>4. WorkOK'
      BY <1>1 DEF RetryProcess, coordinator, IInv, WorkOK
    <2> QED  BY <2>1, <2>3, <2>4 DEF IInv
  <1>2. CASE Ack(Retry) \/ DropStale(Retry)
    <2>1. HeldOK' /\ StaleOK'
      BY <1>0, <1>2, EmptyDomain DEF Ack, DropStale, IInv, HeldOK, StaleOK
    <2>2. QueueOK' /\ TasksOK' /\ WorkOK'
      BY <1>2 DEF Ack, DropStale, coordinator, broker, IInv, QueueOK, TasksOK, WorkOK
    <2> QED  BY <2>1, <2>2 DEF IInv
  <1>3. ASSUME NEW t \in DOMAIN tasks[Retry], WaitAndSend(t) PROVE IInv'
    <2>1. t.req \in Retried
      BY <1>0 DEF IInv, TasksOK, TaskOK
    <2>2. Wanted[t.req.pod] \in Queues /\ Squared(t.req) \in Held(Wanted[t.req.pod])
      BY <2>1, SentBack, Places
    <2>3. QueueOK'
      <3>1. CASE Retry \in up
        BY <1>3, <2>2, <3>1, QueueAdd DEF WaitAndSend, IInv
      <3>2. CASE Retry \notin up
        BY <1>3, <3>2 DEF WaitAndSend, IInv, QueueOK
      <3> QED  BY <3>1, <3>2
    <2>4. TasksOK'
      BY <1>0, <1>3, TaskRemoved DEF WaitAndSend, IInv
    <2>5. HeldOK' /\ StaleOK' /\ WorkOK'
      BY <1>3 DEF WaitAndSend, coordinator, IInv, HeldOK, StaleOK, WorkOK
    <2> QED  BY <2>3, <2>4, <2>5 DEF IInv
  <1> QED  BY <1>1, <1>2, <1>3 DEF RetryStep, BagToSet

(* A connection that breaks.                                               *)
LEMMA BreakPreserves ==
    ASSUME IInv, NEW c \in Services, Break(c)
    PROVE  IInv'
  <1>1. TasksOK' /\ WorkOK'
    BY DEF Break, coordinator, IInv, TasksOK, WorkOK
  <1>2. CASE c = Coordinator
    BY <1>1, <1>2 DEF Break, IInv, QueueOK, HeldOK, StaleOK
  <1>3. CASE c # Coordinator
    <2>1. c \in Consumers /\ QueueOf(c) \in Queues
      BY <1>3, Places DEF Services
    <2>2. QueueOK'
      BY <1>3, <2>1, Returned DEF Break, IInv
    <2>3. HeldOK'
      <3>1. CASE held[c] = None
        BY <1>3, <3>1 DEF Break, IInv, HeldOK
      <3>2. CASE held[c] # None
        <4>1. held' = [held EXCEPT ![c].live = FALSE]
          BY <1>3, <3>2 DEF Break
        <4>2. DOMAIN held' = Consumers
          BY <4>1 DEF IInv, HeldOK
        <4>3. ASSUME NEW d \in Consumers, held'[d] # None
              PROVE  "req" \in DOMAIN held'[d] /\ held'[d].req \in Accepts(d)
          BY <2>1, <3>2, <4>1, <4>3 DEF IInv, HeldOK
        <4> QED  BY <4>2, <4>3 DEF HeldOK
      <3> QED  BY <3>1, <3>2
    <2>4. PICK S \in SUBSET DOMAIN queue[QueueOf(c)] :
             \E b \in Prefetched(c, S) : stale' = [stale EXCEPT ![c] = b]
      BY <1>3 DEF Break, BagToSet
    <2>5. PICK b \in Prefetched(c, S) : stale' = [stale EXCEPT ![c] = b]
      BY <2>4
    <2>6. DOMAIN b = S
      BY <2>5 DEF Prefetched
    <2>7. S \subseteq Accepts(c)
      BY <2>1 DEF IInv, QueueOK, Accepts
    <2>8. StaleOK'
      BY <2>1, <2>5, <2>6, <2>7 DEF IInv, StaleOK
    <2> QED  BY <1>1, <2>2, <2>3, <2>8 DEF IInv
  <1> QED  BY <1>2, <1>3

LEMMA Inductive == IInv /\ [Next]_vars => IInv'
  <1> SUFFICES ASSUME IInv, [Next]_vars PROVE IInv'
    OBVIOUS
  <1>1. ASSUME NEW p \in Pods, CreatePod(p) \/ DeletePod(p) PROVE IInv'
    BY <1>1 DEF CreatePod, DeletePod, coordinator, broker, consumers,
                IInv, QueueOK, HeldOK, StaleOK, TasksOK, WorkOK
  <1>2. ASSUME NEW c \in Services, Connect(c) PROVE IInv'
    BY <1>2 DEF Connect, coordinator, consumers,
                IInv, QueueOK, HeldOK, StaleOK, TasksOK, WorkOK
  <1>3. ASSUME NEW c \in Consumers, Crash(c) PROVE IInv'
    <2>1. QueueOK' /\ HeldOK' /\ StaleOK' /\ TasksOK'
      BY <1>3, Stopped DEF Crash, IInv
    <2>2. WorkOK'
      BY <1>3 DEF Crash, coordinator, IInv, WorkOK
    <2> QED  BY <2>1, <2>2 DEF IInv
  <1>4. CASE CrashCoordinator
    BY <1>4 DEF CrashCoordinator, consumers, IInv, QueueOK, HeldOK, StaleOK, TasksOK, WorkOK
  <1>5. CASE UNCHANGED vars
    BY <1>5 DEF vars, coordinator, broker, consumers,
                IInv, QueueOK, HeldOK, StaleOK, TasksOK, WorkOK
  <1> QED
    BY <1>1, <1>2, <1>3, <1>4, <1>5, CoordinatorPreserves, SchedulerPreserves, RetryPreserves,
       BreakPreserves DEF Next

(* However often a request was squared, doubled, prefetched and delivered  *)
(* again, the retry service never waits longer for it than the maximum,    *)
(* or for a short job twice the maximum.                                   *)
THEOREM WaitsBounded == Spec => []WaitsWithinMaximum
  <1>1. IInv => WaitsWithinMaximum
    BY Places DEF IInv, TasksOK, TaskOK, Retried, Bounded, WaitsWithinMaximum
  <1> QED  BY InitIInv, Inductive, <1>1, PTL DEF Spec

-----------------------------------------------------------------------------
(* Counting.  What the elements of a bag in some set add up to, when one   *)
(* is added or taken away.                                                 *)
NatBag(B) == IsFiniteSet(DOMAIN B) /\ \A x \in DOMAIN B : B[x] \in Nat \ {0}

LEMMA TotalFacts ==
    ASSUME NEW B, NatBag(B), NEW S \in SUBSET DOMAIN B
    PROVE  /\ Total(B, S) \in Nat
           /\ \A x \in S : Total(B, S) >= 1 /\ Total(B, S) = B[x] + Total(B, S \ {x})
           /\ S = {} => Total(B, S) = 0
<1> DEFINE f == [x \in S |-> B[x]]
<1>1. /\ Total(B, S) = SumFunction(f) /\ DOMAIN f = S
      /\ \A x \in S : f[x] = B[x] /\ f[x] \in Nat /\ f[x] >= 1
  BY DEF Total, NatBag
<1>2. IsFiniteSet(S)
  BY FS_Subset DEF NatBag
<1>3. SumFunction(f) \in Nat
  <2> HIDE DEF f
  <2> QED
    BY <1>1, <1>2, SumIsNat
<1>4. ASSUME NEW x \in S
      PROVE  SumFunction(f) >= 1 /\ SumFunction(f) = B[x] + Total(B, S \ {x})
  <2> DEFINE g == [y \in S \ {x} |-> B[y]]
  <2>1. /\ Total(B, S \ {x}) = SumFunction(g) /\ DOMAIN g = S \ {x}
        /\ \A y \in S \ {x} : g[y] = f[y] /\ g[y] \in Nat
    BY <1>1 DEF Total
  <2>2. IsFiniteSet(S \ {x}) /\ IntegersOn(f)
    BY <1>1, <1>2, FS_RemoveElement DEF IntegersOn
  <2> HIDE DEF f, g
  <2>3. SumFunction(g) \in Nat
    BY <2>1, <2>2, SumIsNat
  <2>4. x \in DOMAIN f /\ DOMAIN g = DOMAIN f \ {x} /\ \A y \in DOMAIN g : g[y] = f[y]
    BY <1>1, <2>1
  <2>5. SumFunction(f) = f[x] + SumFunction(g)
    BY <2>2, <2>4, SumSplit
  <2> QED
    BY <1>1, <2>1, <2>3, <2>5
<1>5. S = {} => SumFunction(f) = 0
  <2> HIDE DEF f
  <2> QED
    BY <1>1, SumOfNone
<1> HIDE DEF f
<1> QED
  BY <1>1, <1>3, <1>4, <1>5

(* A bag with nothing that another does not have has no greater total.     *)
LEMMA TotalBelow ==
    ASSUME NEW B, NatBag(B), NEW C, NatBag(C), NEW S \in SUBSET DOMAIN B,
           NEW R \in SUBSET DOMAIN C, R \subseteq S, \A x \in R : C[x] <= B[x]
    PROVE  Total(C, R) <= Total(B, S)
<1> DEFINE f == [x \in S |-> B[x]]
           g == [x \in R |-> C[x]]
<1>1. /\ Total(B, S) = SumFunction(f) /\ DOMAIN f = S /\ \A x \in S : f[x] = B[x]
      /\ Total(C, R) = SumFunction(g) /\ DOMAIN g = R /\ \A x \in R : g[x] = C[x]
  BY DEF Total
<1>2. IsFiniteSet(S) /\ IsFiniteSet(R)
  BY FS_Subset DEF NatBag
<1> HIDE DEF f, g
<1>3. IntegersOn(f) /\ IntegersOn(g)
  BY <1>1, <1>2 DEF IntegersOn, NatBag
<1>4. \A x \in DOMAIN f : f[x] >= 0
  BY <1>1 DEF NatBag
<1>5. DOMAIN g \subseteq DOMAIN f /\ \A x \in DOMAIN g : g[x] <= f[x]
  BY <1>1
<1> QED
  BY <1>1, <1>3, <1>4, <1>5, SumBelow

LEMMA TotalSame ==
    ASSUME NEW B, NEW C, NEW S, \A x \in S : B[x] = C[x]
    PROVE  Total(B, S) = Total(C, S)
<1>1. [x \in S |-> B[x]] = [x \in S |-> C[x]]
  OBVIOUS
<1> QED
  BY <1>1, Zenon DEF Total

LEMMA TotalAdd ==
    ASSUME NEW B, NatBag(B), NEW x, NEW Sel
    PROVE  /\ NatBag(BagAdd(B, x))
           /\ Total(BagAdd(B, x), DOMAIN BagAdd(B, x) \cap Sel) =
                Total(B, DOMAIN B \cap Sel) + One(x \in Sel)
<1> DEFINE C == BagAdd(B, x)
           S == DOMAIN B \cap Sel
           R == DOMAIN C \cap Sel
<1>1. /\ DOMAIN C = DOMAIN B \cup {x} /\ \A y \in DOMAIN B \ {x} : C[y] = B[y]
      /\ C[x] = IF x \in DOMAIN B THEN B[x] + 1 ELSE 1
  BY DEF BagAdd
<1> HIDE DEF C
<1>2. NatBag(C)
  BY <1>1, FS_AddElement DEF NatBag
<1>3. S \in SUBSET DOMAIN B /\ R \in SUBSET DOMAIN C
  OBVIOUS
<1>4. Total(B, S) \in Nat /\ Total(C, R) \in Nat
  BY <1>2, <1>3, TotalFacts
<1>5. CASE x \notin Sel
  <2>1. R = S /\ \A y \in S : C[y] = B[y]
    BY <1>1, <1>5
  <2>2. Total(C, S) = Total(B, S)
    BY <2>1, TotalSame
  <2>3. One(x \in Sel) = 0
    BY <1>5 DEF One
  <2> HIDE DEF R, S
  <2> QED
    BY <1>2, <1>4, <2>1, <2>2, <2>3 DEF C, R, S
<1>6. CASE x \in Sel
  <2>1. x \in R /\ R \ {x} = S \ {x} /\ \A y \in S \ {x} : C[y] = B[y]
    BY <1>1, <1>6
  <2>2. Total(C, R) = C[x] + Total(C, R \ {x})
    BY <1>2, <1>3, <2>1, TotalFacts
  <2>3. Total(C, S \ {x}) = Total(B, S \ {x})
    BY <2>1, TotalSame
  <2>4. Total(B, S \ {x}) \in Nat
    <3>1. S \ {x} \in SUBSET DOMAIN B
      OBVIOUS
    <3> HIDE DEF S
    <3> QED
      BY <3>1, TotalFacts
  <2>5. One(x \in Sel) = 1
    BY <1>6 DEF One
  <2>6. Total(C, R) = Total(B, S) + 1
    <3>1. CASE x \in DOMAIN B
      <4>1. x \in S
        BY <1>6, <3>1
      <4> HIDE DEF S, R
      <4>2. Total(B, S) = B[x] + Total(B, S \ {x})
        BY <1>3, <4>1, TotalFacts
      <4>3. C[x] = B[x] + 1 /\ B[x] \in Nat
        BY <1>1, <3>1 DEF NatBag
      <4>4. Total(C, R) = C[x] + Total(B, S \ {x})
        BY <2>1, <2>2, <2>3, Zenon
      <4> QED
        BY <2>4, <4>2, <4>3, <4>4
    <3>2. CASE x \notin DOMAIN B
      <4>1. S \ {x} = S
        BY <3>2
      <4> HIDE DEF S, R
      <4>2. C[x] = 1
        BY <1>1, <3>2
      <4>3. Total(C, R) = C[x] + Total(B, S)
        BY <2>1, <2>2, <2>3, <4>1, Zenon
      <4> QED
        BY <1>4, <4>2, <4>3
    <3> QED
      BY <3>1, <3>2
  <2> HIDE DEF R, S
  <2> QED
    BY <1>2, <2>5, <2>6 DEF C, R, S
<1> QED
  BY <1>5, <1>6

LEMMA TotalRemove ==
    ASSUME NEW B, NatBag(B), NEW x \in DOMAIN B, NEW Sel
    PROVE  /\ NatBag(BagRemove(B, x))
           /\ Total(BagRemove(B, x), DOMAIN BagRemove(B, x) \cap Sel) =
                Total(B, DOMAIN B \cap Sel) - One(x \in Sel)
<1> DEFINE C == BagRemove(B, x)
           S == DOMAIN B \cap Sel
           R == DOMAIN C \cap Sel
<1>1. /\ DOMAIN C = IF B[x] = 1 THEN DOMAIN B \ {x} ELSE DOMAIN B
      /\ \A y \in DOMAIN B \ {x} : C[y] = B[y]
      /\ B[x] # 1 => C[x] = B[x] - 1
  BY DEF BagRemove
<1> HIDE DEF C
<1>2. NatBag(C)
  BY <1>1, FS_RemoveElement DEF NatBag
<1>3. S \in SUBSET DOMAIN B /\ R \in SUBSET DOMAIN C
  OBVIOUS
<1>4. Total(B, S) \in Nat /\ Total(C, R) \in Nat
  BY <1>2, <1>3, TotalFacts
<1>5. CASE x \notin Sel
  <2>1. R = S /\ \A y \in S : C[y] = B[y]
    BY <1>1, <1>5
  <2>2. Total(C, S) = Total(B, S)
    BY <2>1, TotalSame
  <2>3. One(x \in Sel) = 0
    BY <1>5 DEF One
  <2> HIDE DEF R, S
  <2>4. Total(C, R) = Total(B, S) - One(x \in Sel)
    BY <1>4, <2>1, <2>2, <2>3
  <2> QED
    BY <1>2, <2>4 DEF C, R, S
<1>6. CASE x \in Sel
  <2>1. x \in S /\ R \ {x} = S \ {x} /\ \A y \in S \ {x} : C[y] = B[y]
    BY <1>1, <1>6
  <2>2. Total(B, S) = B[x] + Total(B, S \ {x})
    BY <1>3, <2>1, TotalFacts
  <2>3. Total(C, S \ {x}) = Total(B, S \ {x})
    BY <2>1, TotalSame
  <2>4. Total(B, S \ {x}) \in Nat /\ B[x] \in Nat
    <3>1. S \ {x} \in SUBSET DOMAIN B
      OBVIOUS
    <3> HIDE DEF S
    <3> QED
      BY <3>1, TotalFacts DEF NatBag
  <2>5. One(x \in Sel) = 1
    BY <1>6 DEF One
  <2>6. Total(C, R) = Total(B, S) - 1
    <3>1. CASE B[x] # 1
      <4>1. x \in R
        BY <1>1, <1>6, <3>1
      <4> HIDE DEF S, R
      <4>2. Total(C, R) = C[x] + Total(C, R \ {x})
        BY <1>2, <1>3, <4>1, TotalFacts
      <4>3. C[x] = B[x] - 1
        BY <1>1, <3>1
      <4>4. Total(C, R) = C[x] + Total(B, S \ {x})
        BY <2>1, <2>3, <4>2, Zenon
      <4> QED
        BY <2>2, <2>4, <4>3, <4>4
    <3>2. CASE B[x] = 1
      <4>1. R = S \ {x}
        BY <1>1, <3>2
      <4> HIDE DEF S, R
      <4>2. Total(C, R) = Total(B, S \ {x})
        BY <2>3, <4>1, Zenon
      <4> QED
        BY <2>2, <2>4, <3>2, <4>2
    <3> QED
      BY <3>1, <3>2
  <2> HIDE DEF R, S
  <2> QED
    BY <1>2, <2>5, <2>6 DEF C, R, S
<1> QED
  BY <1>5, <1>6

(* The requests of one pod in a bag of requests, and in one of goroutines. *)
LEMMA CopiesFacts ==
    ASSUME NEW B, NatBag(B), NEW p
    PROVE  /\ Copies(B, p) \in Nat
           /\ \A x : /\ NatBag(BagAdd(B, x))
                     /\ Copies(BagAdd(B, x), p) = Copies(B, p) + One(x.pod = p)
           /\ \A x \in DOMAIN B : /\ NatBag(BagRemove(B, x))
                                  /\ Copies(BagRemove(B, x), p) = Copies(B, p) - One(x.pod = p)
<1>1. Copies(B, p) \in Nat
  <2>1. {r \in DOMAIN B : r.pod = p} \in SUBSET DOMAIN B
    OBVIOUS
  <2> QED
    BY <2>1, TotalFacts DEF Copies
<1>2. ASSUME NEW x
      PROVE  /\ NatBag(BagAdd(B, x))
             /\ Copies(BagAdd(B, x), p) = Copies(B, p) + One(x.pod = p)
  <2> DEFINE Sel == {r \in DOMAIN B \cup {x} : r.pod = p}
  <2>1. /\ DOMAIN B \cap Sel = {r \in DOMAIN B : r.pod = p}
        /\ DOMAIN BagAdd(B, x) \cap Sel = {r \in DOMAIN BagAdd(B, x) : r.pod = p}
    BY BagAddDomain
  <2>2. One(x \in Sel) = One(x.pod = p)
    BY DEF One
  <2> HIDE DEF Sel
  <2>3. /\ NatBag(BagAdd(B, x))
        /\ Total(BagAdd(B, x), DOMAIN BagAdd(B, x) \cap Sel) =
              Total(B, DOMAIN B \cap Sel) + One(x \in Sel)
    BY TotalAdd
  <2> QED
    BY <2>1, <2>2, <2>3, Zenon DEF Copies
<1>3. ASSUME NEW x \in DOMAIN B
      PROVE  /\ NatBag(BagRemove(B, x))
             /\ Copies(BagRemove(B, x), p) = Copies(B, p) - One(x.pod = p)
  <2> DEFINE Sel == {r \in DOMAIN B : r.pod = p}
  <2>1. /\ DOMAIN B \cap Sel = {r \in DOMAIN B : r.pod = p}
        /\ DOMAIN BagRemove(B, x) \cap Sel = {r \in DOMAIN BagRemove(B, x) : r.pod = p}
    BY BagRemoveDomain
  <2>2. One(x \in Sel) = One(x.pod = p)
    BY DEF One
  <2> HIDE DEF Sel
  <2>3. /\ NatBag(BagRemove(B, x))
        /\ Total(BagRemove(B, x), DOMAIN BagRemove(B, x) \cap Sel) =
              Total(B, DOMAIN B \cap Sel) - One(x \in Sel)
    BY TotalRemove
  <2> QED
    BY <2>1, <2>2, <2>3, Zenon DEF Copies
<1> QED
  BY <1>1, <1>2, <1>3

LEMMA GoroutinesFacts ==
    ASSUME NEW B, NatBag(B), NEW p
    PROVE  /\ Goroutines(B, p) \in Nat
           /\ \A x : /\ NatBag(BagAdd(B, x))
                     /\ Goroutines(BagAdd(B, x), p) = Goroutines(B, p) + One(x.req.pod = p)
           /\ \A x \in DOMAIN B :
                     /\ NatBag(BagRemove(B, x))
                     /\ Goroutines(BagRemove(B, x), p) = Goroutines(B, p) - One(x.req.pod = p)
<1>1. Goroutines(B, p) \in Nat
  <2>1. {t \in DOMAIN B : t.req.pod = p} \in SUBSET DOMAIN B
    OBVIOUS
  <2> QED
    BY <2>1, TotalFacts DEF Goroutines
<1>2. ASSUME NEW x
      PROVE  /\ NatBag(BagAdd(B, x))
             /\ Goroutines(BagAdd(B, x), p) = Goroutines(B, p) + One(x.req.pod = p)
  <2> DEFINE Sel == {t \in DOMAIN B \cup {x} : t.req.pod = p}
  <2>1. /\ DOMAIN B \cap Sel = {t \in DOMAIN B : t.req.pod = p}
        /\ DOMAIN BagAdd(B, x) \cap Sel = {t \in DOMAIN BagAdd(B, x) : t.req.pod = p}
    BY BagAddDomain
  <2>2. One(x \in Sel) = One(x.req.pod = p)
    BY DEF One
  <2> HIDE DEF Sel
  <2>3. /\ NatBag(BagAdd(B, x))
        /\ Total(BagAdd(B, x), DOMAIN BagAdd(B, x) \cap Sel) =
              Total(B, DOMAIN B \cap Sel) + One(x \in Sel)
    BY TotalAdd
  <2> QED
    BY <2>1, <2>2, <2>3, Zenon DEF Goroutines
<1>3. ASSUME NEW x \in DOMAIN B
      PROVE  /\ NatBag(BagRemove(B, x))
             /\ Goroutines(BagRemove(B, x), p) = Goroutines(B, p) - One(x.req.pod = p)
  <2> DEFINE Sel == {t \in DOMAIN B : t.req.pod = p}
  <2>1. /\ DOMAIN B \cap Sel = {t \in DOMAIN B : t.req.pod = p}
        /\ DOMAIN BagRemove(B, x) \cap Sel = {t \in DOMAIN BagRemove(B, x) : t.req.pod = p}
    BY BagRemoveDomain
  <2>2. One(x \in Sel) = One(x.req.pod = p)
    BY DEF One
  <2> HIDE DEF Sel
  <2>3. /\ NatBag(BagRemove(B, x))
        /\ Total(BagRemove(B, x), DOMAIN BagRemove(B, x) \cap Sel) =
              Total(B, DOMAIN B \cap Sel) - One(x \in Sel)
    BY TotalRemove
  <2> QED
    BY <2>1, <2>2, <2>3, Zenon DEF Goroutines
<1> QED
  BY <1>1, <1>2, <1>3

LEMMA EmptyFacts ==
    /\ NatBag(EmptyBag)
    /\ \A p : Copies(EmptyBag, p) = 0 /\ Goroutines(EmptyBag, p) = 0
<1>1. NatBag(EmptyBag)
  BY EmptyDomain, FS_EmptySet DEF NatBag
<1>2. \A S : S \subseteq DOMAIN EmptyBag => S = {} /\ Total(EmptyBag, S) = 0
  BY <1>1, EmptyDomain, TotalFacts
<1>3. ASSUME NEW p
      PROVE  /\ {r \in DOMAIN EmptyBag : r.pod = p} \subseteq DOMAIN EmptyBag
             /\ {t \in DOMAIN EmptyBag : t.req.pod = p} \subseteq DOMAIN EmptyBag
  OBVIOUS
<1> QED
  BY <1>1, <1>2, <1>3 DEF Copies, Goroutines

(* What was prefetched of a bag is no more than the bag.                   *)
LEMMA PrefetchedFacts ==
    ASSUME NEW c, NatBag(queue[QueueOf(c)]), NEW S \in SUBSET DOMAIN queue[QueueOf(c)],
           NEW b \in Prefetched(c, S), NEW p
    PROVE  NatBag(b) /\ Copies(b, p) <= Copies(queue[QueueOf(c)], p)
<1>1. PICK B : B = queue[QueueOf(c)]
  OBVIOUS
<1>2. DOMAIN b = S /\ \A r \in S : b[r] \in Nat \ {0} /\ b[r] <= B[r]
  BY <1>1 DEF Prefetched
<1>3. NatBag(B) /\ S \subseteq DOMAIN B /\ IsFiniteSet(S)
  BY <1>1, FS_Subset DEF NatBag
<1>4. NatBag(b)
  BY <1>2, <1>3 DEF NatBag
<1>5. /\ {r \in DOMAIN b : r.pod = p} \in SUBSET DOMAIN b
      /\ {r \in DOMAIN B : r.pod = p} \in SUBSET DOMAIN B
      /\ {r \in DOMAIN b : r.pod = p} \subseteq {r \in DOMAIN B : r.pod = p}
      /\ \A r \in {r \in DOMAIN b : r.pod = p} : b[r] <= B[r]
  BY <1>2, <1>3
<1>6. Copies(b, p) <= Copies(B, p)
  BY <1>3, <1>4, <1>5, TotalBelow DEF Copies
<1> QED
  BY <1>1, <1>4, <1>6

-----------------------------------------------------------------------------
(* The recursive definition of Twice has the values it says, whatever the *)
(* number of faults: they exist up to every k, and are the same in each.   *)
Doubles(c, k) ==
    /\ c \in [0..k -> Nat]
    /\ \A i \in 0..k : c[i] = IF i = 0 THEN 1 ELSE 2 * c[i - 1]

LEMMA DoublesExist ==
    ASSUME NEW k \in Nat
    PROVE  \E c : Doubles(c, k)
<1> DEFINE T == {i \in 0..k : \E c : Doubles(c, i)}
<1>1. 0 \in T
  <2> DEFINE c == [i \in 0..0 |-> 1]
  <2>1. Doubles(c, 0)
    BY DEF Doubles
  <2> QED
    BY <2>1
<1>2. ASSUME NEW i \in 0..k, i < k, i \in T PROVE i + 1 \in T
  <2>1. PICK c : Doubles(c, i)
    BY <1>2
  <2> DEFINE d == [j \in 0..i+1 |-> IF j = i + 1 THEN 2 * c[i] ELSE c[j]]
  <2>2. \A j \in 0..i : c[j] \in Nat /\ c[j] = IF j = 0 THEN 1 ELSE 2 * c[j - 1]
    BY <2>1 DEF Doubles
  <2>3. d \in [0..i+1 -> Nat]
    BY <2>2
  <2>4. ASSUME NEW j \in 0..i+1 PROVE d[j] = IF j = 0 THEN 1 ELSE 2 * d[j - 1]
    <3>1. CASE j = i + 1
      BY <3>1
    <3>2. CASE j # i + 1
      <4>1. j \in 0..i /\ d[j] = c[j]
        BY <3>2
      <4>2. j # 0 => d[j - 1] = c[j - 1]
        BY <4>1
      <4> HIDE DEF d
      <4> QED
        BY <2>2, <4>1, <4>2
    <3> QED
      BY <3>1, <3>2
  <2> HIDE DEF d
  <2>5. Doubles(d, i + 1)
    BY <2>3, <2>4 DEF Doubles
  <2> QED
    BY <1>2, <2>5
<1> HIDE DEF T
<1>3. 0..k \subseteq T
  BY <1>1, <1>2, UpTo
<1> QED
  BY <1>3 DEF T

LEMMA DoublesAgree ==
    ASSUME NEW k \in Nat, NEW c, Doubles(c, k), NEW j \in 0..k, NEW d, Doubles(d, j)
    PROVE  c[j] = d[j]
<1> DEFINE T == {i \in 0..j : c[i] = d[i]}
<1>1. \A i \in 0..j : /\ c[i] = IF i = 0 THEN 1 ELSE 2 * c[i - 1]
                      /\ d[i] = IF i = 0 THEN 1 ELSE 2 * d[i - 1]
  BY DEF Doubles
<1>2. 0 \in T
  BY <1>1
<1>3. ASSUME NEW i \in 0..j, i < j, i \in T PROVE i + 1 \in T
  <2>1. i + 1 \in 0..j /\ i + 1 # 0 /\ (i + 1) - 1 = i
    BY <1>3
  <2>2. c[i + 1] = 2 * c[i] /\ d[i + 1] = 2 * d[i]
    BY <1>1, <2>1
  <2> QED
    BY <1>3, <2>1, <2>2
<1> HIDE DEF T
<1>4. 0..j \subseteq T
  BY <1>2, <1>3, UpTo
<1> QED
  BY <1>4 DEF T

LEMMA TwiceFacts ==
    /\ Twice[0] = 1
    /\ \A n \in Nat : Twice[n] \in Nat \ {0} /\ Twice[n + 1] = 2 * Twice[n]
<1> DEFINE Values(k) == CHOOSE c : Doubles(c, k)
           f == [n \in Nat |-> Values(n)[n]]
<1>1. \A k \in Nat : Doubles(Values(k), k)
  BY DoublesExist
<1> HIDE DEF Values
<1>2. \A n \in Nat : f[n] \in Nat
  BY <1>1 DEF Doubles
<1>3. ASSUME NEW n \in Nat PROVE f[n] = IF n = 0 THEN 1 ELSE 2 * f[n - 1]
  <2>1. Values(n)[n] = IF n = 0 THEN 1 ELSE 2 * Values(n)[n - 1]
    BY <1>1 DEF Doubles
  <2>2. CASE n = 0
    BY <2>1, <2>2
  <2>3. CASE n # 0
    <3>1. n - 1 \in Nat /\ n - 1 \in 0..n
      BY <2>3
    <3>2. Values(n)[n - 1] = Values(n - 1)[n - 1]
      BY <1>1, <3>1, DoublesAgree
    <3> QED
      BY <2>1, <2>3, <3>1, <3>2
  <2> QED
    BY <2>2, <2>3
<1>4. f = [n \in Nat |-> IF n = 0 THEN 1 ELSE 2 * f[n - 1]]
  <2>1. f = [n \in Nat |-> f[n]]
    OBVIOUS
  <2> HIDE DEF f
  <2> QED
    BY <1>3, <2>1, Zenon
<1> HIDE DEF f
<1>5. Twice = [n \in Nat |-> IF n = 0 THEN 1 ELSE 2 * Twice[n - 1]]
  BY <1>4, Zenon DEF Twice
<1> DEFINE g == Twice
<1>6. \A n \in Nat : g[n] = IF n = 0 THEN 1 ELSE 2 * g[n - 1]
  <2> HIDE DEF g
  <2> QED
    BY <1>5 DEF g
<1> HIDE DEF g
<1>7. ASSUME NEW n \in Nat PROVE g[n] \in Nat \ {0}
  <2> DEFINE T == {i \in 0..n : g[i] \in Nat \ {0}}
  <2>1. 0 \in T
    BY <1>6
  <2>2. ASSUME NEW i \in 0..n, i < n, i \in T PROVE i + 1 \in T
    <3>1. i + 1 \in Nat /\ i + 1 # 0 /\ (i + 1) - 1 = i
      BY <2>2
    <3>2. g[i + 1] = 2 * g[i]
      BY <1>6, <3>1
    <3> QED
      BY <2>2, <3>2
  <2> HIDE DEF T
  <2>3. 0..n \subseteq T
    BY <2>1, <2>2, UpTo
  <2> QED
    BY <2>3 DEF T
<1>8. g[0] = 1
  BY <1>6
<1>9. ASSUME NEW n \in Nat PROVE g[n + 1] = 2 * g[n]
  <2>1. n + 1 \in Nat /\ n + 1 # 0 /\ (n + 1) - 1 = n
    OBVIOUS
  <2> QED
    BY <1>6, <2>1
<1> QED
  BY <1>7, <1>8, <1>9 DEF g

-----------------------------------------------------------------------------
LEMMA ConsumersFinite == IsFiniteSet(Consumers)
  BY PipelineAssumption, FS_AddElement, FS_Singleton, FS_Union DEF Consumers

(* A sum over the consumers when one of them changes.                      *)
LEMMA OneChanges ==
    ASSUME NEW f, NEW g, DOMAIN f = Consumers, DOMAIN g = Consumers,
           \A c \in Consumers : f[c] \in Nat /\ g[c] \in Nat,
           NEW c \in Consumers, \A d \in Consumers \ {c} : g[d] = f[d]
    PROVE  /\ SumFunction(f) \in Nat /\ SumFunction(g) \in Nat
           /\ SumFunction(f) >= f[c]
           /\ SumFunction(g) - g[c] = SumFunction(f) - f[c]
<1> DEFINE h == [d \in Consumers \ {c} |-> f[d]]
<1>1. DOMAIN h = Consumers \ {c} /\ \A d \in DOMAIN h : h[d] = f[d] /\ h[d] = g[d] /\ h[d] \in Nat
  OBVIOUS
<1>2. IntegersOn(f) /\ IntegersOn(g) /\ IsFiniteSet(DOMAIN h)
  BY ConsumersFinite, FS_RemoveElement DEF IntegersOn
<1> HIDE DEF h
<1>3. SumFunction(h) \in Nat
  BY <1>1, <1>2, SumIsNat
<1>4. SumFunction(f) = f[c] + SumFunction(h)
  BY <1>1, <1>2, SumSplit
<1>5. SumFunction(g) = g[c] + SumFunction(h)
  BY <1>1, <1>2, SumSplit
<1>6. f[c] \in Nat /\ g[c] \in Nat
  OBVIOUS
<1> QED
  BY <1>3, <1>4, <1>5, <1>6

LEMMA ZeroSum ==
    ASSUME NEW f, DOMAIN f = Consumers, \A c \in Consumers : f[c] = 0
    PROVE  SumFunction(f) = 0
  BY ConsumersFinite, SumOfZeros DEF IntegersOn

-----------------------------------------------------------------------------
(* The counts.  With(c, p): what consumer c counts for in Outstanding.     *)
InQueues(p)    == Copies(queue[Wanted[p]], p) + Copies(queue["retry"], p)
With(c, p)     == One(InHand(c, p)) + Goroutines(tasks[c], p)
AtConsumers(p) == SumFunction([c \in Consumers |-> With(c, p)])
OldCopies(p)   == SumFunction([c \in Consumers |-> Copies(stale[c], p)])

(* What there may still be of a pod: requests under way, stale copies that *)
(* may be taken, and those the coordinator will make.                      *)
New(p)   == api[p].uid - told[p]
Ahead(p) == Outstanding(p) + OldCopies(p) + New(p)

CountOK ==
    /\ faults \in Nat /\ api \in [Pods -> Objects]
    /\ told \in [Pods -> Nat]
    /\ \A p \in Pods : /\ told[p] <= api[p].uid
                       /\ api[p].phase # "gone" => api[p].uid > 0
    /\ \A q \in Queues : NatBag(queue[q])
    /\ \A c \in Consumers : /\ NatBag(stale[c]) /\ NatBag(tasks[c])
                            /\ held[c] \in Messages \cup {None}

Natural ==
    \A p \in Pods :
        /\ InQueues(p) \in Nat /\ AtConsumers(p) \in Nat /\ OldCopies(p) \in Nat
        /\ \A c \in Consumers : With(c, p) \in Nat /\ Copies(stale[c], p) \in Nat
        /\ Outstanding(p) = One(p \in workqueue) + One(p = syncing) + InQueues(p) + AtConsumers(p)
        /\ Outstanding(p) \in Nat /\ Ahead(p) \in Nat

LEMMA Counts == CountOK => Natural
<1> SUFFICES ASSUME CountOK, NEW p \in Pods
             PROVE  /\ InQueues(p) \in Nat /\ AtConsumers(p) \in Nat /\ OldCopies(p) \in Nat
                    /\ \A c \in Consumers : With(c, p) \in Nat /\ Copies(stale[c], p) \in Nat
                    /\ Outstanding(p) = One(p \in workqueue) + One(p = syncing) + InQueues(p)
                                          + AtConsumers(p)
                    /\ Outstanding(p) \in Nat /\ Ahead(p) \in Nat
  BY DEF Natural
<1>9. New(p) \in Nat
  <2>1. told[p] \in Nat /\ api[p].uid \in Nat /\ told[p] <= api[p].uid
    BY DEF CountOK, Objects
  <2> QED
    BY <2>1 DEF New
<1>0. \A x : One(x) \in Nat
  BY DEF One
<1>1. Copies(queue[Wanted[p]], p) \in Nat /\ Copies(queue["retry"], p) \in Nat
  <2>1. Wanted[p] \in Queues /\ "retry" \in Queues
    BY PipelineAssumption DEF Queues
  <2> QED
    BY <2>1, CopiesFacts DEF CountOK
<1>2. InQueues(p) \in Nat
  BY <1>1 DEF InQueues
<1>3. \A c \in Consumers : Copies(stale[c], p) \in Nat /\ Goroutines(tasks[c], p) \in Nat
  BY CopiesFacts, GoroutinesFacts DEF CountOK
<1>4. \A c \in Consumers : With(c, p) \in Nat
  BY <1>0, <1>3 DEF With
<1>5. AtConsumers(p) \in Nat
  <2> DEFINE f == [c \in Consumers |-> With(c, p)]
  <2>1. DOMAIN f = Consumers /\ \A c \in DOMAIN f : f[c] \in Nat
    BY <1>4
  <2> HIDE DEF f
  <2>2. SumFunction(f) \in Nat
    BY <2>1, ConsumersFinite, SumIsNat
  <2> QED
    BY <2>2 DEF f, AtConsumers
<1>6. OldCopies(p) \in Nat
  <2> DEFINE f == [c \in Consumers |-> Copies(stale[c], p)]
  <2>1. DOMAIN f = Consumers /\ \A c \in DOMAIN f : f[c] \in Nat
    BY <1>3
  <2> HIDE DEF f
  <2>2. SumFunction(f) \in Nat
    BY <2>1, ConsumersFinite, SumIsNat
  <2> QED
    BY <2>2 DEF f, OldCopies
<1>7. Outstanding(p) = One(p \in workqueue) + One(p = syncing) + InQueues(p) + AtConsumers(p)
  <2>1. PICK a, b, u, v, w : /\ a = One(p \in workqueue) /\ b = One(p = syncing)
                             /\ u = Copies(queue[Wanted[p]], p)
                             /\ v = Copies(queue["retry"], p) /\ w = AtConsumers(p)
    OBVIOUS
  <2>2. Outstanding(p) = a + b + u + v + w
    BY <2>1, Zenon DEF Outstanding, AtConsumers, With
  <2>3. a \in Nat /\ b \in Nat /\ u \in Nat /\ v \in Nat /\ w \in Nat
    BY <1>0, <1>1, <1>5, <2>1
  <2>4. InQueues(p) = u + v
    BY <2>1 DEF InQueues
  <2> QED
    BY <2>1, <2>2, <2>3, <2>4
<1>8. Outstanding(p) \in Nat
  BY <1>0, <1>2, <1>5, <1>7
<1> QED
  BY <1>2, <1>3, <1>4, <1>5, <1>6, <1>7, <1>8, <1>9 DEF Ahead

LEMMA CountsNext == CountOK' => Natural'
  BY Counts, PTL

(* A step of one consumer changes the counts by what it changes at that    *)
(* consumer and in the queues.                                             *)
Others(c) == \A d \in Consumers \ {c} :
                held'[d] = held[d] /\ tasks'[d] = tasks[d] /\ stale'[d] = stale[d]

Near(c, p) == InQueues(p) + With(c, p)
Far(c, p)  == Copies(stale[c], p)

Kept(p)   == /\ faults' = faults
             /\ \/ api'[p].uid = api[p].uid /\ Ahead(p)' <= Ahead(p)
                \/ api'[p].uid = api[p].uid + 1 /\ Ahead(p)' <= Ahead(p) + 1
Failed(p) == /\ faults' = faults + 1 /\ Ahead(p)' <= 2 * Ahead(p) + 1
             /\ api'[p].uid \in {api[p].uid, api[p].uid + 1}

(* No pod is created.                                                      *)
SamePods ==
    /\ api' \in [Pods -> Objects]
    /\ \A p \in Pods : /\ api'[p].uid = api[p].uid
                       /\ api'[p].phase # "gone" => api[p].phase # "gone"

LEMMA ApiUnchanged == CountOK /\ UNCHANGED api => SamePods
  BY DEF CountOK, SamePods

LEMMA ToldOK ==
    ASSUME CountOK, SamePods, UNCHANGED coordinator
    PROVE  /\ told' \in [Pods -> Nat]
           /\ \A p \in Pods : /\ told'[p] <= api'[p].uid
                              /\ api'[p].phase # "gone" => api'[p].uid > 0
  BY DEF CountOK, SamePods, coordinator

LEMMA Balance ==
    ASSUME CountOK, CountOK', NEW c \in Consumers, NEW p \in Pods, Others(c),
           UNCHANGED coordinator, SamePods
    PROVE  /\ Near(c, p) \in Nat /\ Near(c, p)' \in Nat /\ Far(c, p) \in Nat /\ Far(c, p)' \in Nat
           /\ Outstanding(p) \in Nat /\ Outstanding(p)' \in Nat
           /\ Ahead(p) \in Nat /\ Ahead(p)' \in Nat
           /\ Outstanding(p)' - Outstanding(p) = Near(c, p)' - Near(c, p)
           /\ Ahead(p)' - Ahead(p) = (Near(c, p)' + Far(c, p)') - (Near(c, p) + Far(c, p))
           /\ Near(c, p) + Far(c, p) <= Ahead(p)
<1>1. Natural /\ Natural'
  BY Counts, CountsNext
<1>0. \A x : One(x) \in Nat
  BY DEF One
<1>2. /\ AtConsumers(p)' - With(c, p)' = AtConsumers(p) - With(c, p)
      /\ With(c, p) <= AtConsumers(p)
  <2> DEFINE f == [d \in Consumers |-> With(d, p)]
  <2>1. PICK g : g = [d \in Consumers |-> With(d, p)']
    OBVIOUS
  <2>2. DOMAIN f = Consumers /\ DOMAIN g = Consumers
    BY <2>1
  <2>3. \A d \in Consumers : f[d] = With(d, p) /\ g[d] = With(d, p)'
    BY <2>1
  <2>4. \A d \in Consumers : f[d] \in Nat /\ g[d] \in Nat
    BY <1>1, <2>3 DEF Natural
  <2>5. \A d \in Consumers \ {c} : g[d] = f[d]
    BY <2>3 DEF With, InHand, Others
  <2>6. AtConsumers(p) = SumFunction(f) /\ AtConsumers(p)' = SumFunction(g)
    BY <2>1 DEF AtConsumers
  <2> HIDE DEF f
  <2>7. SumFunction(g) - g[c] = SumFunction(f) - f[c] /\ SumFunction(f) >= f[c]
        /\ SumFunction(f) \in Nat
    BY <2>2, <2>4, <2>5, OneChanges
  <2> QED
    BY <2>3, <2>4, <2>6, <2>7
<1>3. /\ OldCopies(p)' - Far(c, p)' = OldCopies(p) - Far(c, p)
      /\ Far(c, p) <= OldCopies(p)
  <2> DEFINE f == [d \in Consumers |-> Far(d, p)]
  <2>1. PICK g : g = [d \in Consumers |-> Far(d, p)']
    OBVIOUS
  <2>2. DOMAIN f = Consumers /\ DOMAIN g = Consumers
    BY <2>1
  <2>3. \A d \in Consumers : f[d] = Far(d, p) /\ g[d] = Far(d, p)'
    BY <2>1
  <2>4. \A d \in Consumers : f[d] \in Nat /\ g[d] \in Nat
    BY <1>1, <2>3 DEF Natural, Far
  <2>5. \A d \in Consumers \ {c} : g[d] = f[d]
    BY <2>3 DEF Far, Others
  <2>6. OldCopies(p) = SumFunction(f) /\ OldCopies(p)' = SumFunction(g)
    BY <2>1 DEF OldCopies, Far
  <2> HIDE DEF f
  <2>7. SumFunction(g) - g[c] = SumFunction(f) - f[c] /\ SumFunction(f) >= f[c]
        /\ SumFunction(f) \in Nat
    BY <2>2, <2>4, <2>5, OneChanges
  <2> QED
    BY <2>3, <2>4, <2>6, <2>7
<1>17. New(p) \in Nat
  <2>1. told[p] \in Nat /\ api[p].uid \in Nat /\ told[p] <= api[p].uid
    BY DEF CountOK, Objects
  <2> QED
    BY <2>1 DEF New
<1>4. PICK a, b, t : /\ a = One(p \in workqueue) /\ b = One(p = syncing) /\ t = New(p)
                     /\ a \in Nat /\ b \in Nat /\ t \in Nat
  BY <1>0, <1>17
<1>5. One(p \in workqueue)' = a /\ One(p = syncing)' = b /\ New(p)' = t
  BY <1>4 DEF coordinator, SamePods, New
<1>6. Outstanding(p) = a + b + InQueues(p) + AtConsumers(p)
  BY <1>1, <1>4 DEF Natural
<1>7. Outstanding(p)' = a + b + InQueues(p)' + AtConsumers(p)'
  BY <1>1, <1>5 DEF Natural
<1>8. Ahead(p) = Outstanding(p) + OldCopies(p) + t
  BY <1>4 DEF Ahead
<1>9. Ahead(p)' = Outstanding(p)' + OldCopies(p)' + t
  BY <1>5 DEF Ahead
<1>10. /\ InQueues(p) \in Nat /\ AtConsumers(p) \in Nat /\ OldCopies(p) \in Nat
       /\ With(c, p) \in Nat /\ Far(c, p) \in Nat
       /\ Outstanding(p) \in Nat /\ Ahead(p) \in Nat
  BY <1>1 DEF Natural, Far
<1>11. /\ InQueues(p)' \in Nat /\ AtConsumers(p)' \in Nat /\ OldCopies(p)' \in Nat
       /\ With(c, p)' \in Nat /\ Far(c, p)' \in Nat
       /\ Outstanding(p)' \in Nat /\ Ahead(p)' \in Nat
  BY <1>1 DEF Natural, Far
<1>12. Near(c, p) = InQueues(p) + With(c, p) /\ Near(c, p)' = InQueues(p)' + With(c, p)'
  BY DEF Near
<1>13. /\ Near(c, p) \in Nat /\ Near(c, p)' \in Nat
       /\ Near(c, p)' - Near(c, p) = (InQueues(p)' + With(c, p)') - (InQueues(p) + With(c, p))
  BY <1>10, <1>11, <1>12
<1>14. Outstanding(p)' - Outstanding(p) = Near(c, p)' - Near(c, p)
  BY <1>2, <1>4, <1>6, <1>7, <1>10, <1>11, <1>13
<1>15. Ahead(p)' - Ahead(p) = (Near(c, p)' + Far(c, p)') - (Near(c, p) + Far(c, p))
  <2>1. PICK o, o1, f, f1, n, n1, x, x1 :
          /\ o = OldCopies(p) /\ o1 = OldCopies(p)' /\ f = Far(c, p) /\ f1 = Far(c, p)'
          /\ n = Near(c, p) /\ n1 = Near(c, p)' /\ x = Outstanding(p) /\ x1 = Outstanding(p)'
    OBVIOUS
  <2>2. /\ o \in Nat /\ o1 \in Nat /\ f \in Nat /\ f1 \in Nat /\ n \in Nat /\ n1 \in Nat
        /\ x \in Nat /\ x1 \in Nat /\ t \in Nat
        /\ o1 - f1 = o - f /\ x1 - x = n1 - n
    BY <1>3, <1>4, <1>10, <1>11, <1>13, <1>14, <2>1
  <2>3. Ahead(p) = x + o + t /\ Ahead(p)' = x1 + o1 + t
    BY <1>8, <1>9, <2>1
  <2> QED
    BY <2>1, <2>2, <2>3
<1>16. Near(c, p) + Far(c, p) <= Ahead(p)
  BY <1>2, <1>3, <1>4, <1>6, <1>8, <1>10, <1>12
<1> QED
  BY <1>10, <1>11, <1>13, <1>14, <1>15, <1>16

LEMMA BalanceKept ==
    ASSUME CountOK, CountOK', NEW c \in Consumers, NEW p \in Pods, Others(c),
           UNCHANGED <<coordinator, faults>>, SamePods,
           Near(c, p)' + Far(c, p)' <= Near(c, p) + Far(c, p)
    PROVE  Kept(p)
<1>1. PICK n, m, f, g, a, b :
        /\ n = Near(c, p) /\ m = Near(c, p)' /\ f = Far(c, p) /\ g = Far(c, p)'
        /\ a = Ahead(p) /\ b = Ahead(p)'
  OBVIOUS
<1>2. UNCHANGED coordinator
  OBVIOUS
<1>3. /\ n \in Nat /\ m \in Nat /\ f \in Nat /\ g \in Nat /\ a \in Nat /\ b \in Nat
      /\ b - a = (m + g) - (n + f)
  BY <1>1, <1>2, Balance
<1>4. m + g <= n + f
  BY <1>1
<1>5. b <= a
  BY <1>3, <1>4
<1> QED
  BY <1>1, <1>5 DEF Kept, SamePods

LEMMA BalanceFailed ==
    ASSUME CountOK, CountOK', NEW c \in Consumers, NEW p \in Pods, Others(c),
           UNCHANGED coordinator, faults' = faults + 1, SamePods,
           Near(c, p)' + Far(c, p)' <= 2 * (Near(c, p) + Far(c, p)) + 1
    PROVE  Failed(p)
<1>1. PICK n, m, f, g, a, b :
        /\ n = Near(c, p) /\ m = Near(c, p)' /\ f = Far(c, p) /\ g = Far(c, p)'
        /\ a = Ahead(p) /\ b = Ahead(p)'
  OBVIOUS
<1>2. /\ n \in Nat /\ m \in Nat /\ f \in Nat /\ g \in Nat /\ a \in Nat /\ b \in Nat
      /\ b - a = (m + g) - (n + f) /\ n + f <= a
  BY <1>1, Balance
<1>3. m + g <= 2 * (n + f) + 1
  BY <1>1
<1>4. b <= 2 * a + 1
  BY <1>2, <1>3
<1> QED
  BY <1>1, <1>4 DEF Failed, SamePods

-----------------------------------------------------------------------------
(* What the operations on a queue change in the counts.                    *)
LEMMA Names ==
    /\ \A p \in Pods : Wanted[p] \in Queues /\ Wanted[p] # "retry" /\ "retry" \in Queues
    /\ \A q \in Queues : \A r \in Held(q) :
          r \in Requests /\ r.pod \in Pods /\ (q = "retry" \/ q = Wanted[r.pod])
  BY PipelineAssumption DEF Queues, Kinds, Held, Retried, OfKind, Requests

LEMMA QueueAddCounts ==
    ASSUME IInv, CountOK, NEW q \in Queues, NEW r \in Held(q), NEW p \in Pods,
           queue' = [queue EXCEPT ![q] = BagAdd(@, r)]
    PROVE  /\ \A k \in Queues : NatBag(queue'[k])
           /\ InQueues(p)' = InQueues(p) + One(r.pod = p)
<1>1. \A k \in Queues : NatBag(queue[k])
  BY DEF CountOK
<1>2. queue'[q] = BagAdd(queue[q], r) /\ \A k \in Queues \ {q} : queue'[k] = queue[k]
  BY DEF IInv, QueueOK
<1>3. \A k \in Queues : NatBag(queue'[k])
  BY <1>1, <1>2, CopiesFacts
<1>4. \A k \in Queues : Copies(queue[k], p) \in Nat
  BY <1>1, CopiesFacts
<1>5. Copies(queue'[q], p) = Copies(queue[q], p) + One(r.pod = p)
  BY <1>1, <1>2, CopiesFacts
<1>6. \A k \in Queues \ {q} : Copies(queue'[k], p) = Copies(queue[k], p)
  BY <1>2
<1>7. PICK a, b, c, d : /\ a = Copies(queue[Wanted[p]], p) /\ b = Copies(queue["retry"], p)
                        /\ c = Copies(queue'[Wanted[p]], p) /\ d = Copies(queue'["retry"], p)
  OBVIOUS
<1>8. a \in Nat /\ b \in Nat
  BY <1>4, <1>7, Names
<1>9. InQueues(p) = a + b /\ InQueues(p)' = c + d
  BY <1>7 DEF InQueues
<1>10. CASE r.pod = p
  <2>1. One(r.pod = p) = 1
    BY <1>10 DEF One
  <2>2. CASE q = "retry"
    <3>1. c = a /\ d = b + 1
      BY <1>5, <1>6, <1>7, <2>1, <2>2, Names
    <3> QED
      BY <1>3, <1>8, <1>9, <2>1, <3>1
  <2>3. CASE q = Wanted[p] /\ q # "retry"
    <3>1. d = b /\ c = a + 1
      BY <1>5, <1>6, <1>7, <2>1, <2>3, Names
    <3> QED
      BY <1>3, <1>8, <1>9, <2>1, <3>1
  <2> QED
    BY <1>10, <2>2, <2>3, Names
<1>11. CASE r.pod # p
  <2>1. One(r.pod = p) = 0
    BY <1>11 DEF One
  <2>2. \A k \in Queues : Copies(queue'[k], p) = Copies(queue[k], p)
    BY <1>4, <1>5, <1>6, <2>1
  <2>3. c = a /\ d = b
    BY <1>7, <2>2, Names
  <2> QED
    BY <1>3, <1>8, <1>9, <2>1, <2>3
<1> QED
  BY <1>10, <1>11

LEMMA QueueRemoveCounts ==
    ASSUME IInv, CountOK, NEW q \in Queues, NEW r \in DOMAIN queue[q], NEW p \in Pods,
           queue' = [queue EXCEPT ![q] = BagRemove(@, r)]
    PROVE  /\ \A k \in Queues : NatBag(queue'[k])
           /\ InQueues(p)' = InQueues(p) - One(r.pod = p)
<1>0. r \in Held(q)
  BY DEF IInv, QueueOK
<1>1. \A k \in Queues : NatBag(queue[k])
  BY DEF CountOK
<1>2. queue'[q] = BagRemove(queue[q], r) /\ \A k \in Queues \ {q} : queue'[k] = queue[k]
  BY DEF IInv, QueueOK
<1>3. \A k \in Queues : NatBag(queue'[k])
  BY <1>1, <1>2, CopiesFacts
<1>4. \A k \in Queues : Copies(queue[k], p) \in Nat
  BY <1>1, CopiesFacts
<1>5. Copies(queue'[q], p) = Copies(queue[q], p) - One(r.pod = p)
  BY <1>1, <1>2, CopiesFacts
<1>6. \A k \in Queues \ {q} : Copies(queue'[k], p) = Copies(queue[k], p)
  BY <1>2
<1>7. PICK a, b, c, d : /\ a = Copies(queue[Wanted[p]], p) /\ b = Copies(queue["retry"], p)
                        /\ c = Copies(queue'[Wanted[p]], p) /\ d = Copies(queue'["retry"], p)
  OBVIOUS
<1>8. a \in Nat /\ b \in Nat
  BY <1>4, <1>7, Names
<1>9. InQueues(p) = a + b /\ InQueues(p)' = c + d
  BY <1>7 DEF InQueues
<1>10. CASE r.pod = p
  <2>1. One(r.pod = p) = 1
    BY <1>10 DEF One
  <2>2. CASE q = "retry"
    <3>1. c = a /\ d = b - 1
      BY <1>5, <1>6, <1>7, <2>1, <2>2, Names
    <3> QED
      BY <1>3, <1>8, <1>9, <2>1, <3>1
  <2>3. CASE q = Wanted[p] /\ q # "retry"
    <3>1. d = b /\ c = a - 1
      BY <1>5, <1>6, <1>7, <2>1, <2>3, Names
    <3> QED
      BY <1>3, <1>8, <1>9, <2>1, <3>1
  <2> QED
    BY <1>0, <1>10, <2>2, <2>3, Names
<1>11. CASE r.pod # p
  <2>1. One(r.pod = p) = 0
    BY <1>11 DEF One
  <2>2. \A k \in Queues : Copies(queue'[k], p) = Copies(queue[k], p)
    BY <1>4, <1>5, <1>6, <2>1
  <2>3. c = a /\ d = b
    BY <1>7, <2>2, Names
  <2> QED
    BY <1>3, <1>8, <1>9, <2>1, <2>3
<1> QED
  BY <1>10, <1>11

(* What a goroutine that starts, and one that ends, change at a consumer.  *)
LEMMA SpawnCounts ==
    ASSUME IInv, CountOK, NEW c \in Consumers, NEW t, Spawn(c, t), NEW p \in Pods
    PROVE  /\ \A d \in Consumers : NatBag(tasks'[d])
           /\ \A d \in Consumers \ {c} : tasks'[d] = tasks[d]
           /\ Goroutines(tasks[c], p) \in Nat
           /\ Goroutines(tasks'[c], p) = Goroutines(tasks[c], p) + One(t.req.pod = p)
<1>1. tasks'[c] = BagAdd(tasks[c], t) /\ \A d \in Consumers \ {c} : tasks'[d] = tasks[d]
  BY DEF Spawn, IInv, TasksOK
<1>2. \A d \in Consumers : NatBag(tasks[d])
  BY DEF CountOK
<1> QED
  BY <1>1, <1>2, GoroutinesFacts

LEMMA ReturnCounts ==
    ASSUME IInv, CountOK, NEW c \in Consumers, NEW t \in DOMAIN tasks[c], Return(c, t),
           NEW p \in Pods
    PROVE  /\ \A d \in Consumers : NatBag(tasks'[d])
           /\ \A d \in Consumers \ {c} : tasks'[d] = tasks[d]
           /\ Goroutines(tasks[c], p) \in Nat
           /\ Goroutines(tasks'[c], p) = Goroutines(tasks[c], p) - One(t.req.pod = p)
<1>1. tasks'[c] = BagRemove(tasks[c], t) /\ \A d \in Consumers \ {c} : tasks'[d] = tasks[d]
  BY DEF Return, IInv, TasksOK
<1>2. \A d \in Consumers : NatBag(tasks[d])
  BY DEF CountOK
<1> QED
  BY <1>1, <1>2, GoroutinesFacts

(* The message in hand moves on.                                           *)
LEMMA MoveCounts ==
    ASSUME IInv, CountOK, NEW c \in Consumers, NEW stage \in {"bind", "ack"}, Move(c, stage),
           held[c] # None, NEW p \in Pods
    PROVE  /\ \A d \in Consumers : held'[d] \in Messages \cup {None}
           /\ \A d \in Consumers \ {c} : held'[d] = held[d]
           /\ held'[c] # None /\ held'[c].stage = stage /\ held'[c].req = held[c].req
           /\ InHand(c, p)' = (stage # "ack" /\ held[c].req.pod = p)
<1>1. held' = [held EXCEPT ![c] = [held[c] EXCEPT !.stage = stage]] /\ DOMAIN held = Consumers
  BY DEF Move, IInv, HeldOK
<1>2. held[c] \in Messages /\ \A d \in Consumers : held[d] \in Messages \cup {None}
  BY DEF CountOK
<1>3. PICK m \in Messages : m = held[c]
  BY <1>2
<1>4. PICK n : n = [m EXCEPT !.stage = stage]
  OBVIOUS
<1>5. n \in Messages /\ n.stage = stage /\ n.req = m.req
  BY <1>4 DEF Messages
<1>6. held'[c] = n /\ \A d \in Consumers \ {c} : held'[d] = held[d]
  BY <1>1, <1>3, <1>4
<1>7. n # None
  BY <1>5, PipelineAssumption
<1> QED
  BY <1>2, <1>3, <1>5, <1>6, <1>7 DEF InHand

(* A message that is taken leaves its queue or the stale copies.           *)
LEMMA TakeCounts ==
    ASSUME IInv, CountOK, NEW c \in Consumers, NEW r, NEW stage \in {"schedule", "ack"},
           NEW obj \in Objects \cup {None}, Take(c, r, stage, obj), NEW p \in Pods
    PROVE  /\ \A k \in Queues : NatBag(queue'[k])
           /\ \A d \in Consumers : NatBag(stale'[d]) /\ held'[d] \in Messages \cup {None}
           /\ \A d \in Consumers \ {c} : held'[d] = held[d] /\ stale'[d] = stale[d]
           /\ ~InHand(c, p) /\ InHand(c, p)' = (stage # "ack" /\ r.pod = p)
           /\ \/ InQueues(p)' = InQueues(p) - One(r.pod = p) /\ Far(c, p)' = Far(c, p)
              \/ InQueues(p)' = InQueues(p) /\ Far(c, p)' = Far(c, p) - One(r.pod = p)
<1>1. /\ DOMAIN held = Consumers /\ DOMAIN stale = Consumers /\ QueueOf(c) \in Queues
      /\ \A k \in Queues : NatBag(queue[k])
      /\ \A d \in Consumers : NatBag(stale[d]) /\ held[d] \in Messages \cup {None}
  BY Places DEF IInv, HeldOK, StaleOK, CountOK
<1>2. r \in Requests
  BY Taken, Places, Names DEF IInv, Accepts
<1>3. PICK live \in BOOLEAN : held' = [held EXCEPT ![c] = Message(r, stage, obj, live)]
  BY DEF Take
<1>4. PICK m : m = Message(r, stage, obj, live)
  OBVIOUS
<1>5. m \in Messages /\ m.stage = stage /\ m.req = r
  BY <1>2, <1>4 DEF Message, Messages, Requests
<1>6. m # None
  BY <1>5, PipelineAssumption
<1>7. held'[c] = m /\ \A d \in Consumers \ {c} : held'[d] = held[d]
  BY <1>1, <1>3, <1>4
<1>8. /\ \A d \in Consumers : held'[d] \in Messages \cup {None}
      /\ ~InHand(c, p) /\ InHand(c, p)' = (stage # "ack" /\ r.pod = p)
  BY <1>1, <1>5, <1>6, <1>7 DEF Take, InHand
<1>9. CASE /\ r \in DOMAIN queue[QueueOf(c)] /\ UNCHANGED stale
           /\ queue' = [queue EXCEPT ![QueueOf(c)] = BagRemove(@, r)]
  <2>1. /\ \A k \in Queues : NatBag(queue'[k])
        /\ InQueues(p)' = InQueues(p) - One(r.pod = p)
    BY <1>1, <1>9, QueueRemoveCounts, ZenonT(60)
  <2>2. Far(c, p)' = Far(c, p)
    BY <1>9 DEF Far
  <2> QED
    BY <1>1, <1>7, <1>8, <1>9, <2>1, <2>2
<1>10. CASE /\ r \in DOMAIN stale[c] /\ UNCHANGED queue
            /\ stale' = [stale EXCEPT ![c] = BagRemove(@, r)]
  <2>1. stale'[c] = BagRemove(stale[c], r) /\ \A d \in Consumers \ {c} : stale'[d] = stale[d]
    BY <1>1, <1>10
  <2>2. /\ \A d \in Consumers : NatBag(stale'[d])
        /\ Copies(stale'[c], p) = Copies(stale[c], p) - One(r.pod = p)
    BY <1>1, <1>10, <2>1, CopiesFacts
  <2>3. Far(c, p)' = Far(c, p) - One(r.pod = p)
    BY <2>2 DEF Far
  <2>4. InQueues(p)' = InQueues(p)
    BY <1>10 DEF InQueues
  <2>5. \A k \in Queues : NatBag(queue'[k])
    BY <1>1, <1>10
  <2> QED
    BY <1>7, <1>8, <2>1, <2>2, <2>3, <2>4, <2>5
<1> QED
  BY <1>9, <1>10 DEF Take, BagIn, BagToSet

(* What goes back to a queue is the one message in hand.                   *)
LEMMA RequeuedCounts ==
    ASSUME IInv, CountOK, NEW c \in Consumers, queue' = Requeued(c), NEW p \in Pods
    PROVE  /\ \A k \in Queues : NatBag(queue'[k])
           /\ InQueues(p)' = InQueues(p) \/ InQueues(p)' = InQueues(p) + 1
<1>0. InQueues(p) \in Nat
  BY Counts DEF Natural
<1>1. CASE held[c] # None /\ held[c].live
  <2>1. held[c].req \in Held(QueueOf(c)) /\ QueueOf(c) \in Queues
    BY <1>1, Places DEF IInv, HeldOK, Accepts
  <2>2. queue' = [queue EXCEPT ![QueueOf(c)] = BagAdd(@, held[c].req)]
    BY <1>1 DEF Requeued
  <2>3. /\ \A k \in Queues : NatBag(queue'[k])
        /\ InQueues(p)' = InQueues(p) + One(held[c].req.pod = p)
    BY <2>1, <2>2, QueueAddCounts
  <2>4. One(held[c].req.pod = p) \in {0, 1}
    BY DEF One
  <2> QED
    BY <1>0, <2>3, <2>4
<1>2. CASE ~(held[c] # None /\ held[c].live)
  BY <1>2 DEF Requeued, CountOK, InQueues
<1> QED
  BY <1>1, <1>2

LEMMA StopCounts ==
    ASSUME IInv, CountOK, NEW c \in Consumers, Stop(c), UNCHANGED coordinator,
           SamePods, faults' = faults + 1, NEW p \in Pods
    PROVE  CountOK' /\ Failed(p)
<1>1. /\ DOMAIN held = Consumers /\ DOMAIN stale = Consumers /\ DOMAIN tasks = Consumers
  BY DEF IInv, HeldOK, StaleOK, TasksOK
<1>2. /\ \A k \in Queues : NatBag(queue'[k])
      /\ InQueues(p)' = InQueues(p) \/ InQueues(p)' = InQueues(p) + 1
  BY RequeuedCounts DEF Stop
<1>3. /\ held'[c] = None /\ stale'[c] = EmptyBag /\ tasks'[c] = EmptyBag
      /\ Others(c)
  BY <1>1 DEF Stop, Others
<1>4. CountOK'
  <2>1. faults' \in Nat
    BY DEF CountOK
  <2> QED
    BY <1>2, <1>3, <2>1, ToldOK, EmptyFacts DEF CountOK, Others, SamePods
<1>5. With(c, p)' = 0 /\ Far(c, p)' = 0
  <2>1. One(InHand(c, p))' = 0
    BY <1>3 DEF InHand, One
  <2>2. Goroutines(tasks'[c], p) = 0 /\ Copies(stale'[c], p) = 0
    BY <1>3, EmptyFacts
  <2> QED
    BY <2>1, <2>2 DEF With, Far
<1>6. InQueues(p) \in Nat /\ With(c, p) \in Nat /\ Far(c, p) \in Nat
  BY Counts DEF Natural, Far
<1>7. Near(c, p)' + Far(c, p)' <= 2 * (Near(c, p) + Far(c, p)) + 1
  <2>1. PICK a, b, f, d : /\ a = InQueues(p) /\ b = With(c, p) /\ f = Far(c, p)
                          /\ d = InQueues(p)'
    OBVIOUS
  <2>2. Near(c, p) = a + b /\ Near(c, p)' = d + 0 /\ Far(c, p)' = 0
    BY <1>5, <2>1 DEF Near
  <2> QED
    BY <1>2, <1>6, <2>1, <2>2
<1> QED
  BY <1>3, <1>4, <1>7, BalanceFailed

LEMMA InQueuesAbove ==
    ASSUME IInv, CountOK, NEW q \in Queues, NEW p \in Pods
    PROVE  Copies(queue[q], p) <= InQueues(p)
<1>1. \A k \in Queues : NatBag(queue[k]) /\ Copies(queue[k], p) \in Nat
  BY CopiesFacts DEF CountOK
<1>2. /\ InQueues(p) = Copies(queue[Wanted[p]], p) + Copies(queue["retry"], p)
      /\ Copies(queue[Wanted[p]], p) \in Nat /\ Copies(queue["retry"], p) \in Nat
  BY <1>1, Names DEF InQueues
<1>3. CASE q = "retry" \/ q = Wanted[p]
  <2>1. Copies(queue[q], p) = Copies(queue["retry"], p)
           \/ Copies(queue[q], p) = Copies(queue[Wanted[p]], p)
    BY <1>3
  <2> QED
    BY <1>2, <2>1
<1>4. CASE q # "retry" /\ q # Wanted[p]
  <2>1. {r \in DOMAIN queue[q] : r.pod = p} = {}
    BY <1>4, Names DEF IInv, QueueOK
  <2>2. Copies(queue[q], p) = 0
    BY <1>1, <2>1, TotalFacts DEF Copies
  <2> QED
    BY <1>2, <2>2
<1> QED
  BY <1>3, <1>4

LEMMA BreakCounts ==
    ASSUME IInv, CountOK, NEW c \in Services, Break(c), NEW p \in Pods
    PROVE  CountOK' /\ Failed(p)
<1>1. /\ faults \in Nat /\ faults' = faults + 1 /\ faults' \in Nat
      /\ UNCHANGED <<api, coordinator, tasks>>
  BY DEF Break, Fault, CountOK
<1>0. /\ SamePods /\ told' \in [Pods -> Nat]
      /\ \A x \in Pods : /\ told'[x] <= api'[x].uid
                         /\ api'[x].phase # "gone" => api'[x].uid > 0
  BY <1>1, ApiUnchanged, ToldOK
<1>2. CASE c = Coordinator
  <2>1. UNCHANGED <<queue, held, stale>>
    BY <1>2 DEF Break
  <2>2. CountOK'
    BY <1>0, <1>1, <2>1 DEF CountOK, SamePods
  <2>3. Retry \in Consumers /\ Others(Retry)
    BY <1>1, <2>1 DEF Others, Consumers
  <2>4. Near(Retry, p)' = Near(Retry, p) /\ Far(Retry, p)' = Far(Retry, p)
    BY <1>1, <2>1 DEF Near, Far, InQueues, With, InHand
  <2>5. Near(Retry, p) \in Nat /\ Far(Retry, p) \in Nat
    BY <2>3, Counts DEF Natural, Near, Far
  <2>6. Near(Retry, p)' + Far(Retry, p)' <= 2 * (Near(Retry, p) + Far(Retry, p)) + 1
    BY <2>4, <2>5
  <2> QED
    BY <1>0, <1>1, <2>2, <2>3, <2>6, BalanceFailed
<1>3. CASE c # Coordinator
  <2>1. /\ c \in Consumers /\ QueueOf(c) \in Queues
        /\ DOMAIN held = Consumers /\ DOMAIN stale = Consumers
    BY <1>3, Places DEF Services, IInv, HeldOK, StaleOK
  <2>2. /\ queue' = Requeued(c)
        /\ held' = IF held[c] = None THEN held ELSE [held EXCEPT ![c].live = FALSE]
        /\ \E S \in SUBSET DOMAIN queue[QueueOf(c)] : \E b \in Prefetched(c, S) :
              stale' = [stale EXCEPT ![c] = b]
    BY <1>3 DEF Break, BagToSet
  <2>3. /\ \A k \in Queues : NatBag(queue'[k])
        /\ InQueues(p)' = InQueues(p) \/ InQueues(p)' = InQueues(p) + 1
    BY <2>1, <2>2, RequeuedCounts
  <2>4. PICK S \in SUBSET DOMAIN queue[QueueOf(c)] : \E b \in Prefetched(c, S) :
              stale' = [stale EXCEPT ![c] = b]
    BY <2>2
  <2>5. PICK b \in Prefetched(c, S) : stale' = [stale EXCEPT ![c] = b]
    BY <2>4
  <2>6. NatBag(b) /\ Copies(b, p) <= Copies(queue[QueueOf(c)], p)
    BY <2>1, PrefetchedFacts DEF CountOK
  <2>7. stale'[c] = b /\ \A d \in Consumers \ {c} : stale'[d] = stale[d]
    BY <2>1, <2>5
  <2>8. /\ \A d \in Consumers : held'[d] \in Messages \cup {None}
        /\ \A d \in Consumers \ {c} : held'[d] = held[d]
        /\ InHand(c, p)' = InHand(c, p)
    <3>1. CASE held[c] = None
      BY <2>2, <3>1 DEF CountOK, InHand
    <3>2. CASE held[c] # None
      <4>1. PICK m \in Messages : m = held[c]
        BY <2>1, <3>2 DEF CountOK
      <4>2. PICK n : n = [m EXCEPT !.live = FALSE]
        OBVIOUS
      <4>3. n \in Messages /\ n.stage = m.stage /\ n.req = m.req
        BY <4>2 DEF Messages
      <4>4. held'[c] = n /\ \A d \in Consumers \ {c} : held'[d] = held[d]
        BY <2>1, <2>2, <3>2, <4>1, <4>2
      <4>5. n # None
        BY <4>3, PipelineAssumption
      <4> QED
        BY <3>2, <4>1, <4>3, <4>4, <4>5 DEF CountOK, InHand
    <3> QED
      BY <3>1, <3>2
  <2>9. CountOK'
    BY <1>0, <1>1, <2>3, <2>6, <2>7, <2>8 DEF CountOK, SamePods
  <2>10. Others(c)
    BY <1>1, <2>7, <2>8 DEF Others
  <2>11. /\ InQueues(p) \in Nat /\ With(c, p) \in Nat /\ Far(c, p) \in Nat
         /\ With(c, p)' \in Nat /\ Far(c, p)' \in Nat
    BY <2>1, <2>9, Counts, CountsNext DEF Natural, Far
  <2>12. Near(c, p)' + Far(c, p)' <= 2 * (Near(c, p) + Far(c, p)) + 1
    <3>1. PICK a, w, f, d, g, k : /\ a = InQueues(p) /\ w = With(c, p) /\ f = Far(c, p)
                                  /\ d = InQueues(p)' /\ g = Far(c, p)'
                                  /\ k = Copies(queue[QueueOf(c)], p)
      OBVIOUS
    <3>2. With(c, p)' = w
      BY <1>1, <2>8, <3>1 DEF With
    <3>3. g <= k /\ k <= a
      <4>1. Far(c, p)' = Copies(b, p)
        BY <2>7 DEF Far
      <4>2. k <= a
        BY <2>1, <3>1, InQueuesAbove
      <4> QED
        BY <2>6, <3>1, <4>1, <4>2
    <3>4. k \in Nat /\ g \in Nat
      BY <2>1, <2>11, <3>1, CopiesFacts DEF CountOK
    <3>5. Near(c, p) = a + w /\ Near(c, p)' = d + w
      BY <3>1, <3>2 DEF Near
    <3>6. d <= a + 1 /\ a \in Nat /\ w \in Nat /\ f \in Nat /\ d \in Nat
      BY <2>3, <2>11, <3>1
    <3> QED
      BY <3>1, <3>3, <3>4, <3>5, <3>6
  <2> QED
    BY <1>0, <1>1, <2>1, <2>9, <2>10, <2>12, BalanceFailed
<1> QED
  BY <1>2, <1>3

-----------------------------------------------------------------------------
(* A step of the coordinator changes only what waits there and in a queue. *)
Waiting(p) == One(p \in workqueue) + One(p = syncing) + InQueues(p)

LEMMA CoordinatorBalance ==
    ASSUME CountOK, CountOK', UNCHANGED <<held, stale, tasks>>, NEW p \in Pods
    PROVE  /\ Waiting(p) \in Nat /\ Waiting(p)' \in Nat /\ New(p) \in Nat /\ New(p)' \in Nat
           /\ Outstanding(p) \in Nat /\ Outstanding(p)' \in Nat
           /\ Ahead(p) \in Nat /\ Ahead(p)' \in Nat
           /\ Outstanding(p)' - Outstanding(p) = Waiting(p)' - Waiting(p)
           /\ Outstanding(p)' >= Waiting(p)'
           /\ Ahead(p)' - Ahead(p) = (Waiting(p)' + New(p)') - (Waiting(p) + New(p))
<1>1. Natural /\ Natural'
  BY Counts, CountsNext
<1>2. /\ One(p \in workqueue) \in Nat /\ One(p \in workqueue)' \in Nat
      /\ One(p = syncing) \in Nat /\ One(p = syncing)' \in Nat
      /\ New(p) \in Nat /\ New(p)' \in Nat
  <2>1. New(p) \in Nat
    <3>1. told[p] \in Nat /\ api[p].uid \in Nat /\ told[p] <= api[p].uid
      BY DEF CountOK, Objects
    <3> QED
      BY <3>1 DEF New
  <2>2. New(p)' \in Nat
    <3>1. told'[p] \in Nat /\ api'[p].uid \in Nat /\ told'[p] <= api'[p].uid
      BY DEF CountOK, Objects
    <3> QED
      BY <3>1 DEF New
  <2> QED
    BY <2>1, <2>2 DEF One
<1>3. PICK a, b, q, c, o, t, u, h :
        /\ a = One(p \in workqueue) /\ b = One(p = syncing) /\ q = InQueues(p)
        /\ c = AtConsumers(p) /\ o = OldCopies(p) /\ t = New(p)
        /\ u = Outstanding(p) /\ h = Ahead(p)
  OBVIOUS
<1>4. PICK a1, b1, q1, t1, u1, h1 :
        /\ a1 = One(p \in workqueue)' /\ b1 = One(p = syncing)' /\ q1 = InQueues(p)'
        /\ t1 = New(p)' /\ u1 = Outstanding(p)' /\ h1 = Ahead(p)'
  OBVIOUS
<1>5. AtConsumers(p)' = c /\ OldCopies(p)' = o
  BY <1>3 DEF AtConsumers, OldCopies, With, InHand
<1>6. /\ a \in Nat /\ b \in Nat /\ q \in Nat /\ c \in Nat /\ o \in Nat /\ t \in Nat
      /\ u \in Nat /\ h \in Nat
      /\ u = a + b + q + c /\ h = u + o + t /\ Waiting(p) = a + b + q
  BY <1>1, <1>2, <1>3 DEF Natural, Ahead, Waiting
<1>7. /\ a1 \in Nat /\ b1 \in Nat /\ q1 \in Nat /\ t1 \in Nat /\ u1 \in Nat /\ h1 \in Nat
      /\ u1 = a1 + b1 + q1 + AtConsumers(p)' /\ h1 = u1 + OldCopies(p)' + t1
      /\ Waiting(p)' = a1 + b1 + q1
  BY <1>1, <1>2, <1>4 DEF Natural, Ahead, Waiting
<1>8. u1 = a1 + b1 + q1 + c /\ h1 = u1 + o + t1
  BY <1>5, <1>7
<1>9. /\ Waiting(p) \in Nat /\ Waiting(p)' \in Nat
      /\ u1 - u = Waiting(p)' - Waiting(p) /\ u1 >= Waiting(p)'
      /\ h1 - h = (Waiting(p)' + t1) - (Waiting(p) + t)
  <2>1. PICK w, w1 : w = Waiting(p) /\ w1 = Waiting(p)'
    OBVIOUS
  <2>2. w = a + b + q /\ w1 = a1 + b1 + q1
    BY <1>6, <1>7, <2>1
  <2>3. w \in Nat /\ w1 \in Nat
    BY <1>6, <1>7, <2>2
  <2>4. u = w + c /\ u1 = w1 + c
    BY <1>6, <1>8, <2>2
  <2>5. u1 - u = w1 - w /\ u1 >= w1
    BY <1>6, <2>3, <2>4
  <2>6. h = w + c + o + t /\ h1 = w1 + c + o + t1
    BY <1>6, <1>8, <2>4
  <2>7. h1 - h = (w1 + t1) - (w + t)
    BY <1>6, <1>7, <2>3, <2>6
  <2> QED
    BY <2>1, <2>3, <2>5, <2>7, Zenon
<1>10. /\ Outstanding(p) \in Nat /\ Outstanding(p)' \in Nat
       /\ Ahead(p) \in Nat /\ Ahead(p)' \in Nat
  BY <1>1 DEF Natural
<1>11. /\ Outstanding(p)' - Outstanding(p) = Waiting(p)' - Waiting(p)
       /\ Outstanding(p)' >= Waiting(p)'
       /\ Ahead(p)' - Ahead(p) = (Waiting(p)' + New(p)') - (Waiting(p) + New(p))
  BY <1>3, <1>4, <1>9, Zenon
<1> QED
  BY <1>2, <1>9, <1>10, <1>11, Zenon

LEMMA CoordinatorKept ==
    ASSUME CountOK, CountOK', UNCHANGED <<held, stale, tasks, faults>>, NEW p \in Pods,
           NEW k \in {0, 1}, api'[p].uid = api[p].uid + k,
           Waiting(p)' + New(p)' <= Waiting(p) + New(p) + k
    PROVE  Kept(p)
<1>1. PICK w, w1, t, t1, h, h1 :
        /\ w = Waiting(p) /\ w1 = Waiting(p)' /\ t = New(p) /\ t1 = New(p)'
        /\ h = Ahead(p) /\ h1 = Ahead(p)'
  OBVIOUS
<1>2. UNCHANGED <<held, stale, tasks>>
  OBVIOUS
<1>3. /\ w \in Nat /\ w1 \in Nat /\ t \in Nat /\ t1 \in Nat /\ h \in Nat /\ h1 \in Nat
      /\ h1 - h = (w1 + t1) - (w + t)
  BY <1>1, <1>2, CoordinatorBalance
<1>4. w1 + t1 <= w + t + k
  BY <1>1
<1>5. h1 <= h + k
  BY <1>3, <1>4
<1>6. api[p].uid \in Nat
  BY DEF CountOK, Objects
<1> QED
  BY <1>1, <1>3, <1>5, <1>6 DEF Kept

LEMMA CoordinatorCounts ==
    ASSUME IInv, CountOK, CoordinatorStep, NEW p \in Pods
    PROVE  CountOK' /\ Kept(p)
<1>0. InQueues(p) \in Nat /\ p # None /\ New(p) \in Nat
  <2>1. told[p] \in Nat /\ api[p].uid \in Nat /\ told[p] <= api[p].uid
    BY DEF CountOK, Objects
  <2> QED
    BY <2>1, Counts, PipelineAssumption DEF Natural, New
<1>4. ASSUME CountOK', UNCHANGED <<api, held, stale, tasks, faults>>,
             Waiting(p)' + New(p)' <= Waiting(p) + New(p)
      PROVE  Kept(p)
  <2>1. Waiting(p) \in Nat
    BY <1>0 DEF Waiting, One
  <2>2. api'[p].uid = api[p].uid + 0
    BY <1>4 DEF CountOK, Objects
  <2>3. Waiting(p)' + New(p)' <= Waiting(p) + New(p) + 0
    BY <1>0, <1>4, <2>1
  <2> QED
    BY <1>4, <2>2, <2>3, CoordinatorKept
<1>1. ASSUME NEW x \in Pods, AddFunc(x) PROVE CountOK' /\ Kept(p)
  <2>1. /\ UNCHANGED <<api, syncing, queue, held, stale, tasks, faults>>
        /\ told' = [told EXCEPT ![x] = @ + 1] /\ told[x] < api[x].uid
        /\ workqueue' = workqueue \cup {x} \/ workqueue' = workqueue
    BY <1>1 DEF AddFunc, broker, consumers
  <2>2. CountOK'
    <3>1. ASSUME NEW y \in Pods PROVE told'[y] \in Nat /\ told'[y] <= api'[y].uid
      <4>1. told[y] \in Nat /\ api[y].uid \in Nat /\ told[y] <= api[y].uid
        BY DEF CountOK, Objects
      <4>2. told'[y] = IF y = x THEN told[y] + 1 ELSE told[y]
        BY <2>1 DEF CountOK
      <4> QED
        BY <2>1, <4>1, <4>2
    <3>2. told' \in [Pods -> Nat]
      BY <2>1, <3>1 DEF CountOK
    <3> QED
      BY <2>1, <3>1, <3>2 DEF CountOK
  <2>3. InQueues(p)' = InQueues(p)
    BY <2>1 DEF InQueues
  <2>4. CASE x # p
    <3>1. (p \in workqueue') = (p \in workqueue) /\ told'[p] = told[p]
      BY <2>1, <2>4 DEF CountOK
    <3>2. Waiting(p)' = Waiting(p) /\ New(p)' = New(p)
      BY <2>1, <2>3, <3>1 DEF Waiting, New
    <3>3. Waiting(p) \in Nat
      BY <1>0 DEF Waiting, One
    <3>4. Waiting(p)' + New(p)' <= Waiting(p) + New(p)
      BY <1>0, <3>2, <3>3
    <3> QED
      BY <1>4, <2>1, <2>2, <3>4
  <2>5. CASE x = p
    <3>1. New(p)' = New(p) - 1
      <4>1. told[p] \in Nat /\ api[p].uid \in Nat /\ told'[p] = told[p] + 1
        BY <2>1, <2>5 DEF CountOK, Objects
      <4> QED
        BY <2>1, <4>1 DEF New
    <3>2. PICK a, a1, b, q : /\ a = One(p \in workqueue) /\ a1 = One(p \in workqueue)'
                             /\ b = One(p = syncing) /\ q = InQueues(p)
      OBVIOUS
    <3>3. a \in {0, 1} /\ a1 \in {0, 1} /\ b \in {0, 1} /\ q \in Nat /\ (a1 = 0 => a = 0)
      BY <1>0, <2>1, <3>2 DEF One
    <3>4. Waiting(p) = a + b + q /\ Waiting(p)' = a1 + b + q
      BY <2>1, <2>3, <3>2 DEF Waiting
    <3>5. Waiting(p)' + New(p)' <= Waiting(p) + New(p)
      BY <1>0, <3>1, <3>3, <3>4
    <3> QED
      BY <1>4, <2>1, <2>2, <3>5
  <2> QED
    BY <2>4, <2>5
<1>2. ASSUME NEW x \in Pods, ProcessNextItem(x) PROVE CountOK' /\ Kept(p)
  <2>1. UNCHANGED <<api, told, queue, held, stale, tasks, faults>>
    BY <1>2 DEF ProcessNextItem, broker, consumers
  <2>2. CountOK'
    BY <2>1 DEF CountOK
  <2>3. One(p \in workqueue) + One(p = syncing) = One(p \in workqueue)' + One(p = syncing)'
    BY <1>0, <1>2 DEF ProcessNextItem, One
  <2>4. Waiting(p)' = Waiting(p) /\ New(p)' = New(p) /\ Waiting(p) \in Nat /\ New(p) \in Nat
    <3>1. InQueues(p)' = InQueues(p)
      BY <2>1 DEF InQueues
    <3>2. Waiting(p)' = Waiting(p)
      BY <2>3, <3>1 DEF Waiting
    <3> QED
      BY <1>0, <2>1, <3>2 DEF Waiting, New, One
  <2>5. Waiting(p)' + New(p)' <= Waiting(p) + New(p)
    BY <2>4
  <2> QED
    BY <1>4, <2>1, <2>2, <2>5
<1>3. CASE ObjectSync
  <2>1. /\ syncing \in Pods /\ syncing' = None
        /\ UNCHANGED <<api, told, workqueue, held, stale, tasks, faults>>
    BY <1>3 DEF ObjectSync, consumers, IInv, WorkOK
  <2>2. PICK a, b, q : a = One(p \in workqueue) /\ b = One(p = syncing) /\ q = InQueues(p)
    OBVIOUS
  <2>3. /\ a \in {0, 1} /\ b \in {0, 1} /\ q \in Nat /\ Waiting(p) = a + b + q
        /\ New(p)' = New(p)
    BY <1>0, <2>1, <2>2 DEF One, Waiting, New
  <2>4. One(p \in workqueue)' = a /\ One(p = syncing)' = 0
    BY <1>0, <2>1, <2>2 DEF One
  <2>5. CASE UNCHANGED queue
    <3>1. CountOK'
      BY <2>1, <2>5 DEF CountOK
    <3>2. InQueues(p)' = q
      BY <2>2, <2>5 DEF InQueues
    <3>3. Waiting(p)' = a + 0 + q
      BY <2>4, <3>2 DEF Waiting
    <3>4. Waiting(p)' + New(p)' <= Waiting(p) + New(p)
      BY <1>0, <2>3, <3>3
    <3> QED
      BY <1>4, <2>1, <3>1, <3>4
  <2>6. CASE queue' = [queue EXCEPT ![Wanted[syncing]] = BagAdd(@, Request(syncing, 2))]
    <3>1. PICK r : r = Request(syncing, 2)
      OBVIOUS
    <3>2. r \in Held(Wanted[syncing]) /\ Wanted[syncing] \in Queues /\ r.pod = syncing
      BY <2>1, <3>1, PipelineAssumption, Places DEF Request, OfKind, Requests
    <3>3. /\ \A k \in Queues : NatBag(queue'[k])
          /\ InQueues(p)' = q + One(r.pod = p)
      BY <2>2, <2>6, <3>1, <3>2, QueueAddCounts
    <3>4. CountOK'
      BY <2>1, <3>3 DEF CountOK
    <3>5. One(r.pod = p) = b
      BY <2>2, <3>2 DEF One
    <3>6. Waiting(p)' = a + 0 + (q + b)
      BY <2>4, <3>3, <3>5 DEF Waiting
    <3>7. Waiting(p)' + New(p)' <= Waiting(p) + New(p)
      BY <1>0, <2>3, <3>6
    <3> QED
      BY <1>4, <2>1, <3>4, <3>7
  <2> QED
    BY <1>3, <2>5, <2>6 DEF ObjectSync
<1> QED
  BY <1>1, <1>2, <1>3 DEF CoordinatorStep

LEMMA CrashCoordinatorCounts ==
    ASSUME IInv, CountOK, CrashCoordinator, NEW p \in Pods
    PROVE  CountOK' /\ Failed(p)
<1>1. /\ UNCHANGED <<api, queue, held, stale, tasks>> /\ faults' = faults + 1
      /\ told' = [x \in Pods |-> IF api[x].phase = "gone" THEN api[x].uid ELSE api[x].uid - 1]
      /\ workqueue' = {} /\ syncing' = None
  BY DEF CrashCoordinator, Fault, consumers
<1>10. ASSUME NEW x \in Pods
       PROVE  told'[x] \in Nat /\ api'[x].uid - told'[x] \in {0, 1}
  <2>1. api[x].uid \in Nat /\ (api[x].phase # "gone" => api[x].uid > 0)
    BY DEF CountOK, Objects
  <2> QED
    BY <1>1, <2>1
<1>2. CountOK'
  <2>1. \A x \in Pods : told'[x] \in Nat /\ told'[x] <= api'[x].uid
    <3>1. ASSUME NEW x \in Pods PROVE told'[x] <= api'[x].uid
      <4>1. api'[x].uid \in Nat
        BY <1>1 DEF CountOK, Objects
      <4> QED
        BY <1>10, <4>1
    <3> QED
      BY <1>10, <3>1
  <2>2. told' \in [Pods -> Nat]
    BY <1>1, <2>1
  <2> QED
    BY <1>1, <2>1, <2>2 DEF CountOK
<1>3. InQueues(p) \in Nat /\ p # None
  BY Counts, PipelineAssumption DEF Natural
<1>4. PICK a, b, q : a = One(p \in workqueue) /\ b = One(p = syncing) /\ q = InQueues(p)
  OBVIOUS
<1>5. Waiting(p) = a + b + q /\ a \in Nat /\ b \in Nat /\ q \in Nat
  BY <1>3, <1>4 DEF Waiting, One
<1>6. Waiting(p)' = 0 + 0 + q
  <2>1. InQueues(p)' = q
    BY <1>1, <1>4 DEF InQueues
  <2>2. One(p \in workqueue)' = 0 /\ One(p = syncing)' = 0
    BY <1>1, <1>3 DEF One
  <2> QED
    BY <2>1, <2>2 DEF Waiting
<1>7. PICK w, w1, t, t1, h, h1 : /\ w = Waiting(p) /\ w1 = Waiting(p)' /\ t = New(p)
                                 /\ t1 = New(p)' /\ h = Ahead(p) /\ h1 = Ahead(p)'
  OBVIOUS
<1>8. /\ w \in Nat /\ w1 \in Nat /\ t \in Nat /\ t1 \in {0, 1} /\ h \in Nat /\ h1 \in Nat
      /\ h1 - h = (w1 + t1) - (w + t)
  BY <1>1, <1>2, <1>7, <1>10, CoordinatorBalance DEF New
<1>9. w1 <= w
  BY <1>5, <1>6, <1>7
<1>11. h1 <= 2 * h + 1
  BY <1>8, <1>9
<1> QED
  BY <1>1, <1>2, <1>7, <1>11 DEF Failed

(* Users, and a connection that is made again, change none of the counts.  *)
LEMMA UserCounts ==
    ASSUME IInv, CountOK, NEW p \in Pods, UNCHANGED <<coordinator, queue, consumers, faults>>,
           SamePods
    PROVE  CountOK' /\ Kept(p)
<1>1. UNCHANGED <<told, workqueue, syncing, held, stale, tasks>>
  BY DEF coordinator, consumers
<1>2. CountOK'
  BY <1>1, ToldOK DEF CountOK, SamePods
<1>3. Waiting(p)' = Waiting(p) /\ New(p)' = New(p)
  BY <1>1 DEF Waiting, New, InQueues, SamePods
<1>4. Waiting(p) \in Nat /\ New(p) \in Nat
  BY <1>1, <1>2, CoordinatorBalance
<1>5. Waiting(p)' + New(p)' <= Waiting(p) + New(p) + 0
  BY <1>3, <1>4
<1>6. api'[p].uid = api[p].uid + 0
  BY DEF SamePods, CountOK, Objects
<1> QED
  BY <1>1, <1>2, <1>5, <1>6, CoordinatorKept

(* A pod that is created is one more to be made a request for, unless the  *)
(* coordinator does not notice.                                            *)
LEMMA CreateCounts ==
    ASSUME IInv, CountOK, NEW x \in Pods, CreatePod(x), NEW p \in Pods
    PROVE  CountOK' /\ (Kept(p) \/ Failed(p))
<1>1. UNCHANGED <<workqueue, syncing, queue, held, stale, tasks>>
  BY DEF CreatePod, broker, consumers
<1>2. PICK n : n = [phase |-> "pending", exceeded |-> FALSE, uid |-> api[x].uid + 1]
  OBVIOUS
<1>3. /\ api[x].uid \in Nat /\ n \in Objects /\ n.uid = api[x].uid + 1
      /\ api' = [api EXCEPT ![x] = n]
  BY <1>2 DEF CreatePod, CountOK, Objects
<1>4. /\ api' \in [Pods -> Objects] /\ api'[x].uid = api[x].uid + 1
      /\ \A y \in Pods \ {x} : api'[y] = api[y]
  BY <1>3 DEF CountOK
<1>5. \/ UNCHANGED <<told, faults>>
      \/ /\ faults' = faults + 1 /\ told[x] = api[x].uid
         /\ told' = [told EXCEPT ![x] = @ + 1]
  BY DEF CreatePod, Fault
<1>6. CountOK'
  <2>1. ASSUME NEW y \in Pods
        PROVE  /\ told'[y] \in Nat /\ told'[y] <= api'[y].uid
               /\ api'[y].phase # "gone" => api'[y].uid > 0
    <3>1. told[y] \in Nat /\ api[y].uid \in Nat /\ told[y] <= api[y].uid
      BY DEF CountOK, Objects
    <3>2. CASE y = x
      <4>1. told'[x] = told[x] \/ (told'[x] = told[x] + 1 /\ told[x] = api[x].uid)
        BY <1>5 DEF CountOK
      <4> QED
        BY <1>4, <3>1, <3>2, <4>1
    <3>3. CASE y # x
      <4>1. told'[y] = told[y] /\ api'[y] = api[y]
        BY <1>4, <1>5, <3>3 DEF CountOK
      <4> QED
        BY <3>1, <4>1 DEF CountOK
    <3> QED
      BY <3>2, <3>3
  <2>2. told' \in [Pods -> Nat] /\ faults' \in Nat
    BY <1>5, <2>1 DEF CountOK
  <2> QED
    BY <1>1, <1>4, <2>1, <2>2 DEF CountOK
<1>7. Waiting(p)' = Waiting(p)
  BY <1>1 DEF Waiting, InQueues
<1>8. PICK w, t, t1, h, h1 : /\ w = Waiting(p) /\ t = New(p) /\ t1 = New(p)'
                             /\ h = Ahead(p) /\ h1 = Ahead(p)'
  OBVIOUS
<1>9. /\ w \in Nat /\ t \in Nat /\ t1 \in Nat /\ h \in Nat /\ h1 \in Nat
      /\ h1 - h = (w + t1) - (w + t)
  BY <1>1, <1>6, <1>7, <1>8, CoordinatorBalance
<1>10. told[p] \in Nat /\ api[p].uid \in Nat /\ t = api[p].uid - told[p]
       /\ t1 = api'[p].uid - told'[p]
  BY <1>8 DEF CountOK, Objects, New
<1>11. CASE UNCHANGED <<told, faults>>
  <2>1. CASE p = x
    <3>1. h1 = h + 1
      BY <1>4, <1>9, <1>10, <1>11, <2>1
    <3> QED
      BY <1>4, <1>6, <1>8, <1>9, <1>11, <2>1, <3>1 DEF Kept
  <2>2. CASE p # x
    <3>1. h1 = h
      BY <1>4, <1>9, <1>10, <1>11, <2>2
    <3> QED
      BY <1>4, <1>6, <1>8, <1>9, <1>11, <2>2, <3>1 DEF Kept
  <2> QED
    BY <2>1, <2>2
<1>12. CASE faults' = faults + 1 /\ told' = [told EXCEPT ![x] = @ + 1]
  <2>1. t1 = t
    <3>1. CASE p = x
      BY <1>4, <1>10, <1>12, <3>1 DEF CountOK
    <3>2. CASE p # x
      BY <1>4, <1>10, <1>12, <3>2 DEF CountOK
    <3> QED
      BY <3>1, <3>2
  <2>2. h1 <= 2 * h + 1
    BY <1>9, <2>1
  <2>3. api'[p].uid \in {api[p].uid, api[p].uid + 1}
    BY <1>4
  <2> QED
    BY <1>6, <1>8, <1>12, <2>2, <2>3 DEF Failed
<1> QED
  BY <1>5, <1>11, <1>12

-----------------------------------------------------------------------------
(* A step of a consumer, by what it adds to or takes from each count: the  *)
(* queues, the message in hand, the goroutines, the stale copies.          *)
Changes(c, p, di, dh, dg, df) ==
    /\ InQueues(p)' = InQueues(p) + di
    /\ One(InHand(c, p))' = One(InHand(c, p)) + dh
    /\ Goroutines(tasks[c], p)' = Goroutines(tasks[c], p) + dg
    /\ Far(c, p)' = Far(c, p) + df

LEMMA ChangesBalance ==
    ASSUME CountOK, NEW c \in Consumers, NEW p \in Pods,
           NEW di \in Int, NEW dh \in Int, NEW dg \in Int, NEW df \in Int,
           Changes(c, p, di, dh, dg, df)
    PROVE  /\ Near(c, p) \in Nat /\ Far(c, p) \in Nat
           /\ Near(c, p)' = Near(c, p) + (di + dh + dg) /\ Far(c, p)' = Far(c, p) + df
<1>1. PICK i, h, g, f : /\ i = InQueues(p) /\ h = One(InHand(c, p))
                        /\ g = Goroutines(tasks[c], p) /\ f = Far(c, p)
  OBVIOUS
<1>2. i \in Nat /\ h \in Nat /\ g \in Nat /\ f \in Nat
  <2>1. InQueues(p) \in Nat /\ Far(c, p) \in Nat
    BY Counts DEF Natural, Far
  <2>2. One(InHand(c, p)) \in Nat
    BY DEF One
  <2>3. Goroutines(tasks[c], p) \in Nat
    BY GoroutinesFacts DEF CountOK
  <2> QED
    BY <1>1, <2>1, <2>2, <2>3
<1>3. Near(c, p) = i + (h + g)
  BY <1>1 DEF Near, With
<1>4. Near(c, p)' = (i + di) + ((h + dh) + (g + dg))
  BY <1>1 DEF Near, With, Changes
<1>5. Far(c, p)' = f + df
  BY <1>1 DEF Changes
<1>6. (i + di) + ((h + dh) + (g + dg)) = (i + (h + g)) + (di + dh + dg) /\ i + (h + g) \in Nat
  BY <1>2
<1> QED
  BY <1>1, <1>2, <1>3, <1>4, <1>5, <1>6

LEMMA ChangesKept ==
    ASSUME CountOK, CountOK', NEW c \in Consumers, NEW p \in Pods, Others(c),
           UNCHANGED <<coordinator, faults>>, SamePods,
           NEW di \in Int, NEW dh \in Int, NEW dg \in Int, NEW df \in Int,
           Changes(c, p, di, dh, dg, df), di + dh + dg + df <= 0
    PROVE  Kept(p)
<1>1. PICK n, f : n = Near(c, p) /\ f = Far(c, p)
  OBVIOUS
<1>2. n \in Nat /\ f \in Nat /\ Near(c, p)' = n + (di + dh + dg) /\ Far(c, p)' = f + df
  BY <1>1, ChangesBalance
<1>3. (n + (di + dh + dg)) + (f + df) <= n + f
  BY <1>2
<1>4. Near(c, p)' + Far(c, p)' <= Near(c, p) + Far(c, p)
  BY <1>1, <1>2, <1>3
<1> QED
  BY <1>4, BalanceKept

LEMMA ChangesFailed ==
    ASSUME CountOK, CountOK', NEW c \in Consumers, NEW p \in Pods, Others(c),
           UNCHANGED coordinator, faults' = faults + 1, SamePods,
           NEW di \in Int, NEW dh \in Int, NEW dg \in Int, NEW df \in Int,
           Changes(c, p, di, dh, dg, df), di + dh + dg + df <= 0
    PROVE  Failed(p)
<1>1. PICK n, f : n = Near(c, p) /\ f = Far(c, p)
  OBVIOUS
<1>2. n \in Nat /\ f \in Nat /\ Near(c, p)' = n + (di + dh + dg) /\ Far(c, p)' = f + df
  BY <1>1, ChangesBalance
<1>3. (n + (di + dh + dg)) + (f + df) <= 2 * (n + f) + 1
  BY <1>2
<1>4. Near(c, p)' + Far(c, p)' <= 2 * (Near(c, p) + Far(c, p)) + 1
  BY <1>1, <1>2, <1>3
<1> QED
  BY <1>4, BalanceFailed

(* Nothing changes where nothing is touched.                               *)
LEMMA NoChange ==
    ASSUME CountOK, NEW c \in Consumers, NEW p \in Pods
    PROVE  /\ UNCHANGED queue => InQueues(p)' = InQueues(p) + 0
           /\ held'[c] = held[c] => One(InHand(c, p))' = One(InHand(c, p)) + 0
           /\ tasks'[c] = tasks[c] => Goroutines(tasks[c], p)' = Goroutines(tasks[c], p) + 0
           /\ stale'[c] = stale[c] => Far(c, p)' = Far(c, p) + 0
<1>1. InQueues(p) \in Nat /\ Far(c, p) \in Nat
  BY Counts DEF Natural, Far
<1>2. One(InHand(c, p)) \in Nat
  BY DEF One
<1>3. Goroutines(tasks[c], p) \in Nat
  BY GoroutinesFacts DEF CountOK
<1>4. UNCHANGED queue => InQueues(p)' = InQueues(p)
  BY DEF InQueues
<1>5. held'[c] = held[c] => One(InHand(c, p))' = One(InHand(c, p))
  BY DEF InHand, One
<1>6. tasks'[c] = tasks[c] => Goroutines(tasks[c], p)' = Goroutines(tasks[c], p)
  OBVIOUS
<1>7. stale'[c] = stale[c] => Far(c, p)' = Far(c, p)
  BY DEF Far
<1> QED
  BY <1>1, <1>2, <1>3, <1>4, <1>5, <1>6, <1>7

LEMMA ScheduleProcessCounts ==
    ASSUME IInv, CountOK, NEW s \in Schedulers, NEW r, ScheduleProcess(s, r), NEW p \in Pods
    PROVE  CountOK' /\ (Kept(p) \/ Failed(p))
<1>0. /\ s \in Consumers /\ UNCHANGED <<api, coordinator, tasks>> /\ SamePods
      /\ told' \in [Pods -> Nat]
      /\ \A x \in Pods : told'[x] <= api'[x].uid /\ (api'[x].phase # "gone" => api'[x].uid > 0)
  BY Places, ApiUnchanged, ToldOK DEF ScheduleProcess
<1>1. PICK stage \in {"schedule", "ack"}, obj \in Objects \cup {None} :
         /\ Take(s, r, stage, obj)
         /\ UNCHANGED faults \/ faults' = faults + 1
  <2>1. CASE /\ api[r.pod].phase # "gone" /\ Take(s, r, "schedule", api[r.pod])
             /\ UNCHANGED faults
    <3>1. r \in Accepts(s)
      BY <1>0, <2>1, Taken DEF IInv
    <3>2. r.pod \in Pods
      BY <1>0, <3>1, Places, Names DEF Accepts
    <3>3. api[r.pod] \in Objects
      BY <3>2 DEF CountOK
    <3> QED
      BY <2>1, <3>3
  <2>2. CASE api[r.pod].phase = "gone" /\ Take(s, r, "ack", None) /\ UNCHANGED faults
    BY <2>2
  <2>3. CASE Take(s, r, "ack", None) /\ Fault
    BY <2>3 DEF Fault
  <2> QED
    BY <2>1, <2>2, <2>3 DEF ScheduleProcess
<1>2. PICK k : k = One(r.pod = p)
  OBVIOUS
<1>3. k \in {0, 1} /\ (r.pod # p => k = 0)
  BY <1>2 DEF One
<1>4. /\ \A q \in Queues : NatBag(queue'[q])
      /\ \A d \in Consumers : NatBag(stale'[d]) /\ held'[d] \in Messages \cup {None}
      /\ \A d \in Consumers \ {s} : held'[d] = held[d] /\ stale'[d] = stale[d]
      /\ ~InHand(s, p) /\ InHand(s, p)' = (stage # "ack" /\ r.pod = p)
      /\ \/ InQueues(p)' = InQueues(p) - k /\ Far(s, p)' = Far(s, p)
         \/ InQueues(p)' = InQueues(p) /\ Far(s, p)' = Far(s, p) - k
  BY <1>0, <1>1, <1>2, TakeCounts
<1>5. CountOK' /\ Others(s)
  <2>1. faults' \in Nat
    BY <1>1 DEF CountOK
  <2> QED
    BY <1>0, <1>4, <2>1 DEF CountOK, Others, SamePods
<1>6. InQueues(p) \in Nat /\ Far(s, p) \in Nat
  BY <1>0, Counts DEF Natural, Far
<1>7. PICK di \in {-1, 0}, df \in {-1, 0} :
        di + df = -k /\ InQueues(p)' = InQueues(p) + di /\ Far(s, p)' = Far(s, p) + df
  <2>1. CASE InQueues(p)' = InQueues(p) - k /\ Far(s, p)' = Far(s, p)
    <3>1. -k \in {-1, 0} /\ 0 \in {-1, 0} /\ -k + 0 = -k
      BY <1>3
    <3>2. InQueues(p)' = InQueues(p) + (-k) /\ Far(s, p)' = Far(s, p) + 0
      BY <1>3, <1>6, <2>1
    <3> QED
      BY <3>1, <3>2
  <2>2. CASE InQueues(p)' = InQueues(p) /\ Far(s, p)' = Far(s, p) - k
    <3>1. -k \in {-1, 0} /\ 0 \in {-1, 0} /\ 0 + (-k) = -k
      BY <1>3
    <3>2. InQueues(p)' = InQueues(p) + 0 /\ Far(s, p)' = Far(s, p) + (-k)
      BY <1>3, <1>6, <2>2
    <3> QED
      BY <3>1, <3>2
  <2> QED
    BY <1>4, <2>1, <2>2
<1>8. PICK dh \in {0, 1} : /\ dh = IF stage # "ack" THEN k ELSE 0
                           /\ One(InHand(s, p))' = One(InHand(s, p)) + dh
  <2>1. One(InHand(s, p)) = 0
    BY <1>4 DEF One
  <2>2. One(InHand(s, p))' = IF stage # "ack" THEN k ELSE 0
    BY <1>2, <1>4 DEF One
  <2> QED
    BY <1>3, <2>1, <2>2
<1>9. Changes(s, p, di, dh, 0, df)
  BY <1>0, <1>7, <1>8, NoChange DEF Changes
<1>10. di + dh + 0 + df <= 0
  BY <1>3, <1>7, <1>8
<1>11. CASE faults' = faults + 1
  BY <1>0, <1>5, <1>9, <1>10, <1>11, ChangesFailed
<1>12. CASE UNCHANGED faults
  BY <1>0, <1>5, <1>9, <1>10, <1>12, ChangesKept
<1> QED
  BY <1>1, <1>11, <1>12

(* A message whose work goes on in a goroutine.                            *)
LEMMA HandOverCounts ==
    ASSUME IInv, CountOK, NEW s \in Consumers, NEW t, held[s] # None, held[s].stage # "ack",
           t.req.pod = held[s].req.pod, Spawn(s, t), Move(s, "ack"),
           UNCHANGED <<api, coordinator, broker, stale, faults>>, NEW p \in Pods
    PROVE  CountOK' /\ Kept(p)
<1>1. /\ \A d \in Consumers : NatBag(tasks'[d])
      /\ \A d \in Consumers \ {s} : tasks'[d] = tasks[d]
      /\ Goroutines(tasks'[s], p) = Goroutines(tasks[s], p) + One(t.req.pod = p)
  BY SpawnCounts
<1>2. /\ \A d \in Consumers : held'[d] \in Messages \cup {None}
      /\ \A d \in Consumers \ {s} : held'[d] = held[d]
      /\ InHand(s, p)' = ("ack" # "ack" /\ held[s].req.pod = p)
  BY MoveCounts
<1>0. SamePods
  BY ApiUnchanged
<1>3. CountOK' /\ Others(s)
  BY <1>1, <1>2, ToldOK, <1>0 DEF CountOK, Others, broker, SamePods
<1>4. PICK k : k = One(t.req.pod = p)
  OBVIOUS
<1>5. k \in {0, 1}
  BY <1>4 DEF One
<1>6. One(InHand(s, p)) = k /\ One(InHand(s, p))' = 0
  BY <1>2, <1>4 DEF InHand, One
<1>7. Changes(s, p, 0, -k, k, 0)
  <2>1. One(InHand(s, p))' = One(InHand(s, p)) + (-k)
    BY <1>5, <1>6
  <2> QED
    BY <1>1, <1>4, <2>1, NoChange DEF Changes, broker
<1>8. 0 + (-k) + k + 0 <= 0 /\ -k \in Int /\ k \in Int
  BY <1>5
<1> QED
  BY <1>0, <1>3, <1>7, <1>8, ChangesKept

LEMMA ScheduleCounts ==
    ASSUME IInv, CountOK, NEW s \in Schedulers, ScheduleFails(s) \/ ScheduleFits(s),
           NEW p \in Pods
    PROVE  CountOK' /\ Kept(p)
<1>0. s \in Consumers
  BY Places
<1>1. /\ held[s] # None /\ held[s].stage = "schedule"
      /\ UNCHANGED <<api, coordinator, broker, stale, faults>> /\ SamePods
  BY ApiUnchanged DEF ScheduleFails, ScheduleFits, At
<1>2. ASSUME NEW t, t.req.pod = held[s].req.pod, Spawn(s, t), Move(s, "ack")
      PROVE  CountOK' /\ Kept(p)
  BY <1>0, <1>1, <1>2, HandOverCounts
<1>3. CASE ScheduleFails(s)
  <2>1. CASE GivesUp(s, held[s].req.backoff)
    <3>1. PICK t : t = Task("AddPodStatus", held[s].req, held[s].obj)
      OBVIOUS
    <3>2. t.req.pod = held[s].req.pod /\ Spawn(s, t) /\ Move(s, "ack")
      BY <1>3, <2>1, <3>1 DEF ScheduleFails, Task
    <3> QED
      BY <1>2, <3>2
  <2>2. CASE ~GivesUp(s, held[s].req.backoff)
    <3>1. PICK t : t = Task("SendToQueue",
                            Request(held[s].req.pod, Handed(s, held[s].req.backoff)), None)
      OBVIOUS
    <3>2. t.req.pod = held[s].req.pod /\ Spawn(s, t) /\ Move(s, "ack")
      BY <1>3, <2>2, <3>1 DEF ScheduleFails, Task, Request
    <3> QED
      BY <1>2, <3>2
  <2> QED
    BY <2>1, <2>2
<1>4. CASE Spawn(s, Task("bind", held[s].req, held[s].obj)) /\ Move(s, "ack")
  <2>1. PICK t : t = Task("bind", held[s].req, held[s].obj)
    OBVIOUS
  <2>2. t.req.pod = held[s].req.pod /\ Spawn(s, t)
    BY <1>4, <2>1 DEF Task
  <2> QED
    BY <1>2, <1>4, <2>2
<1>5. CASE Move(s, "bind") /\ UNCHANGED tasks
  <2>1. /\ \A d \in Consumers : held'[d] \in Messages \cup {None}
        /\ \A d \in Consumers \ {s} : held'[d] = held[d]
        /\ InHand(s, p)' = ("bind" # "ack" /\ held[s].req.pod = p)
    BY <1>0, <1>1, <1>5, MoveCounts
  <2>2. CountOK' /\ Others(s)
    BY <1>1, <1>5, <2>1, ToldOK DEF CountOK, Others, broker, SamePods
  <2>3. One(InHand(s, p))' = One(InHand(s, p)) + 0
    BY <1>1, <2>1 DEF InHand, One
  <2>4. Changes(s, p, 0, 0, 0, 0)
    BY <1>0, <1>1, <1>5, <2>3, NoChange DEF Changes, broker
  <2>5. 0 \in Int /\ 0 + 0 + 0 + 0 <= 0
    OBVIOUS
  <2> QED
    BY <1>0, <1>1, <2>2, <2>4, <2>5, ChangesKept
<1> QED
  BY <1>3, <1>4, <1>5 DEF ScheduleFits

LEMMA BindFacts ==
    ASSUME CountOK, NEW x \in Pods, NEW obj, Bind(x, obj)
    PROVE  SamePods /\ (faults' = faults \/ faults' = faults + 1)
<1>1. CASE /\ api[x].phase = "pending" /\ UNCHANGED faults
           /\ api' = [api EXCEPT ![x].phase = "bound"]
  <2>1. PICK o \in Objects : o = api[x]
    BY DEF CountOK
  <2>2. PICK n : n = [o EXCEPT !.phase = "bound"]
    OBVIOUS
  <2>3. n \in Objects /\ n.uid = o.uid
    BY <2>2 DEF Objects
  <2>4. api' = [api EXCEPT ![x] = n]
    BY <1>1, <2>1, <2>2
  <2>5. SamePods
    BY <1>1, <2>1, <2>3, <2>4 DEF CountOK, SamePods
  <2> QED
    BY <1>1, <2>5
<1>2. CASE UNCHANGED <<api, faults>>
  BY <1>2, ApiUnchanged
<1>3. CASE Fault /\ UNCHANGED api
  BY <1>3, ApiUnchanged DEF Fault
<1> QED
  BY <1>1, <1>2, <1>3 DEF Bind

LEMMA BindInLoopCounts ==
    ASSUME IInv, CountOK, NEW s \in Schedulers, BindInLoop(s), NEW p \in Pods
    PROVE  CountOK' /\ (Kept(p) \/ Failed(p))
<1>0. s \in Consumers
  BY Places
<1>1. /\ held[s] # None /\ held[s].stage = "bind" /\ Bind(held[s].req.pod, held[s].obj)
      /\ Move(s, "ack")
      /\ UNCHANGED <<coordinator, broker, stale, tasks>>
  BY DEF BindInLoop, At
<1>2. PICK x \in Pods : x = held[s].req.pod
  BY <1>0, <1>1, Places, Names DEF IInv, HeldOK, Accepts
<1>3. SamePods /\ (faults' = faults \/ faults' = faults + 1)
  BY <1>1, <1>2, BindFacts
<1>4. /\ \A d \in Consumers : held'[d] \in Messages \cup {None}
      /\ \A d \in Consumers \ {s} : held'[d] = held[d]
      /\ InHand(s, p)' = ("ack" # "ack" /\ held[s].req.pod = p)
  BY <1>0, <1>1, MoveCounts
<1>5. CountOK' /\ Others(s)
  <2>1. faults' \in Nat
    BY <1>3 DEF CountOK
  <2> QED
    BY <1>1, <1>3, <1>4, <2>1, ToldOK DEF CountOK, Others, broker, SamePods
<1>6. PICK k : k = One(InHand(s, p))
  OBVIOUS
<1>7. k \in {0, 1} /\ One(InHand(s, p))' = 0
  BY <1>4, <1>6 DEF One
<1>8. Changes(s, p, 0, -k, 0, 0)
  <2>1. One(InHand(s, p))' = One(InHand(s, p)) + (-k)
    BY <1>6, <1>7
  <2> QED
    BY <1>0, <1>1, <2>1, NoChange DEF Changes, broker
<1>9. 0 + (-k) + 0 + 0 <= 0 /\ -k \in Int /\ 0 \in Int
  BY <1>7
<1>10. CASE faults' = faults + 1
  BY <1>0, <1>1, <1>3, <1>5, <1>8, <1>9, <1>10, ChangesFailed
<1>11. CASE faults' = faults
  BY <1>0, <1>1, <1>3, <1>5, <1>8, <1>9, <1>11, ChangesKept
<1> QED
  BY <1>3, <1>10, <1>11

(* A goroutine that ends.                                                  *)
LEMMA ReturnKept ==
    ASSUME IInv, CountOK, NEW c \in Consumers, NEW t \in DOMAIN tasks[c], Return(c, t),
           UNCHANGED <<coordinator, broker, held, stale>>, SamePods,
           UNCHANGED faults \/ faults' = faults + 1, NEW p \in Pods
    PROVE  CountOK' /\ (Kept(p) \/ Failed(p))
<1>1. /\ \A d \in Consumers : NatBag(tasks'[d])
      /\ \A d \in Consumers \ {c} : tasks'[d] = tasks[d]
      /\ Goroutines(tasks[c], p) \in Nat
      /\ Goroutines(tasks'[c], p) = Goroutines(tasks[c], p) - One(t.req.pod = p)
  BY ReturnCounts
<1>2. CountOK' /\ Others(c)
  <2>1. faults' \in Nat
    BY DEF CountOK
  <2> QED
    BY <1>1, <2>1, ToldOK DEF CountOK, Others, broker, SamePods
<1>3. PICK k : k = One(t.req.pod = p)
  OBVIOUS
<1>4. k \in {0, 1}
  BY <1>3 DEF One
<1>5. Changes(c, p, 0, 0, -k, 0)
  <2>1. Goroutines(tasks[c], p)' = Goroutines(tasks[c], p) + (-k)
    BY <1>1, <1>3, <1>4
  <2> QED
    BY <2>1, NoChange DEF Changes, broker
<1>6. 0 + 0 + (-k) + 0 <= 0 /\ -k \in Int /\ 0 \in Int
  BY <1>4
<1>7. CASE faults' = faults + 1
  BY <1>2, <1>5, <1>6, <1>7, ChangesFailed
<1>8. CASE UNCHANGED faults
  BY <1>2, <1>5, <1>6, <1>8, ChangesKept
<1> QED
  BY <1>7, <1>8

(* A goroutine that sends its request.                                     *)
LEMMA SendCounts ==
    ASSUME IInv, CountOK, NEW c \in Consumers, NEW t \in DOMAIN tasks[c], Return(c, t),
           NEW q \in Queues, NEW r \in Held(q), r.pod = t.req.pod,
           queue' = [queue EXCEPT ![q] = BagAdd(@, r)],
           UNCHANGED <<api, coordinator, held, stale, faults>>, NEW p \in Pods
    PROVE  CountOK' /\ Kept(p)
<1>1. /\ \A d \in Consumers : NatBag(tasks'[d])
      /\ \A d \in Consumers \ {c} : tasks'[d] = tasks[d]
      /\ Goroutines(tasks[c], p) \in Nat
      /\ Goroutines(tasks'[c], p) = Goroutines(tasks[c], p) - One(t.req.pod = p)
  BY ReturnCounts
<1>2. /\ \A d \in Queues : NatBag(queue'[d])
      /\ InQueues(p)' = InQueues(p) + One(r.pod = p)
  BY QueueAddCounts
<1>0. SamePods
  BY ApiUnchanged
<1>3. CountOK' /\ Others(c)
  BY <1>0, <1>1, <1>2, ToldOK DEF CountOK, Others, SamePods
<1>4. PICK k : k = One(t.req.pod = p)
  OBVIOUS
<1>5. k \in {0, 1} /\ One(r.pod = p) = k
  BY <1>4 DEF One
<1>6. Changes(c, p, k, 0, -k, 0)
  <2>1. Goroutines(tasks[c], p)' = Goroutines(tasks[c], p) + (-k)
    BY <1>1, <1>4, <1>5
  <2> QED
    BY <1>2, <1>5, <2>1, NoChange DEF Changes
<1>7. k + 0 + (-k) + 0 <= 0 /\ -k \in Int /\ k \in Int /\ 0 \in Int
  BY <1>5
<1> QED
  BY <1>0, <1>3, <1>6, <1>7, ChangesKept

(* Acknowledging, and dropping stale copies, take away no request.         *)
LEMMA AckCounts ==
    ASSUME IInv, CountOK, NEW c \in Consumers, Ack(c) \/ DropStale(c), NEW p \in Pods
    PROVE  CountOK' /\ Kept(p)
<1>0. DOMAIN held = Consumers /\ DOMAIN stale = Consumers /\ SamePods
  BY ApiUnchanged DEF IInv, HeldOK, StaleOK, Ack, DropStale
<1>1. CASE Ack(c)
  <2>1. /\ UNCHANGED <<api, coordinator, queue, stale, tasks, faults>>
        /\ held[c].stage = "ack" /\ held'[c] = None
        /\ \A d \in Consumers \ {c} : held'[d] = held[d]
    BY <1>0, <1>1 DEF Ack, At, broker
  <2>2. CountOK' /\ Others(c)
    BY <1>0, <2>1, ToldOK DEF CountOK, Others, SamePods
  <2>3. One(InHand(c, p))' = One(InHand(c, p)) + 0
    BY <2>1 DEF InHand, One
  <2>4. Changes(c, p, 0, 0, 0, 0)
    BY <2>1, <2>3, NoChange DEF Changes
  <2>5. 0 \in Int /\ 0 + 0 + 0 + 0 <= 0
    OBVIOUS
  <2> QED
    BY <1>0, <2>1, <2>2, <2>4, <2>5, ChangesKept
<1>2. CASE DropStale(c)
  <2>1. /\ UNCHANGED <<api, coordinator, queue, held, tasks, faults>>
        /\ stale'[c] = EmptyBag /\ \A d \in Consumers \ {c} : stale'[d] = stale[d]
    BY <1>0, <1>2 DEF DropStale, broker
  <2>2. CountOK' /\ Others(c)
    BY <1>0, <2>1, ToldOK, EmptyFacts DEF CountOK, Others, SamePods
  <2>3. PICK f : f = Far(c, p)
    OBVIOUS
  <2>4. f \in Nat
    BY <2>3, Counts DEF Natural, Far
  <2>5. Far(c, p)' = 0
    BY <2>1, EmptyFacts DEF Far
  <2>6. Changes(c, p, 0, 0, 0, -f)
    <3>1. Far(c, p)' = Far(c, p) + (-f)
      BY <2>3, <2>4, <2>5
    <3> QED
      BY <2>1, <3>1, NoChange DEF Changes
  <2>7. 0 \in Int /\ -f \in Int /\ 0 + 0 + 0 + (-f) <= 0
    BY <2>4
  <2> QED
    BY <1>0, <2>1, <2>2, <2>6, <2>7, ChangesKept
<1> QED
  BY <1>1, <1>2

(* A scheduler's report.                                                   *)
LEMMA AddPodStatusCounts ==
    ASSUME IInv, CountOK, NEW s \in Schedulers, NEW t \in DOMAIN tasks[s], AddPodStatus(s, t),
           NEW p \in Pods
    PROVE  CountOK' /\ (Kept(p) \/ Failed(p))
<1>0. s \in Consumers /\ UNCHANGED coordinator
  BY Places DEF AddPodStatus
<1>1. t.req.pod \in Pods
  BY <1>0, Places, Names DEF IInv, TasksOK, TaskOK, Accepts
<1>2. PICK x \in Pods : x = t.req.pod
  BY <1>1
<1>3. CASE /\ api' = [api EXCEPT ![x].exceeded = TRUE] /\ Return(s, t)
           /\ UNCHANGED <<broker, held, stale, faults>>
  <2>1. PICK o \in Objects : o = api[x]
    BY DEF CountOK
  <2>2. PICK n : n = [o EXCEPT !.exceeded = TRUE]
    OBVIOUS
  <2>3. n \in Objects /\ n.uid = o.uid /\ n.phase = o.phase
    BY <2>2 DEF Objects
  <2>4. api' = [api EXCEPT ![x] = n]
    BY <1>3, <2>1, <2>2
  <2>5. SamePods
    BY <2>1, <2>3, <2>4 DEF CountOK, SamePods
  <2> QED
    BY <1>0, <1>3, <2>5, ReturnKept
<1>4. CASE Stop(s) /\ faults' = faults + 1 /\ UNCHANGED api
  BY <1>0, <1>4, ApiUnchanged, StopCounts
<1> QED
  BY <1>2, <1>3, <1>4 DEF AddPodStatus

LEMMA SchedulerCounts ==
    ASSUME IInv, CountOK, NEW s \in Schedulers, SchedulerStep(s), NEW p \in Pods
    PROVE  CountOK' /\ (Kept(p) \/ Failed(p))
<1>0. s \in Consumers
  BY Places
<1>1. ASSUME NEW t \in DOMAIN tasks[s], SendToQueue(s, t) PROVE CountOK' /\ Kept(p)
  <2>1. /\ queue' = [queue EXCEPT !["retry"] = BagAdd(@, t.req)] /\ Return(s, t)
        /\ UNCHANGED <<api, coordinator, held, stale, faults>>
    BY <1>1 DEF SendToQueue
  <2>2. t.req \in Held("retry") /\ "retry" \in Queues
    BY <1>0, <1>1, Places DEF SendToQueue, Running, IInv, TasksOK, TaskOK, Queues
  <2>3. PICK r \in Held("retry") : r = t.req
    BY <2>2
  <2> QED
    BY <1>0, <2>1, <2>2, <2>3, SendCounts
<1>2. ASSUME NEW t \in DOMAIN tasks[s], BindTask(s, t) PROVE CountOK' /\ (Kept(p) \/ Failed(p))
  <2>1. /\ Bind(t.req.pod, t.obj) /\ Return(s, t)
        /\ UNCHANGED <<coordinator, broker, held, stale>>
    BY <1>2 DEF BindTask
  <2>2. t.req.pod \in Pods
    BY <1>0, Places, Names DEF IInv, TasksOK, TaskOK, Accepts
  <2>3. SamePods /\ (faults' = faults \/ faults' = faults + 1)
    BY <2>1, <2>2, BindFacts
  <2> QED
    BY <1>0, <2>1, <2>3, ReturnKept
<1> QED
  BY <1>0, <1>1, <1>2, ScheduleProcessCounts, ScheduleCounts, BindInLoopCounts, AckCounts,
     AddPodStatusCounts DEF SchedulerStep, BagToSet

LEMMA RetryCounts ==
    ASSUME IInv, CountOK, RetryStep, NEW p \in Pods
    PROVE  CountOK' /\ (Kept(p) \/ Failed(p))
<1>0. Retry \in Consumers
  BY Places
<1>1. ASSUME NEW r, RetryProcess(r) PROVE CountOK' /\ Kept(p)
  <2>1. /\ Take(Retry, r, "ack", None) /\ Spawn(Retry, Task("WaitAndSend", r, None))
        /\ UNCHANGED <<api, coordinator, faults>>
    BY <1>1 DEF RetryProcess
  <2>2. PICK k : k = One(r.pod = p)
    OBVIOUS
  <2>3. k \in {0, 1}
    BY <2>2 DEF One
  <2>4. /\ \A q \in Queues : NatBag(queue'[q])
        /\ \A d \in Consumers : NatBag(stale'[d]) /\ held'[d] \in Messages \cup {None}
        /\ \A d \in Consumers \ {Retry} : held'[d] = held[d] /\ stale'[d] = stale[d]
        /\ ~InHand(Retry, p) /\ InHand(Retry, p)' = ("ack" # "ack" /\ r.pod = p)
        /\ \/ InQueues(p)' = InQueues(p) - k /\ Far(Retry, p)' = Far(Retry, p)
           \/ InQueues(p)' = InQueues(p) /\ Far(Retry, p)' = Far(Retry, p) - k
    BY <1>0, <2>1, <2>2, TakeCounts
  <2>5. PICK t : t = Task("WaitAndSend", r, None)
    OBVIOUS
  <2>6. /\ \A d \in Consumers : NatBag(tasks'[d])
        /\ \A d \in Consumers \ {Retry} : tasks'[d] = tasks[d]
        /\ Goroutines(tasks[Retry], p) \in Nat
        /\ Goroutines(tasks'[Retry], p) = Goroutines(tasks[Retry], p) + k
    <3>1. t.req.pod = r.pod /\ Spawn(Retry, t)
      BY <2>1, <2>5 DEF Task
    <3> QED
      BY <1>0, <2>2, <3>1, SpawnCounts
  <2>7. CountOK' /\ Others(Retry) /\ SamePods
    <3>1. SamePods
      BY <2>1, ApiUnchanged
    <3> QED
      BY <2>1, <2>4, <2>6, <3>1, ToldOK DEF CountOK, Others, SamePods
  <2>8. InQueues(p) \in Nat /\ Far(Retry, p) \in Nat
    BY <1>0, Counts DEF Natural, Far
  <2>9. One(InHand(Retry, p))' = One(InHand(Retry, p)) + 0
    <3>1. One(InHand(Retry, p)) = 0 /\ One(InHand(Retry, p))' = 0
      BY <2>4 DEF One
    <3> QED
      BY <3>1
  <2>10. CASE InQueues(p)' = InQueues(p) - k /\ Far(Retry, p)' = Far(Retry, p)
    <3>1. InQueues(p)' = InQueues(p) + (-k) /\ Far(Retry, p)' = Far(Retry, p) + 0
      BY <2>3, <2>8, <2>10
    <3>2. Changes(Retry, p, -k, 0, k, 0)
      BY <2>6, <2>9, <3>1 DEF Changes
    <3>3. /\ -k \in Int /\ k \in Int /\ 0 \in Int
          /\ (-k) + 0 + k + 0 <= 0
      BY <2>3
    <3> QED
      BY <1>0, <2>1, <2>7, <3>2, <3>3, ChangesKept
  <2>11. CASE InQueues(p)' = InQueues(p) /\ Far(Retry, p)' = Far(Retry, p) - k
    <3>1. InQueues(p)' = InQueues(p) + 0 /\ Far(Retry, p)' = Far(Retry, p) + (-k)
      BY <2>3, <2>8, <2>11
    <3>2. Changes(Retry, p, 0, 0, k, -k)
      BY <2>6, <2>9, <3>1 DEF Changes
    <3>3. /\ -k \in Int /\ k \in Int /\ 0 \in Int
          /\ 0 + 0 + k + (-k) <= 0
      BY <2>3
    <3> QED
      BY <1>0, <2>1, <2>7, <3>2, <3>3, ChangesKept
  <2> QED
    BY <2>4, <2>10, <2>11
<1>2. ASSUME NEW t \in DOMAIN tasks[Retry], WaitAndSend(t) PROVE CountOK' /\ (Kept(p) \/ Failed(p))
  <2>1. /\ Return(Retry, t) /\ UNCHANGED <<api, coordinator, up, held, stale, faults>>
    BY <1>2 DEF WaitAndSend
  <2>2. t.req \in Retried /\ t.req.pod \in Pods
    BY <1>0, Places, Names DEF IInv, TasksOK, TaskOK, Accepts
  <2>3. Wanted[t.req.pod] \in Queues /\ Squared(t.req) \in Held(Wanted[t.req.pod])
    BY <2>2, SentBack, Places
  <2>4. CASE Retry \in up
    <3>1. PICK q \in Queues : q = Wanted[t.req.pod]
      BY <2>3
    <3>2. PICK r \in Held(q) : r = Squared(t.req)
      BY <2>3, <3>1
    <3>3. r.pod = t.req.pod
      BY <3>2 DEF Squared, Request
    <3>4. queue' = [queue EXCEPT ![q] = BagAdd(@, r)]
      BY <1>2, <2>4, <3>1, <3>2 DEF WaitAndSend
    <3> QED
      BY <1>0, <2>1, <3>3, <3>4, SendCounts
  <2>5. CASE Retry \notin up
    <3>1. UNCHANGED <<coordinator, broker, held, stale>> /\ SamePods
      BY <1>2, <2>1, <2>5, ApiUnchanged DEF WaitAndSend, broker
    <3> QED
      BY <1>0, <2>1, <3>1, ReturnKept
  <2> QED
    BY <2>4, <2>5
<1> QED
  BY <1>0, <1>1, <1>2, AckCounts DEF RetryStep, BagToSet

-----------------------------------------------------------------------------
(* Every step, for every pod.                                              *)
LEMMA StepCounts ==
    ASSUME IInv, CountOK, [Next]_vars, NEW p \in Pods
    PROVE  CountOK' /\ (Kept(p) \/ Failed(p))
<1>1. ASSUME NEW x \in Pods, DeletePod(x) PROVE CountOK' /\ Kept(p)
  <2>1. api' = [api EXCEPT ![x].phase = "gone"]
    BY <1>1 DEF DeletePod
  <2>2. PICK o \in Objects : o = api[x]
    BY DEF CountOK
  <2>3. PICK n : n = [o EXCEPT !.phase = "gone"]
    OBVIOUS
  <2>4. n \in Objects /\ n.uid = o.uid /\ n.phase = "gone"
    BY <2>3 DEF Objects
  <2>5. api' = [api EXCEPT ![x] = n]
    BY <2>1, <2>2, <2>3
  <2>6. SamePods
    BY <2>2, <2>4, <2>5 DEF CountOK, SamePods
  <2>7. UNCHANGED <<coordinator, queue, consumers, faults>>
    BY <1>1 DEF DeletePod, broker
  <2> QED
    BY <2>6, <2>7, UserCounts
<1>2. CASE \/ \E c \in Services : Connect(c)
           \/ UNCHANGED vars
  <2>1. UNCHANGED <<api, coordinator, queue, consumers, faults>>
    BY <1>2 DEF Connect, vars, broker
  <2> QED
    BY <2>1, ApiUnchanged, UserCounts
<1>3. ASSUME NEW c \in Consumers, Crash(c) PROVE CountOK' /\ Failed(p)
  <2>1. Stop(c) /\ UNCHANGED coordinator /\ faults' = faults + 1 /\ SamePods
    BY <1>3, ApiUnchanged DEF Crash, Fault
  <2> QED
    BY <2>1, StopCounts
<1> QED
  BY <1>1, <1>2, <1>3, CreateCounts, CoordinatorCounts, SchedulerCounts, RetryCounts, BreakCounts,
     CrashCoordinatorCounts DEF Next

(* The invariant: what may still come of a pod is bounded, not only what   *)
(* is under way, since stale copies and a restarted coordinator add to it. *)
Bound(p) == Twice[faults] * (api[p].uid + 1) - 1

Counted == \A p \in Pods : CountOK /\ Ahead(p) <= Bound(p)

(* The bound for n faults and c pods.                                      *)
LEMMA BoundGrows ==
    ASSUME NEW d \in Nat \ {0}, NEW c \in Nat, NEW a \in Nat, a <= d * (c + 1) - 1
    PROVE  /\ a + 1 <= d * ((c + 1) + 1) - 1
           /\ 2 * a + 1 <= (2 * d) * (c + 1) - 1
           /\ 2 * a + 1 <= (2 * d) * ((c + 1) + 1) - 1
<1>1. PICK e \in Nat : e = d * (c + 1)
  OBVIOUS
<1>2. d * ((c + 1) + 1) = e + d
  BY <1>1
<1>3. (2 * d) * (c + 1) = 2 * e
  BY <1>1
<1>4. (2 * d) * ((c + 1) + 1) = 2 * (e + d)
  <2>1. (2 * d) * ((c + 1) + 1) = 2 * (d * ((c + 1) + 1))
    OBVIOUS
  <2> QED
    BY <1>2, <2>1
<1>5. a <= e - 1
  BY <1>1
<1> QED
  BY <1>2, <1>3, <1>4, <1>5

LEMMA InitCounted == Init => Counted
<1> SUFFICES ASSUME Init PROVE Counted
  OBVIOUS
<1>1. CountOK
  <2>1. api \in [Pods -> Objects] /\ \A p \in Pods : api[p].uid = 0 /\ api[p].phase = "gone"
    BY DEF Init, Objects
  <2>2. told \in [Pods -> Nat] /\ \A p \in Pods : told[p] = 0
    BY DEF Init
  <2> QED
    BY <2>1, <2>2, EmptyFacts DEF Init, CountOK, Queues
<1>2. ASSUME NEW p \in Pods PROVE Ahead(p) <= Bound(p)
  <2>1. InQueues(p) = 0
    <3>1. queue[Wanted[p]] = EmptyBag /\ queue["retry"] = EmptyBag
      BY Names DEF Init, Queues
    <3> QED
      BY <3>1, EmptyFacts DEF InQueues
  <2>2. \A c \in Consumers : With(c, p) = 0 /\ Copies(stale[c], p) = 0
    BY EmptyFacts DEF Init, With, InHand, One
  <2>3. AtConsumers(p) = 0
    <3> DEFINE f == [c \in Consumers |-> With(c, p)]
    <3>1. DOMAIN f = Consumers /\ \A c \in Consumers : f[c] = 0
      BY <2>2
    <3> HIDE DEF f
    <3>2. SumFunction(f) = 0
      BY <3>1, ZeroSum
    <3> QED
      BY <3>2 DEF f, AtConsumers
  <2>4. OldCopies(p) = 0
    <3> DEFINE f == [c \in Consumers |-> Copies(stale[c], p)]
    <3>1. DOMAIN f = Consumers /\ \A c \in Consumers : f[c] = 0
      BY <2>2
    <3> HIDE DEF f
    <3>2. SumFunction(f) = 0
      BY <3>1, ZeroSum
    <3> QED
      BY <3>2 DEF f, OldCopies
  <2>5. One(p \in workqueue) = 0 /\ One(p = syncing) = 0 /\ New(p) = 0
    BY PipelineAssumption DEF Init, One, New
  <2>6. Outstanding(p) = 0
    BY <1>1, <2>1, <2>3, <2>5, Counts DEF Natural
  <2>7. Ahead(p) = 0
    BY <2>4, <2>5, <2>6 DEF Ahead
  <2> QED
    BY <2>7, TwiceFacts DEF Init, Bound
<1> QED
  BY <1>1, <1>2 DEF Counted

LEMMA CountedInductive == IInv /\ Counted /\ [Next]_vars => Counted'
<1> SUFFICES ASSUME IInv, Counted, [Next]_vars PROVE Counted'
  OBVIOUS
<1> SUFFICES ASSUME NEW p \in Pods PROVE CountOK' /\ Ahead(p)' <= Bound(p)'
  BY DEF Counted
<1>1. CountOK'
  BY StepCounts DEF Counted
<1>2. PICK a, b, n, m, c, e : /\ a = Ahead(p) /\ b = Ahead(p)' /\ n = faults /\ m = faults'
                              /\ c = api[p].uid /\ e = api'[p].uid
  OBVIOUS
<1>3. /\ a \in Nat /\ b \in Nat /\ n \in Nat /\ m \in Nat /\ c \in Nat
      /\ a <= Twice[n] * (c + 1) - 1
  BY <1>1, <1>2, Counts, CountsNext DEF Natural, CountOK, Counted, Bound, Objects
<1>4. \/ m = n /\ e = c /\ b <= a
      \/ m = n /\ e = c + 1 /\ b <= a + 1
      \/ m = n + 1 /\ e \in {c, c + 1} /\ b <= 2 * a + 1
  BY <1>2, StepCounts DEF Counted, Kept, Failed
<1>5. PICK d \in Nat \ {0} : d = Twice[n] /\ Twice[n + 1] = 2 * d
  BY <1>3, TwiceFacts
<1>6. PICK x, y, z, w : /\ x = d * (c + 1) - 1 /\ y = d * ((c + 1) + 1) - 1
                        /\ z = (2 * d) * (c + 1) - 1 /\ w = (2 * d) * ((c + 1) + 1) - 1
                        /\ x \in Int /\ y \in Int /\ z \in Int /\ w \in Int
  BY <1>3
<1>7. a <= x /\ a + 1 <= y /\ 2 * a + 1 <= z /\ 2 * a + 1 <= w
  BY <1>3, <1>5, <1>6, BoundGrows
<1>8. Twice[m] * (e + 1) - 1 \in {x, y, z, w} /\ b <= Twice[m] * (e + 1) - 1
  <2>1. CASE m = n /\ e = c /\ b <= a
    <3>1. Twice[m] * (e + 1) - 1 = x
      BY <1>5, <1>6, <2>1
    <3> QED
      BY <1>3, <1>6, <1>7, <2>1, <3>1
  <2>2. CASE m = n /\ e = c + 1 /\ b <= a + 1
    <3>1. Twice[m] * (e + 1) - 1 = y
      BY <1>5, <1>6, <2>2
    <3> QED
      BY <1>3, <1>6, <1>7, <2>2, <3>1
  <2>3. CASE m = n + 1 /\ e = c /\ b <= 2 * a + 1
    <3>1. Twice[m] * (e + 1) - 1 = z
      BY <1>5, <1>6, <2>3
    <3> QED
      BY <1>3, <1>6, <1>7, <2>3, <3>1
  <2>4. CASE m = n + 1 /\ e = c + 1 /\ b <= 2 * a + 1
    <3>1. Twice[m] * (e + 1) - 1 = w
      BY <1>5, <1>6, <2>4
    <3> QED
      BY <1>3, <1>6, <1>7, <2>4, <3>1
  <2> QED
    BY <1>4, <2>1, <2>2, <2>3, <2>4
<1> QED
  BY <1>1, <1>2, <1>8 DEF Bound

(* With c pods created under a name and no failure, c requests with that   *)
(* name are under way at most; n failures, crashes, connections or calls,  *)
(* make at most 2^n (c + 1) - 1 of them.                                   *)
THEOREM DuplicatesBounded == Spec => []DuplicatesNeedFaults
<1>1. Init => IInv /\ Counted
  BY InitIInv, InitCounted
<1>2. IInv /\ Counted /\ [Next]_vars => (IInv /\ Counted)'
  BY Inductive, CountedInductive
<1>3. IInv /\ Counted => DuplicatesNeedFaults
  <2> SUFFICES ASSUME IInv, Counted, NEW p \in Pods PROVE Outstanding(p) <= Bound(p)
    BY DEF DuplicatesNeedFaults, Bound
  <2>1. CountOK /\ Ahead(p) <= Bound(p)
    BY DEF Counted
  <2>2. Natural
    BY <2>1, Counts
  <2>3. Outstanding(p) <= Ahead(p) /\ Outstanding(p) \in Nat /\ Ahead(p) \in Nat
    <3>1. Outstanding(p) \in Nat /\ OldCopies(p) \in Nat /\ New(p) \in Nat
      <4>1. told[p] \in Nat /\ api[p].uid \in Nat /\ told[p] <= api[p].uid
        BY <2>1 DEF CountOK, Objects
      <4> QED
        BY <2>2, <4>1 DEF Natural, New
    <3>2. PICK a, b, c : a = Outstanding(p) /\ b = OldCopies(p) /\ c = New(p)
      OBVIOUS
    <3>3. Ahead(p) = a + b + c
      BY <3>2 DEF Ahead
    <3> QED
      BY <3>1, <3>2, <3>3
  <2>4. Bound(p) \in Int
    <3>1. Twice[faults] \in Nat /\ api[p].uid \in Nat
      BY <2>1, TwiceFacts DEF CountOK, Objects
    <3> QED
      BY <3>1 DEF Bound
  <2> QED
    BY <2>1, <2>3, <2>4
<1> QED
  BY <1>1, <1>2, <1>3, PTL DEF Spec

-----------------------------------------------------------------------------
(* Where a request is does not matter to the second theorem, only that     *)
(* there is one: each step leaves it, or moves it on.                      *)
Excused(p) == faults' > faults \/ Retry \notin up \/ ~Pending(p)'

Handled(c, p) ==
    \/ InHand(c, p) /\ Fetched(p, held[c].obj)
    \/ \E t \in DOMAIN tasks[c] : Serves(t, p)

Queued(p) == \E q \in DOMAIN queue : \E r \in DOMAIN queue[q] : r.pod = p

LEMMA HasRequestFacts ==
    ASSUME NEW p
    PROVE  /\ HasRequest(p) <=> \/ p \in workqueue \/ p = syncing \/ Queued(p)
                              \/ \E c \in Consumers : Handled(c, p)
           /\ HasRequest(p)' <=> \/ p \in workqueue' \/ p = syncing' \/ Queued(p)'
                               \/ \E c \in Consumers : Handled(c, p)'
  BY DEF HasRequest, Queued, Handled

(* A step of a consumer that leaves the queues with what they had, but for *)
(* what it takes in hand, and does with what it has in hand, or with a     *)
(* goroutine, what it should.                                              *)
LEMMA ConsumerKeeps ==
    ASSUME NEW c \in Consumers, NEW p \in Pods, Others(c), UNCHANGED coordinator, SamePods,
           Tracked(p),
           Queued(p) => Queued(p)' \/ Handled(c, p)',
           Handled(c, p) => Queued(p)' \/ Handled(c, p)'
    PROVE  Tracked(p)'
<1>1. told[p] < api[p].uid => told'[p] < api'[p].uid
  BY DEF coordinator, SamePods
<1>2. ASSUME NEW d \in Consumers \ {c}, Handled(d, p) PROVE Handled(d, p)'
  BY <1>2 DEF Handled, Others, InHand, Serves, Fetched, SamePods
<1>3. p \in workqueue => p \in workqueue'
  BY DEF coordinator
<1>4. p = syncing => p = syncing'
  BY DEF coordinator
<1>5. told[p] < api[p].uid \/ HasRequest(p)
  BY DEF Tracked
<1>6. told'[p] < api'[p].uid \/ HasRequest(p)'
  BY <1>1, <1>2, <1>3, <1>4, <1>5, HasRequestFacts
<1> QED
  BY <1>6 DEF Tracked

LEMMA BagRemoveKeeps == \A B, x : DOMAIN B \ {x} \subseteq DOMAIN BagRemove(B, x)
  BY DEF BagRemove

LEMMA QueuedAdded ==
    ASSUME QueueOK, NEW q \in Queues, NEW r, queue' = [queue EXCEPT ![q] = BagAdd(@, r)], NEW p
    PROVE  (Queued(p) => Queued(p)') /\ (r.pod = p => Queued(p)')
<1>1. /\ DOMAIN queue' = Queues /\ DOMAIN queue = Queues /\ queue'[q] = BagAdd(queue[q], r)
      /\ \A k \in Queues \ {q} : queue'[k] = queue[k]
  BY DEF QueueOK
<1>2. DOMAIN queue'[q] = DOMAIN queue[q] \cup {r}
  BY <1>1, BagAddDomain
<1>3. \A k \in Queues : DOMAIN queue[k] \subseteq DOMAIN queue'[k]
  BY <1>1, <1>2
<1> QED
  BY <1>1, <1>2, <1>3 DEF Queued

LEMMA QueuedRemoved ==
    ASSUME QueueOK, NEW q \in Queues, NEW r, queue' = [queue EXCEPT ![q] = BagRemove(@, r)], NEW p
    PROVE  Queued(p) => Queued(p)' \/ r.pod = p
<1>1. /\ DOMAIN queue' = Queues /\ DOMAIN queue = Queues /\ queue'[q] = BagRemove(queue[q], r)
      /\ \A k \in Queues \ {q} : queue'[k] = queue[k]
  BY DEF QueueOK
<1>2. DOMAIN queue[q] \ {r} \subseteq DOMAIN queue'[q]
  BY <1>1, BagRemoveKeeps
<1>3. \A k \in Queues : DOMAIN queue[k] \ {r} \subseteq DOMAIN queue'[k]
  BY <1>1, <1>2
<1> QED
  BY <1>1, <1>3 DEF Queued

(* What a goroutine that starts or ends leaves at its consumer.            *)
LEMMA SpawnKeeps ==
    ASSUME TasksOK, NEW c \in Consumers, NEW t, Spawn(c, t)
    PROVE  DOMAIN tasks'[c] = DOMAIN tasks[c] \cup {t} /\ \A d \in Consumers \ {c} : tasks'[d] = tasks[d]
<1>1. tasks'[c] = BagAdd(tasks[c], t) /\ \A d \in Consumers \ {c} : tasks'[d] = tasks[d]
  BY DEF Spawn, TasksOK
<1> QED
  BY <1>1, BagAddDomain

LEMMA ReturnKeeps ==
    ASSUME TasksOK, NEW c \in Consumers, NEW t, Return(c, t)
    PROVE  /\ DOMAIN tasks[c] \ {t} \subseteq DOMAIN tasks'[c]
           /\ \A d \in Consumers \ {c} : tasks'[d] = tasks[d]
<1>1. tasks'[c] = BagRemove(tasks[c], t) /\ \A d \in Consumers \ {c} : tasks'[d] = tasks[d]
  BY DEF Return, TasksOK
<1> QED
  BY <1>1, BagRemoveKeeps

(* A goroutine that ends takes the request of its own pod at most.         *)
LEMMA HandledAfterReturn ==
    ASSUME TasksOK, NEW c \in Consumers, NEW t, Return(c, t), NEW p \in Pods, SamePods,
           UNCHANGED held, Handled(c, p)
    PROVE  Handled(c, p)' \/ Serves(t, p)
<1>1. DOMAIN tasks[c] \ {t} \subseteq DOMAIN tasks'[c]
  BY ReturnKeeps
<1>2. \A u : Serves(u, p)' <=> Serves(u, p)
  BY DEF Serves, Fetched, SamePods
<1>3. CASE InHand(c, p) /\ Fetched(p, held[c].obj)
  BY <1>3 DEF Handled, InHand, Fetched, SamePods
<1>4. ASSUME NEW u \in DOMAIN tasks[c], Serves(u, p)
      PROVE  Handled(c, p)' \/ Serves(t, p)
  <2>1. CASE u = t
    BY <1>4, <2>1
  <2>2. CASE u # t
    <3>1. u \in DOMAIN tasks'[c] /\ Serves(u, p)'
      BY <1>1, <1>2, <1>4, <2>2
    <3> QED
      BY <1>4, <3>1 DEF Handled
  <2> QED
    BY <2>1, <2>2
<1> QED
  BY <1>3, <1>4 DEF Handled

-----------------------------------------------------------------------------
LEMMA CoordinatorKeeps ==
    ASSUME IInv, CountOK, CoordinatorStep, NEW p \in Pods, Tracked(p)
    PROVE  Tracked(p)' \/ Excused(p)
<1>0. told[p] \in Nat /\ api[p].uid \in Nat /\ told[p] <= api[p].uid /\ p # None
  BY PipelineAssumption DEF CountOK, Objects
<1>1. UNCHANGED <<api, held, stale, tasks>>
  BY DEF CoordinatorStep, AddFunc, ProcessNextItem, ObjectSync, consumers
<1>2. \A c \in Consumers : Handled(c, p) => Handled(c, p)'
  BY <1>1 DEF Handled, InHand, Serves, Fetched
<1>3. told[p] < api[p].uid \/ HasRequest(p)
  BY DEF Tracked
<1>4. ASSUME NEW x \in Pods, AddFunc(x) PROVE Tracked(p)' \/ Excused(p)
  <2>1. /\ UNCHANGED <<syncing, queue>>
        /\ told' = [told EXCEPT ![x] = @ + 1] /\ told[x] < api[x].uid
        /\ \/ workqueue' = workqueue \cup {x}
           \/ workqueue' = workqueue /\ ~(told'[x] = api[x].uid /\ api[x].phase = "pending")
    BY <1>4 DEF AddFunc, broker
  <2>2. HasRequest(p) => HasRequest(p)'
    BY <1>2, <2>1, HasRequestFacts DEF Queued
  <2>3. told'[p] = IF p = x THEN told[p] + 1 ELSE told[p]
    BY <2>1 DEF CountOK
  <2>4. CASE HasRequest(p)
    BY <2>2, <2>4 DEF Tracked
  <2>5. CASE told[p] < api[p].uid /\ p # x
    BY <1>1, <2>3, <2>5 DEF Tracked
  <2>6. CASE p = x
    <3>1. CASE workqueue' = workqueue \cup {x}
      BY <2>6, <3>1, HasRequestFacts DEF Tracked
    <3>2. CASE ~(told'[x] = api[x].uid /\ api[x].phase = "pending")
      <4>1. CASE told'[p] # api[p].uid
        <5>1. told'[p] < api[p].uid
          BY <1>0, <2>1, <2>3, <2>6, <4>1
        <5> QED
          BY <1>1, <5>1 DEF Tracked
      <4>2. CASE api[p].phase # "pending"
        BY <1>1, <4>2 DEF Excused, Pending
      <4> QED
        BY <2>6, <3>2, <4>1, <4>2
    <3> QED
      BY <2>1, <3>1, <3>2
  <2> QED
    BY <1>3, <2>4, <2>5, <2>6
<1>5. ASSUME NEW x \in Pods, ProcessNextItem(x) PROVE Tracked(p)'
  <2>1. /\ UNCHANGED <<told, queue>> /\ syncing = None
        /\ workqueue' = workqueue \ {x} /\ syncing' = x
    BY <1>5 DEF ProcessNextItem, broker
  <2>2. HasRequest(p) => HasRequest(p)'
    BY <1>0, <1>2, <2>1, HasRequestFacts DEF Queued
  <2> QED
    BY <1>1, <1>3, <2>1, <2>2 DEF Tracked
<1>6. CASE ObjectSync
  <2>1. /\ syncing \in Pods /\ syncing' = None /\ UNCHANGED <<told, workqueue>>
    BY <1>6 DEF ObjectSync, IInv, WorkOK
  <2>2. CASE NotListed(syncing) /\ UNCHANGED queue
    <3>1. CASE p = syncing
      BY <1>1, <2>1, <2>2, <3>1 DEF NotListed, Tracked, Excused, Pending
    <3>2. CASE p # syncing
      <4>1. HasRequest(p) => HasRequest(p)'
        BY <1>2, <2>1, <2>2, <3>2, HasRequestFacts DEF Queued
      <4> QED
        BY <1>1, <1>3, <2>1, <4>1 DEF Tracked
    <3> QED
      BY <3>1, <3>2
  <2>3. CASE queue' = [queue EXCEPT ![Wanted[syncing]] = BagAdd(@, Request(syncing, 2))]
    <3>1. PICK q, r : q \in Queues /\ q = Wanted[syncing] /\ r = Request(syncing, 2)
      BY <2>1, Names
    <3>2. r.pod = syncing
      BY <3>1 DEF Request
    <3>3. (Queued(p) => Queued(p)') /\ (p = syncing => Queued(p)')
      BY <2>3, <3>1, <3>2, QueuedAdded DEF IInv
    <3>4. HasRequest(p) => HasRequest(p)'
      BY <1>2, <2>1, <3>3, HasRequestFacts
    <3> QED
      BY <1>1, <1>3, <2>1, <3>4 DEF Tracked
  <2> QED
    BY <1>6, <2>2, <2>3 DEF ObjectSync
<1> QED
  BY <1>4, <1>5, <1>6 DEF CoordinatorStep

(* A goroutine that ends without a request for the pod there is.           *)
LEMMA EndKeeps ==
    ASSUME TasksOK, NEW c \in Consumers, NEW t, Return(c, t), NEW p \in Pods, SamePods,
           UNCHANGED <<coordinator, broker, held, stale>>, ~Serves(t, p), Tracked(p)
    PROVE  Tracked(p)'
<1>1. Handled(c, p) => Handled(c, p)'
  BY HandledAfterReturn
<1>2. Others(c) /\ (Queued(p) => Queued(p)')
  BY ReturnKeeps DEF Others, broker, Queued
<1> QED
  BY <1>1, <1>2, ConsumerKeeps

(* A goroutine that sends its request.                                     *)
LEMMA SendKeeps ==
    ASSUME QueueOK, CountOK, TasksOK, NEW c \in Consumers, NEW t, Return(c, t), NEW q \in Queues,
           NEW r, r.pod = t.req.pod, queue' = [queue EXCEPT ![q] = BagAdd(@, r)],
           UNCHANGED <<api, coordinator, held, stale>>, NEW p \in Pods, Tracked(p)
    PROVE  Tracked(p)'
<1>0. SamePods
  BY ApiUnchanged
<1>1. (Queued(p) => Queued(p)') /\ (r.pod = p => Queued(p)')
  BY QueuedAdded
<1>2. Handled(c, p) => Handled(c, p)' \/ Serves(t, p)
  BY <1>0, HandledAfterReturn
<1>3. Serves(t, p) => Queued(p)'
  BY <1>1 DEF Serves
<1>4. Others(c)
  BY ReturnKeeps DEF Others
<1> QED
  BY <1>0, <1>1, <1>2, <1>3, <1>4, ConsumerKeeps

LEMMA AckKeeps ==
    ASSUME IInv, CountOK, NEW c \in Consumers, Ack(c) \/ DropStale(c), NEW p \in Pods, Tracked(p)
    PROVE  Tracked(p)'
<1>0. DOMAIN held = Consumers /\ DOMAIN stale = Consumers
  BY DEF IInv, HeldOK, StaleOK
<1>1. UNCHANGED <<api, coordinator, queue, tasks>> /\ SamePods
  BY ApiUnchanged DEF Ack, DropStale, broker
<1>2. Others(c)
  BY <1>0, <1>1 DEF Others, Ack, DropStale
<1>3. Handled(c, p) => Handled(c, p)'
  <2>1. CASE Ack(c)
    BY <1>1, <2>1 DEF Handled, InHand, Serves, Fetched, Ack, At
  <2>2. CASE DropStale(c)
    BY <1>1, <2>2 DEF Handled, InHand, Serves, Fetched, DropStale
  <2> QED
    BY <2>1, <2>2
<1>4. Queued(p) => Queued(p)'
  BY <1>1 DEF Queued
<1> QED
  BY <1>1, <1>2, <1>3, <1>4, ConsumerKeeps

(* What is in hand, and what a Bind call for it does to the pod.           *)
LEMMA BindSettles ==
    ASSUME CountOK, NEW x \in Pods, NEW obj, Bind(x, obj), Fetched(x, obj)
    PROVE  Excused(x)
<1>1. CASE /\ api[x].phase = "pending" /\ api' = [api EXCEPT ![x].phase = "bound"]
  <2>1. PICK o \in Objects : o = api[x]
    BY DEF CountOK
  <2>2. api'[x].phase = "bound"
    BY <1>1, <2>1 DEF CountOK, Objects
  <2> QED
    BY <2>2 DEF Excused, Pending
<1>2. CASE /\ api[x].phase # "pending" \/ api[x].uid # obj.uid
           /\ UNCHANGED <<api, faults>>
  BY <1>2 DEF Fetched, Excused, Pending
<1>3. CASE Fault
  BY <1>3 DEF Fault, Excused, CountOK
<1> QED
  BY <1>1, <1>2, <1>3 DEF Bind

LEMMA SchedulerKeeps ==
    ASSUME IInv, CountOK, NEW s \in Schedulers, SchedulerStep(s), NEW p \in Pods, Tracked(p)
    PROVE  Tracked(p)' \/ Excused(p)
<1>0. /\ s \in Consumers /\ s # Retry /\ QueueOK /\ TasksOK /\ HeldOK
      /\ DOMAIN held = Consumers /\ DOMAIN stale = Consumers /\ DOMAIN tasks = Consumers
      /\ QueueOf(s) \in Queues
  BY Places DEF IInv, HeldOK, StaleOK, TasksOK
<1>1. ASSUME NEW r, ScheduleProcess(s, r) PROVE Tracked(p)' \/ Excused(p)
  <2>1. PICK stage, obj :
          /\ stage \in {"schedule", "ack"} /\ Take(s, r, stage, obj)
          /\ \/ stage = "schedule" /\ obj = api[r.pod]
             \/ api[r.pod].phase = "gone"
             \/ faults' = faults + 1
    BY <1>1 DEF ScheduleProcess, Fault
  <2>2. UNCHANGED <<api, coordinator, tasks>> /\ SamePods
    BY <1>1, ApiUnchanged DEF ScheduleProcess
  <2>3. PICK live \in BOOLEAN : held' = [held EXCEPT ![s] = Message(r, stage, obj, live)]
    BY <2>1 DEF Take
  <2>4. /\ held[s] = None /\ held'[s] = Message(r, stage, obj, live)
        /\ \A d \in Consumers \ {s} : held'[d] = held[d]
    BY <1>0, <2>1, <2>3 DEF Take
  <2>5. Queued(p) => Queued(p)' \/ r.pod = p
    <3>1. CASE queue' = [queue EXCEPT ![QueueOf(s)] = BagRemove(@, r)]
      BY <1>0, <3>1, QueuedRemoved
    <3>2. CASE UNCHANGED queue
      BY <3>2 DEF Queued
    <3> QED
      BY <2>1, <3>1, <3>2 DEF Take
  <2>6. Others(s)
    <3>1. \A d \in Consumers \ {s} : stale'[d] = stale[d]
      BY <1>0, <2>1 DEF Take
    <3> QED
      BY <2>2, <2>4, <3>1 DEF Others
  <2>7. Handled(s, p) => Handled(s, p)'
    BY <2>2, <2>4 DEF Handled, InHand, Serves, Fetched
  <2>8. CASE r.pod # p
    BY <1>0, <2>2, <2>5, <2>6, <2>7, <2>8, ConsumerKeeps
  <2>9. CASE r.pod = p /\ stage = "schedule" /\ obj = api[p]
    <3>1. PICK m : m = Message(r, stage, obj, live)
      OBVIOUS
    <3>2. m.req.pod = p /\ m.stage = "schedule" /\ m.obj = api[p] /\ held'[s] = m
      BY <2>4, <2>9, <3>1 DEF Message
    <3>3. m # None
      <4>1. r \in Requests
        BY <1>0, <2>1, Taken, Places, Names DEF IInv, Accepts
      <4>2. m \in Messages
        BY <2>9, <3>1, <4>1 DEF Message, Messages, Requests, CountOK
      <4> QED
        BY <4>2, PipelineAssumption
    <3>4. Handled(s, p)'
      BY <2>2, <3>2, <3>3 DEF Handled, InHand, Fetched
    <3> QED
      BY <1>0, <2>2, <2>6, <3>4, ConsumerKeeps
  <2>10. CASE api[r.pod].phase = "gone" /\ r.pod = p
    BY <2>2, <2>10 DEF Excused, Pending
  <2>11. CASE faults' = faults + 1
    BY <2>11 DEF Excused, CountOK
  <2> QED
    BY <2>1, <2>8, <2>9, <2>10, <2>11
<1>2. CASE ScheduleFails(s) \/ ScheduleFits(s)
  <2>1. /\ UNCHANGED <<api, coordinator, broker, stale>> /\ SamePods
        /\ held[s] # None /\ held[s].stage = "schedule"
    BY <1>2, ApiUnchanged DEF ScheduleFails, ScheduleFits, At
  <2>2. Queued(p) => Queued(p)'
    BY <2>1 DEF Queued, broker
  <2>3. ASSUME NEW t, Spawn(s, t), Move(s, "ack"),
               InHand(s, p) /\ Fetched(p, held[s].obj) => Serves(t, p)
        PROVE  Tracked(p)'
    <3>1. /\ DOMAIN tasks'[s] = DOMAIN tasks[s] \cup {t}
          /\ \A d \in Consumers \ {s} : tasks'[d] = tasks[d] /\ held'[d] = held[d]
      BY <1>0, <2>3, SpawnKeeps DEF Move
    <3>2. Others(s)
      BY <2>1, <3>1 DEF Others
    <3>3. \A u : Serves(u, p) => Serves(u, p)'
      BY <2>1 DEF Serves, Fetched
    <3>4. Handled(s, p) => Handled(s, p)'
      BY <2>3, <3>1, <3>3 DEF Handled
    <3> QED
      BY <1>0, <2>1, <2>2, <3>2, <3>4, ConsumerKeeps
  <2>4. CASE ScheduleFails(s)
    <3>1. CASE GivesUp(s, held[s].req.backoff)
      <4>1. PICK t : t = Task("AddPodStatus", held[s].req, held[s].obj)
        OBVIOUS
      <4>2. Spawn(s, t) /\ Move(s, "ack")
        BY <2>4, <3>1, <4>1 DEF ScheduleFails
      <4>3. InHand(s, p) /\ Fetched(p, held[s].obj) => Serves(t, p)
        BY <4>1 DEF InHand, Serves, Fetched, Task
      <4> QED
        BY <2>3, <4>2, <4>3
    <3>2. CASE ~GivesUp(s, held[s].req.backoff)
      <4>1. PICK t : t = Task("SendToQueue",
                              Request(held[s].req.pod, Handed(s, held[s].req.backoff)), None)
        OBVIOUS
      <4>2. Spawn(s, t) /\ Move(s, "ack")
        BY <2>4, <3>2, <4>1 DEF ScheduleFails
      <4>3. InHand(s, p) => Serves(t, p)
        BY <4>1 DEF InHand, Serves, Task, Request
      <4> QED
        BY <2>3, <4>2, <4>3
    <3> QED
      BY <3>1, <3>2
  <2>5. CASE Spawn(s, Task("bind", held[s].req, held[s].obj)) /\ Move(s, "ack")
    <3>1. PICK t : t = Task("bind", held[s].req, held[s].obj)
      OBVIOUS
    <3>2. InHand(s, p) /\ Fetched(p, held[s].obj) => Serves(t, p)
      BY <3>1 DEF InHand, Serves, Fetched, Task
    <3> QED
      BY <2>3, <2>5, <3>1, <3>2
  <2>6. CASE Move(s, "bind") /\ UNCHANGED tasks
    <3>1. PICK m : m = held[s]
      OBVIOUS
    <3>2. m \in Messages /\ held' = [held EXCEPT ![s] = [m EXCEPT !.stage = "bind"]]
      BY <1>0, <2>1, <2>6, <3>1 DEF Move, CountOK
    <3>3. PICK n : n = [m EXCEPT !.stage = "bind"]
      OBVIOUS
    <3>4. /\ n \in Messages /\ n # None /\ n.req = m.req /\ n.obj = m.obj /\ n.stage = "bind"
          /\ held'[s] = n /\ \A d \in Consumers \ {s} : held'[d] = held[d]
      BY <1>0, <3>2, <3>3, PipelineAssumption DEF Messages
    <3>5. InHand(s, p) /\ Fetched(p, held[s].obj) => (InHand(s, p) /\ Fetched(p, held[s].obj))'
      BY <2>1, <3>1, <3>4 DEF InHand, Fetched
    <3>6. Handled(s, p) => Handled(s, p)'
      BY <2>1, <2>6, <3>5 DEF Handled, Serves, Fetched
    <3>7. Others(s)
      BY <2>1, <2>6, <3>4 DEF Others
    <3> QED
      BY <1>0, <2>1, <2>2, <3>6, <3>7, ConsumerKeeps
  <2> QED
    BY <1>2, <2>4, <2>5, <2>6 DEF ScheduleFits
<1>3. CASE BindInLoop(s)
  <2>1. /\ Bind(held[s].req.pod, held[s].obj) /\ Move(s, "ack") /\ held[s] # None
        /\ UNCHANGED <<coordinator, broker, stale, tasks>>
    BY <1>3 DEF BindInLoop, At
  <2>2. held[s].req.pod \in Pods
    BY <1>0, <2>1, Places, Names DEF HeldOK, Accepts
  <2>3. SamePods
    BY <2>1, <2>2, BindFacts
  <2>4. CASE InHand(s, p) /\ Fetched(p, held[s].obj)
    BY <2>1, <2>4, BindSettles DEF InHand
  <2>5. CASE ~(InHand(s, p) /\ Fetched(p, held[s].obj))
    <3>1. Handled(s, p) => Handled(s, p)'
      BY <2>1, <2>3, <2>5 DEF Handled, Serves, Fetched, SamePods
    <3>2. Others(s) /\ (Queued(p) => Queued(p)')
      BY <1>0, <2>1 DEF Others, Move, broker, Queued
    <3> QED
      BY <1>0, <2>1, <2>3, <3>1, <3>2, ConsumerKeeps
  <2> QED
    BY <2>4, <2>5
<1>4. CASE Ack(s) \/ DropStale(s)
  BY <1>0, <1>4, AckKeeps
<1>5. ASSUME NEW t \in DOMAIN tasks[s], SendToQueue(s, t) PROVE Tracked(p)' \/ Excused(p)
  <2>1. /\ queue' = [queue EXCEPT !["retry"] = BagAdd(@, t.req)] /\ Return(s, t)
        /\ UNCHANGED <<api, coordinator, held, stale>>
    BY <1>5 DEF SendToQueue
  <2>2. PICK q \in Queues : q = "retry"
    BY DEF Queues
  <2> QED
    BY <1>0, <2>1, <2>2, SendKeeps
<1>6. ASSUME NEW t \in DOMAIN tasks[s], BindTask(s, t) PROVE Tracked(p)' \/ Excused(p)
  <2>1. /\ Bind(t.req.pod, t.obj) /\ Return(s, t) /\ t.kind = "bind"
        /\ UNCHANGED <<coordinator, broker, held, stale>>
    BY <1>6 DEF BindTask, Running
  <2>2. t.req.pod \in Pods
    BY <1>0, Places, Names DEF TasksOK, TaskOK, Accepts
  <2>3. SamePods
    BY <2>1, <2>2, BindFacts
  <2>4. CASE Serves(t, p)
    BY <2>1, <2>4, BindSettles DEF Serves
  <2>5. CASE ~Serves(t, p)
    BY <1>0, <2>1, <2>3, <2>5, EndKeeps
  <2> QED
    BY <2>4, <2>5
<1>7. ASSUME NEW t \in DOMAIN tasks[s], AddPodStatus(s, t) PROVE Tracked(p)' \/ Excused(p)
  <2>1. PICK x \in Pods : x = t.req.pod
    BY <1>0, Places, Names DEF TasksOK, TaskOK, Accepts
  <2>2. CASE faults' = faults + 1
    BY <2>2 DEF Excused, CountOK
  <2>3. CASE /\ api' = [api EXCEPT ![x].exceeded = TRUE] /\ Return(s, t)
             /\ UNCHANGED <<broker, held, stale>>
    <3>1. UNCHANGED coordinator
      BY <1>7 DEF AddPodStatus
    <3>2. PICK o \in Objects : o = api[x]
      BY DEF CountOK
    <3>3. PICK n : n = [o EXCEPT !.exceeded = TRUE]
      OBVIOUS
    <3>4. n \in Objects /\ n.exceeded /\ n.uid = o.uid /\ n.phase = o.phase
      BY <3>3 DEF Objects
    <3>5. api' = [api EXCEPT ![x] = n]
      BY <2>3, <3>2, <3>3
    <3>6. SamePods /\ api'[x] = n
      BY <3>2, <3>4, <3>5 DEF CountOK, SamePods
    <3>7. CASE x = p
      BY <3>4, <3>6, <3>7 DEF Excused, Pending
    <3>8. CASE x # p
      <4>1. ~Serves(t, p)
        BY <2>1, <3>8 DEF Serves
      <4> QED
        BY <1>0, <2>3, <3>1, <3>6, <4>1, EndKeeps
    <3> QED
      BY <3>7, <3>8
  <2> QED
    BY <1>7, <2>1, <2>2, <2>3 DEF AddPodStatus
<1> QED
  BY <1>1, <1>2, <1>3, <1>4, <1>5, <1>6, <1>7 DEF SchedulerStep, BagToSet

LEMMA RetryKeeps ==
    ASSUME IInv, CountOK, RetryStep, NEW p \in Pods, Tracked(p)
    PROVE  Tracked(p)' \/ Excused(p)
<1>0. /\ Retry \in Consumers /\ QueueOK /\ TasksOK /\ HeldOK
      /\ DOMAIN held = Consumers /\ DOMAIN stale = Consumers /\ DOMAIN tasks = Consumers
      /\ QueueOf(Retry) \in Queues
  BY Places DEF IInv, HeldOK, StaleOK, TasksOK
<1>1. ASSUME NEW r, RetryProcess(r) PROVE Tracked(p)'
  <2>1. /\ Take(Retry, r, "ack", None) /\ Spawn(Retry, Task("WaitAndSend", r, None))
        /\ UNCHANGED <<api, coordinator>> /\ SamePods
    BY <1>1, ApiUnchanged DEF RetryProcess
  <2>2. PICK t : t = Task("WaitAndSend", r, None)
    OBVIOUS
  <2>3. r.pod = p => Serves(t, p)'
    BY <2>2 DEF Serves, Task
  <2>4. /\ DOMAIN tasks'[Retry] = DOMAIN tasks[Retry] \cup {t}
        /\ \A d \in Consumers \ {Retry} : tasks'[d] = tasks[d]
    BY <1>0, <2>1, <2>2, SpawnKeeps
  <2>5. held[Retry] = None /\ \A d \in Consumers \ {Retry} : held'[d] = held[d]
    BY <1>0, <2>1 DEF Take
  <2>6. Others(Retry)
    BY <1>0, <2>1, <2>4, <2>5 DEF Others, Take
  <2>7. Queued(p) => Queued(p)' \/ r.pod = p
    <3>1. CASE queue' = [queue EXCEPT ![QueueOf(Retry)] = BagRemove(@, r)]
      BY <1>0, <3>1, QueuedRemoved
    <3>2. CASE UNCHANGED queue
      BY <3>2 DEF Queued
    <3> QED
      BY <2>1, <3>1, <3>2 DEF Take
  <2>8. Handled(Retry, p) => Handled(Retry, p)'
    BY <2>1, <2>4, <2>5 DEF Handled, InHand, Serves, Fetched
  <2>9. r.pod = p => Handled(Retry, p)'
    BY <2>3, <2>4 DEF Handled
  <2> QED
    BY <1>0, <2>1, <2>6, <2>7, <2>8, <2>9, ConsumerKeeps
<1>2. CASE Ack(Retry) \/ DropStale(Retry)
  BY <1>0, <1>2, AckKeeps
<1>3. ASSUME NEW t \in DOMAIN tasks[Retry], WaitAndSend(t) PROVE Tracked(p)' \/ Excused(p)
  <2>1. /\ Return(Retry, t) /\ UNCHANGED <<api, coordinator, held, stale>>
    BY <1>3 DEF WaitAndSend
  <2>2. t.req.pod \in Pods
    BY <1>0, Places, Names DEF TasksOK, TaskOK, Accepts
  <2>3. CASE Retry \in up
    <3>1. PICK q \in Queues : q = Wanted[t.req.pod]
      BY <2>2, Names
    <3>2. PICK r : r = Squared(t.req)
      OBVIOUS
    <3>3. r.pod = t.req.pod /\ queue' = [queue EXCEPT ![q] = BagAdd(@, r)]
      BY <1>3, <2>3, <3>1, <3>2 DEF WaitAndSend, Squared, Request
    <3> QED
      BY <1>0, <2>1, <3>3, SendKeeps
  <2>4. CASE Retry \notin up
    BY <2>4 DEF Excused
  <2> QED
    BY <2>3, <2>4
<1> QED
  BY <1>1, <1>2, <1>3 DEF RetryStep, BagToSet

(* Every step, for every pod.                                              *)
LEMMA StepKeeps ==
    ASSUME IInv, CountOK, [Next]_vars, NEW p \in Pods, Tracked(p)
    PROVE  Tracked(p)' \/ Excused(p)
<1>0. told[p] \in Nat /\ api[p].uid \in Nat /\ told[p] <= api[p].uid /\ faults \in Nat
  BY DEF CountOK, Objects
<1>1. ASSUME NEW x \in Pods, CreatePod(x) PROVE Tracked(p)' \/ Excused(p)
  <2>1. CASE faults' = faults + 1
    BY <1>0, <2>1 DEF Excused
  <2>2. CASE UNCHANGED told
    <3>1. UNCHANGED <<workqueue, syncing, queue, held, tasks>>
      BY <1>1 DEF CreatePod, broker, consumers
    <3>2. CASE x = p
      <4>1. api'[p].uid = api[p].uid + 1
        BY <1>1, <3>2 DEF CreatePod, CountOK
      <4> QED
        BY <1>0, <2>2, <4>1 DEF Tracked
    <3>3. CASE x # p
      <4>1. api'[p] = api[p]
        BY <1>1, <3>3 DEF CreatePod, CountOK
      <4>2. HasRequest(p) => HasRequest(p)'
        BY <3>1, <4>1 DEF HasRequest, InHand, Serves, Fetched
      <4> QED
        BY <2>2, <4>1, <4>2 DEF Tracked
    <3> QED
      BY <3>2, <3>3
  <2> QED
    BY <1>1, <2>1, <2>2 DEF CreatePod, Fault
<1>2. ASSUME UNCHANGED <<coordinator, queue, held, tasks>>, SamePods PROVE Tracked(p)'
  <2>1. HasRequest(p) => HasRequest(p)'
    BY <1>2 DEF coordinator, SamePods, HasRequest, InHand, Serves, Fetched
  <2> QED
    BY <1>2, <2>1 DEF coordinator, SamePods, Tracked
<1>3. ASSUME NEW x \in Pods, DeletePod(x) PROVE Tracked(p)'
  <2>1. PICK o \in Objects : o = api[x]
    BY DEF CountOK
  <2>2. PICK n : n = [o EXCEPT !.phase = "gone"]
    OBVIOUS
  <2>3. n \in Objects /\ n.uid = o.uid /\ n.phase = "gone"
    BY <2>2 DEF Objects
  <2>4. api' = [api EXCEPT ![x] = n]
    BY <1>3, <2>1, <2>2 DEF DeletePod
  <2>5. SamePods
    BY <2>1, <2>3, <2>4 DEF CountOK, SamePods
  <2>6. UNCHANGED <<coordinator, queue, held, tasks>>
    BY <1>3 DEF DeletePod, broker, consumers
  <2> QED
    BY <1>2, <2>5, <2>6
<1>4. CASE UNCHANGED vars \/ \E c \in Services : Connect(c)
  <2>1. UNCHANGED <<api, coordinator, queue, held, tasks>>
    BY <1>4 DEF Connect, vars, broker, consumers
  <2> QED
    BY <1>2, <2>1, ApiUnchanged
<1>5. ASSUME NEW c, Break(c) \/ Crash(c) \/ CrashCoordinator PROVE Excused(p)
  BY <1>0, <1>5 DEF Break, Crash, CrashCoordinator, Fault, Excused
<1> QED
  BY <1>1, <1>3, <1>4, <1>5, CoordinatorKeeps, SchedulerKeeps, RetryKeeps DEF Next

(* No service lets go of the last request of a pod that is still waiting,  *)
(* but for a failure, or the send of the retry service that is tried once; *)
(* requests that only a scheduler with an earlier pod of the name has in   *)
(* hand do not count.                                                      *)
THEOREM RequestsAreKept == Spec => LostOnlyByFaults
<1>1. Init => IInv /\ Counted
  BY InitIInv, InitCounted
<1>2. IInv /\ Counted /\ [Next]_vars => (IInv /\ Counted)'
  BY Inductive, CountedInductive
<1>3. IInv /\ Counted /\ [Next]_vars =>
         \A p \in Pods : LosesPod(p) => faults' > faults \/ Retry \notin up
  <2> SUFFICES ASSUME IInv, Counted, [Next]_vars, NEW p \in Pods, LosesPod(p)
               PROVE  faults' > faults \/ Retry \notin up
    OBVIOUS
  <2>1. CountOK
    BY DEF Counted
  <2>2. Tracked(p)' \/ Excused(p)
    BY <2>1, StepKeeps DEF LosesPod
  <2> QED
    BY <2>2 DEF LosesPod, Excused
<1>4. IInv /\ Counted /\ [Next]_vars =>
         [\A p \in Pods : LosesPod(p) => faults' > faults \/ Retry \notin up]_vars
  BY <1>3
<1> QED
  BY <1>1, <1>2, <1>4, PTL DEF Spec, LostOnlyByFaults
=============================================================================
