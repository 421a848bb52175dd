# Epsilon: verification

Epsilon is a set of schedulers for Kubernetes clusters. A coordinator watches the API server for
new pods and hands them out as messages; a general purpose scheduler (derived from the Kubernetes
scheduler of early 2020) and a short job scheduler take them from their queues; what cannot be
scheduled goes to a retry service that sends it back after a while. This directory models that
system in TLA+, checks the models with TLC on small instances, and proves the central facts about
the scheduler's cache and the informers that drive it, the filters' hold on what runs together, the
search for a node, the preemption protocol, the retries between the services, volume binding and
the autoscaler's updates with TLAPS for instances of every size.

Paths are relative to the repository; `general_purpose_scheduler/` is written `gps/`.

1. Inventory · 2. Plan · 3. Modules and code · 4. Runs and bounds · 5. Fairness · 6. Proofs ·
7. What the runs say about the code · 8. What is not modelled

## 1. Inventory

### 1.1 Components, their state and their operations

| Component | Code | State | Operations |
|---|---|---|---|
| Coordinator | `coordinator/main.go`, `controller.go`, `handler.go` | work queue of keys, the key its one worker is at, the informer's store | `AddFunc` (queues a pod without a node), `processNextItem`, `ObjectSync` (sends a schedule request until it succeeds) |
| Message broker and `communication/` | `communication/communications.go` | queues, unacknowledged deliveries, one connection and channel per client | `Connect`, `QueueDeclare`, `Receive`, `Send` |
| General scheduler: loop | `gps/main.go`, `processes.go`, `helper.go` | the message in hand, the goroutines it spawned | `ScheduleProcess`, `bind`, `SendToQueue`, `AddPodEvent`, `AddPodStatus` |
| General scheduler: preemption | `gps/processes.go:169-208`, `helper.go:157-230` | reservations in the conditions of the nodes at the API server | `PreemptionProcess`, `AddNodeStatusofPreemption`, `RemovePreemptionInfo` |
| General scheduler: `Schedule` | `gps/scheduler/scheduler.go` | the list of viable nodes its goroutines append to | `processFullset`, `processSubset`, their preemption variants, `prioritizeNodes`, `getPodToPreempt` |
| Framework | `gps/framework/v1alpha1/` | plugin lists, usage factors | `RunPreFilterPlugins`, `RunFilterPlugins`, `RunScorePlugins`, `IncreaseNodeUsageFactor` |
| Scheduler cache | `gps/internal/cache/cache.go`, `framework/v1alpha1/types.go` | node infos in a list ordered by generation, pod states, assumed pods, image states | `AssumePod`, `FinishBinding`, `ForgetPod`, `AddPod`, `UpdatePod`, `RemovePod`, `AddNode`, `UpdateNode`, `RemoveNode`, `UpdateSnapshot`, the expiry sweep |
| Node tree | `gps/internal/cache/node_tree.go` | per zone an array of names and a cursor, a cursor over zones | `addNode`, `removeNode`, `updateNode`, `next` |
| Event handlers | `gps/event_handlers.go` | none: they drive the cache from the informers' goroutines | the six handlers of the node and the pod informer |
| Filter plugins | `gps/framework/plugins/` | what `PreFilter` left for `Filter`, per call | ten filters, three pre-filters |
| Score plugins | `gps/framework/plugins/` | what `PreScore` left for `Score`; usage factors | six scores |
| Volume binding | `gps/k8s.io/.../volume/scheduling`, `framework/plugins/volumebinding` | two assume caches, the decisions per pod and node | `FindPodVolumes`, `AssumePodVolumes`, `BindPodVolumes`, `DeletePodBindings`, the informers' updates |
| Short job scheduler | `short_job_scheduler/` | index of the last node | message loop as above, round robin over nodes |
| Retry service | `retry/main.go` | goroutines that wait | `RetryProcess`, `WaitAndSend` |
| Autoscaler | `autoscaler/` | the readings of the regression plugin, the lister's store | four plugins vote, `makeDecision`, `UpdateDeployment` |
| Experiment service | `experiment/` | a database | writes timing records |

### 1.2 How they interact

* **API server → coordinator, schedulers.** Informers call handlers. The coordinator's looks at
  additions only (`coordinator/main.go:196-213`). A general scheduler has two informers, for nodes
  and for pods, whose handlers run in two goroutines and meet in the cache's lock.
* **Coordinator → scheduler → retry service → scheduler.** Requests travel through three kinds of
  queues of the message broker: one per kind of scheduler and one for retries. Consumers take any
  number of messages in advance and acknowledge them one at a time; all replicas of a scheduler
  share its queue.
* **Scheduler loop → goroutines.** `bind`, `SendToQueue`, `AddPodStatus` and the events are
  goroutines of their own; the loop acknowledges the message without waiting for them.
* **Schedule → goroutines.** One goroutine per node runs the filters and appends to the caller's
  slice; the caller waits for all of them (up to 50 nodes) or spins on a counter (more).
* **Cache → snapshot → plugins.** A call of `Schedule` starts with `UpdateSnapshot`, which copies
  what has changed since the last call into the scheduler's `Snapshot`; the filters read the copies,
  and some plugins list nodes through a lister.
* **Schedule → goroutines → plugins.** Scores are computed in parallel; a goroutine that outlives
  the call counts the chosen node in a map that the scoring of the next pods reads.
* **Autoscaler → API server.** It reads a deployment from an informer's store, changes that object in
  place and sends it; the version in it decides whether the API server takes it.
* **Schedulers ↔ schedulers.** They share nothing but the API server: the bindings they see late,
  and the reservations that a preemption writes into the conditions of a node.

### 1.3 What is hard here

* *Interleavings*: two informers, the unlocked append of `processFullset`, goroutines that outlive
  their call, bindings in flight that the next call of `Schedule` does not see.
* *Crashes and redelivery*: the message is acknowledged while its effect is still a goroutine; a
  connection that breaks redelivers what is not acknowledged; a restarted coordinator lists all pods.
* *Incremental structures*: the snapshot stops copying at the first old node, rebuilds its lists
  only on a change of sign, and compares sizes; the node tree keeps cursors while nodes come and go;
  used ports are a set, not counts; images count nodes.
* *Timeouts and retries*: the backoff is squared by one service, doubled by another, and tested by a
  third rule; assumed pods expire while they are being confirmed.
* *Stale indices and objects*: the short job scheduler keeps an index into a list it fetches anew, the
  volume binder writes objects that it chose from a cache before others wrote theirs, the
  autoscaler changes the lister's object once more on every conflict.
* *Limits*: 50 nodes, the two batches of a large search, host port wildcards, empty lists, scores
  that are refused.

`PROJECT.json` lists these hazards one by one, each at its line, with the properties that cover it.

### 1.4 What makes each component correct

| Component | Properties |
|---|---|
| Node tree | holds exactly the known nodes, once, in their zones; a listing may leave nodes out, but what one leaves out is in the next, unless a node left its zone in between |
| Cache | the list is sorted by generation; a node not newer than the snapshot is in it unchanged; a snapshot is as good as a full copy; pods follow the life cycle drawn in `interface.go`; an assumed pod is released in time |
| Handlers + cache | a pod is counted at most once, on the node it is bound to; ports, images and the tree agree with what the informers have shown; not so of pods that one update took from one UID to another |
| Schedule | a node is found if and only if one fits; the answer names a node that fits or, when none does, a victim, unless it was read from behind the end of an array; the call returns |
| Filters | pods that were placed knowing each other never conflict in room, ports, disks or anti-affinity |
| Selection | of the nodes found as often as the one chosen none is better, and none is unused and as good when that one was used; every pod gets a node |
| Volume binding | a volume's claim is not replaced; a bound pod reaches its volumes; a failed binding leaves no assumption; the assume cache keeps what its comment promises |
| Short job scheduler | jobs that are alike go round the nodes; every job is placed or refused |
| Autoscaler | each version it writes is one replica from the version before, and not 0 when it scales down |
| Preemption | a reservation lasts as long as its preemption and no longer; a victim is deleted for a pod that needs its place, unless a user deleted that pod or it was created again; what is waited for happens |
| Services | every pod is bound, given up or deleted in the end; without a failure a name has one request under way for each pod created under it; a request is lost only where something failed; no wait exceeds the maximum |

## 2. Plan

Modules in the order of writing; all of them exist and are checked.

| Stage | Module | Of | Abstract specification | Proof |
|---|---|---|---|---|
| 1 | `NodeTreeOps`, `NodeTree` | node tree | the set of nodes with their zones | `CacheProofs`, §6.1 |
| 2 | `SchedulerCache`, `PodLifecycle`, `CacheSnapshot` | cache | `PodLifecycle`, `CacheSnapshot` | `CacheProofs`, §6.1 |
| 3 | `EventHandlers` (extends `SchedulerCache`) | handlers driving the cache | the informers' view | `CacheProofs`, §6.2 |
| 4 | `Pipeline` | coordinator, broker, both schedulers' loops, retry service | – | `PipelineProofs`, §6.5 |
| 5 | `NodeSearch` | `Schedule` and its goroutines | – | `NodeSearchProofs`, §6.6 |
| 6 | `NodeFilters`, `InterPodAffinity`, `Admission` | filter plugins, placed pods | – | `AdmissionProofs`, §6.3 |
| 7 | `Preemption` | several schedulers preempting on one node through its conditions; composes `NodeFilters` | – | `PreemptionProofs`, §6.4 |
| 8 | `NodeSelectors`, `VolumeMatching`, `AssumeCache`, `VolumeBinder` | volume binding | `AssumedView` | `VolumeBinderProofs`, §6.8 |
| 9 | `NodeScores`, `AffinityScores`, `Selection` | scores, the choice of a node, usage factors | – | `LoopProofs`, §6.9 |
| 10 | `ShortJobScheduler` | the short job scheduler's choice | round robin | `LoopProofs`, §6.9 |
| 11 | `Autoscaler` | votes, `UpdateDeployment` with its conflict retries | – | `LoopProofs`, §6.7 |
| – | `MCLoops` | the parts of stages 1, 2, 9, 10 and 11 that share nothing, in one run | – | – |

What a further stage would add: preemption on more than one node.

## 3. Modules and code

### 3.1 `NodeTreeOps`, `NodeTree`

A tree is a record: `tree` (zone ↦ names and `lastIndex`), `zones`, `zoneIndex`, `numNodes`.
`NodeTreeOps` has each method as an operator on such a record, so that the cache can use it;
`NodeTree` is the state machine of the tree alone (`TreeInit`, `TreeStep`, `TreeSpec`: nodes are
added, moved and removed, and the tree is listed, in any order). `TreeNext` is `next`, with its reset of
exhausted zones; `TreeTake(t, n)` is the loop of `updateNodeInfoSnapshotList`, and `List` the whole of
it, `numNodes` calls (`cache.go:278-298`). The code resets no cursor before a listing. After zone A = a1, a2
was listed and b1 was added in a new zone B, the next listing is b1, a1, b1: zone B is exhausted when
zone A, whose cursor is at its end, is to give its second name, so that both are reset. A node is left
out, another is there twice, and the length is right. `known` is what the cache knows, and the history
`leftOut` what the last listing left out. An update that moves a node
between zones is `TreeRemoveNode` followed by `TreeAddNode`, as in the code, with its early return
when the zone is the same.

### 3.2 `SchedulerCache`, `PodLifecycle`, `CacheSnapshot`

| Variable | Code |
|---|---|
| `store` | `schedulerCache.nodes`, `headNode` with its list, and the global generation |
| `podStates`, `assumedPods` | the maps of these names; a deadline is the number of ticks `left` |
| `sweep` | the keys `cleanupAssumedPods` has still to look at (under the lock; other calls wait) |
| `tree`, `imageStates` | `nodeTree`, `imageStates` (image ↦ nodes) |
| `snapshot` | `Snapshot`: `map`, `list`, `affinity`, `gen` |
| `dead` | the process has panicked (`klog.Fatalf`) |

A `NodeInfo` is a record of its node object, the number of times each pod is counted (a bag, so that
a double count would show), the used ports, the image summary and the generation. Each method is one
action because it holds the lock from beginning to end. `AssumePod`, `FinishBinding`, `ForgetPod` and
the sweep are modelled although the binary does not call the first three, because the package offers
them; in `EventHandlers` only what the binary calls happens. `Deletions` in `UpdateSnapshot` is the
order in which Go walks a map: any set of the right size may go.

`PodLifecycle` is the state diagram of `interface.go:28-58`, one state per pod. `CacheSnapshot` says
what `interface.go:100-102` promises: a snapshot taken at once. `SchedulerCache` is shown to
implement both, with the refinement mappings `Lifecycle` and `Atomic` at the end of the module.

### 3.3 `EventHandlers`

Extends the cache with the two informers: what each of them has shown (`podView`, `nodeView`) and which
pods were added to this process (`listed`). Each informer keeps the order of the events of an object; the
two are not ordered with each other. A missed deletion arrives as a `DeletedFinalStateUnknown`, fails the
type assertion and ends the process; `Restart` starts it with an empty cache. If the pod was created again
under its name before the watch is back, the informer, which keys by name, sees no deletion and delivers
one update between two UIDs: `OnPodRenewed` is `UpdateFunc` (`event_handlers.go:86-97`) called with both.
`UpdatePod` finds the state of the old UID, adds the new pod to its node and leaves `podStates` under the
old key (`cache.go:493-513`). The two are members of `renewed` from then on; the new one's updates and
deletion find no state. `AssumePod` and `FinishBinding` are never called.

### 3.4 `Pipeline`

| Variable | Code |
|---|---|
| `api` | what the API server has under each name: phase, whether the "exceeded" status was written, and `uid`, which numbers the pods created under the name |
| `told`, `workqueue`, `syncing` | the coordinator: the last pod of each name its informer delivered, queue and worker |
| `queue` | the broker's queues as bags (their order is left out: with several consumers it means nothing) |
| `held`, `stale` | the message in a consumer's loop, and those prefetched over a closed connection |
| `tasks` | the goroutines: `SendToQueue`, `bind`, `AddPodStatus`, `WaitAndSend` |
| `up`, `faults` | connections, and how many faults there were |

The loop of a scheduler is `ScheduleProcess` (fetch), `ScheduleFails` or `ScheduleFits` (what `Schedule`
answers is open), `BindInLoop` and `Ack`. `Kind` tells the two schedulers apart: they differ in the test
of the backoff (`>` and `>=`), in what they do to it (nothing, doubling) and in where they bind. Requests
carry names (`handler.go:143`), the objects fetched for them UIDs: a user may delete a pod (`DeletePod`)
and create another one of its name (`CreatePod`, `MaxCreated` times), and a write with the old pod's
object then fails. When both happen in a gap of the coordinator's watch, its informer delivers an update,
and `UpdateFunc` is empty: `CreatePod` counts this as a fault. Messages are not persistent across a
restart of the broker, which is left out.

### 3.5 `NodeSearch`

One call of `Schedule`. The append of a goroutine is broken into the loads and stores that the
compiler produces for it (three loads of the header, the new array, capacity, address, length,
element); memory is sequentially consistent. The filters' outcome is an input (`Worlds`), and so is
whether the cluster is `large`. Appends that overlap may tear the slice, so that its length is not that of
its array. What is behind the end of an array is `Garbage`: nothing is known of it, so that to
dereference it panics or leads to any node, one that failed the filters among them. A store there is
lost, hits another array of the slice, or panics. `result` keeps the entry that the node of an answer was
read from. The counting of `processSubset` is under a lock and is one step; the
caller's reads of counter and length are not.

### 3.6 `NodeFilters`, `InterPodAffinity`, `Admission`

`NodeFilters` has the plugins that look at one node (their node selectors are in `NodeSelectors`),
`InterPodAffinity` the pre-filter and filter of that plugin, and `Admission` runs all of them on
what the cache shows when a pod is placed. Its five actions are a pod's life: `Create`, `Place`
(Schedule and bind), `Show` (the informer's update), `Delete`, `Hide` (the informer's deletion).
Pods of which one was placed while the other was bound but not shown are *blind* to each other: the
scheduler never assumes the pods it has placed (`scheduler.go:83-230` has no call of `AssumePod`),
so nothing can keep such pods apart, and the properties speak of the others. Label selectors are
sets of pairs, taints and tolerations equal pairs, resources small numbers; the arithmetic of init
containers, overhead and reservations is kept.

`shared` is whether the lister given to the plugins lists the nodes that `Schedule` looks at. It does
not in this program: `New` copies the snapshot (`scheduler.go:293-300`), so that `shared` is `FALSE`.
The run `affinity_blind` has this value only. `TRUE` is the wiring the plugin is written for and
that the tests of the plugin use; the two properties about affinity say `shared =>` and so check the
plugin itself. The other properties are checked for both.

### 3.7 `Preemption`

| Variable | Code |
|---|---|
| `phase`, `conditions` | the pods and the node's conditions of type `Preemption` at the API server |
| `queue` | the pods whose request waits in the broker or the retry service |
| `work` | the arguments of the `PreemptionProcess` each scheduler is in, its `step`, and whether the request is still the scheduler's to acknowledge (`owed`) |
| `shown`, `read` | what the pod and the node informer of each scheduler have shown |
| `contested`, `abandoned` | histories: victims with two preemptions at one time; preemptions cut short after their reservation, per victim |

`Place` and `ChooseVictim` are `ScheduleProcess` with what `Schedule` answers on one node: `Missing` is
`fitsRequest` with the reservations, `Preemptable` the test of `getPodToPreempt`. The API calls of
`PreemptionProcess` are one action each, because other schedulers run between them: `Reserve`,
`DeleteVictim`, `Bind`, `Release`. A read and write of the node with its retry on conflict is one step.
`Without` is the loop of `RemovePreemptionInfo`, index by index. A `Delete` that finds no pod panics
(`Panic`); like a crash, this loses the process and its informers' stores, and the broker delivers the
request again. A connection that breaks (`Disconnect`) delivers the request again while the preemption
goes on. A user may delete any pod at any moment (`UserDelete`, recorded in `removed`), also the
preempting one, which `PreemptionProcess` fetches before it chooses the victim and does not look at again
(`processes.go:182-191`). The two informers of a scheduler may be late, each by itself.

How old a reservation is stays open, so that it may count or not whenever it is looked at; no
property depends on its counting. A request that is refused comes back from the retry service and
stays in `queue`; giving it up is in `Pipeline`. The node is there, and no other process writes
conditions of this type. The pod is bound in the step that finds it fits; the goroutine in between is in
`Pipeline`.

### 3.8 `NodeSelectors`, `VolumeMatching`, `AssumeCache`, `VolumeBinder`

| Variable | Code |
|---|---|
| `pvs`, `pvcs` | the volumes and claims at the API server, with their versions |
| `pvCache`, `pvcCache` | the two assume caches: per name the informer's object and the latest one |
| `decisions` | `podBindingCache` |
| `loop` | the pod in the scheduling loop, the nodes it has to look at, those it found usable |
| `bind` | the goroutine of each pod in `BindPodVolumes`: what it is to write and how far it got |
| `revoked`, `twice` | histories: pods deleted before their goroutine began; claims two volumes referred to |

`NodeSelectors` and `VolumeMatching` are pure: which terms match, which volume serves a claim
(`FindMatchingVolume` returns the *set* of volumes it may return, since the list has no order).
`AssumeCache` has the methods of the cache as operators on a function from names to pairs;
`AssumedView` is what the comment on `assumeCache` promises, and `CachesShowAssumedView` is the
refinement. `VolumeBinder` drives them as steps 1.a to 1.e of the comment on `SchedulerVolumeBinder`
say: one loop, and a goroutine per pod whose updates, polls and reverts are one action each, next to
late informers, the PV controller, provisioners and users.

The binary calls `FindPodVolumes` only, for the scheduler neither assumes nor binds volumes
(`scheduler.go:83-230`). The rest of the package is modelled because it is in the repository, with
the caller it documents.

### 3.9 `NodeScores`, `AffinityScores`, `Selection`

`NodeScores` is `Score` of five plugins, `AffinityScores` `PreScore` and `Score` of the sixth.
A score is what `Score` returns: the program never calls `NormalizeScore`. Exponentials are taken
at quarters, which is all that the order of two nodes needs here.

A listing may have a node twice (§3.1), hence `viableNodes`, too: `viable` is how often each node was
found, at most as often as the snapshot lists it (`slots` of a world), and `Entries` are the pairs of a
node and its first, second, … occurrence. `prioritizeNodes` adds scores up by name
(`scheduler.go:250-257`), so that `Total` sums those of all entries of a node.

`Selection` takes a pod, scores the entries in any order (`ScoreNode`), refuses (`NoResults`, a
panic) or chooses (`Select`), and starts `IncreaseNodeUsageFactor`, whose look-up, load, store and
comparison are one action each. The runtime ends a process that it sees use the map while another
goroutine is assigning to it; that is the outcome `ProcessEnds` wherever the two overlap. `PluginsHighest`
is the plugins' own `highestRepeatFactor`: `NewFramework` gives them a pointer to a struct of which
it returns a copy, so theirs stays 1. A world's `listed` are the nodes the plugins' lister lists:
none as `New` wires it, all as the plugin is written for.

### 3.10 `ShortJobScheduler`

`nodes`, `previousNodeIndex`, and of each job its status and node. `Schedule` is the loop over the sorted
list from the index after the last one. The list itself is not built: the place of a name in it
(`PlaceOf`) is the number of smaller names, and the node that is found is the one that suits and that the
loop gets to first (`TriedAfter`). `IndexOutOfRange` is the panic after nodes have gone; `Start` a new
process at a random place. `CheckTaints` counts matches as the code does.

### 3.11 `Autoscaler`

| Variable | Code |
|---|---|
| `api` | every version of the deployment: replicas and who wrote it |
| `lister` | the object in the informer's store, which `UpdateDeployment` changes in place |
| `phase`, `decision`, `obj`, `tries` | where `UpdateDeployment` is, and the object it sends (the lister's) |
| `dataCount` | of the regression plugin |

`Compute` is a round of the main loop with the votes of the four plugins on any reading;
`Modify` and `Send` are the two halves of the retried function, between which users write (`Edit`)
and the informer replaces the lister's object (`Deliver`). The state machine is `ScalerInit`,
`ScalerNext`, `ScalerSpec`.

### 3.12 `MCLoops`

Five parts that share no state are checked in one run. A behaviour is one of a single part (`part`); the
variables of the others keep an initial value, so that the states add up and do not multiply. The fairness
in `MCSpec` is that of the parts. All five are extended, so their names differ (`ChoiceInit`, `ShortInit`,
`ScalerInit`, …). `PodsAnswered`, `OthersAnswered` and `JobsAnswered` are `EveryPodAnswered`,
`ScorablePodsAnswered` and `EveryJobAnswered` of the behaviours that are of the part in question.

## 4. Runs and bounds

| Run | Instance | States | Shows |
|---|---|---|---|
| `handlers` | 2 nodes, 2 zones, 2 pods, 1 image, 1 port, generation ≤ 6, symmetric | 1 190 812 | counting, ports, images and tree follow the informers, with missed deletions, renewed pods and restarts; a snapshot is as long as the tree |
| `unbound_update` | 1 node, 1 pod | – | counterexample, §7 |
| `pipeline` | a general pod that a user may delete and, where the short job is not there, create again, and a short job, a scheduler each, maximum 3, 1 fault: a crash of the coordinator or the general scheduler, a broken connection of the retry service, an API error, a gap of the watch | 578 418 | number of requests, waits, where a request can be lost; what is not lost settles |
| `panic_loses` | 2 pods, 1 scheduler, no fault | – | counterexample, §7 |
| `search` | 3 nodes, small and large, batches of 2 | 1 130 296 | the race loses nodes but never the answer; a wrong answer comes from behind an array's end only; the call returns |
| `large_cluster` | the same | – | counterexample, §7 |
| `admission` | 3 pods of 4 kinds, 2 nodes in one zone, two or none, symmetric | 531 158 | no conflict between pods that were not blind |
| `affinity_blind` | the same, as `New` wires it | – | counterexample, §7 |
| `preemption` | 3 pods, 2 schedulers, 1 node, 1 crash, broken connection, recreation or user's deletion, symmetric | 3 279 507 | reservations are kept and do not pile up; waits end; victims are deleted for pods that wait |
| `volumes` | 2 pods, 2 nodes, 3 claims, 3 volumes, 1 fault or disturbance | 635 179 | no claim is replaced, bound pods reach their volumes, failures leave no assumption, `AssumedView` |
| `loops` | cache: 2 nodes and the nameless one, 2 zones, 2 pods, generation ≤ 4; tree: 4 nodes and 3 zones; choice: 2 or 3 nodes, 2 or 3 pods, 10 worlds; short: 3 nodes, 2 jobs, 3 worlds; autoscaler: 3 versions | 341 411 | the cache's order, freshness, lists and both refinements; the tree and its listings; the best node is chosen; round robin; every pod and job answered; replicas change by one |
| `unscorable` | the choice of `loops` | – | counterexample, §7 |

Why the bounds are enough:

* Cache, in `loops`: `MaxGeneration` bounds the number of changes of a node: 4 allow a node, its
  removal, an addition under the same name and a change after it, with snapshots between any two of
  them, which is what the incremental walk can get wrong; the theorems of §6.1 do without it. `Tick`
  counts down `TTL = 1`: a deadline is ahead or passed.
* Tree, in `loops`: a cursor error needs a zone before and one after the zone that changes, and a
  zone with two nodes. `TreeBound` says that the fourth node and the third zone do not meet: four
  nodes in two zones, or three in three. Nothing else is bounded. `CacheBound` keeps the third and
  the fourth node and the third zone from the cache, which shares these constants.
* Choice, in `loops`: ties need two nodes, a tie with a better or worse one three; two pods make one
  usage count meet the scoring of the other. The worlds have a node to be avoided, one whose capacity is
  no number, preferences that add up to more than 100 on a node or only over both, and a running pod
  that is liked or disliked, listed or not, and a node that is listed twice beside one that is better,
  or as good; more than two slots add no case, since a listing from anywhere passes at most two rounds.
* Short, in `loops`: an index out of range needs one node gone; that a round skips nobody shows with three.
* Autoscaler, in `loops`: with three versions, one that was changed in place can be late by one or
  two; §6.7 does without the bound. The readings lie on both sides of every threshold.
* `handlers`: two nodes and the nameless one are enough for a pod to be counted twice or moved; the
  second pod is for ports, placeholders that must stay, and a deletion that hides another's count.
* `pipeline`: one fault can fall between any two steps. There is a pod for each scheduler because
  they share the coordinator's only worker and the retry service; a maximum of 3 lets the short job
  scheduler double and give up. `MaxCreated = 2` lets the general pod be created again; `MCOneOrTwice` keeps
  the short job out of the behaviours where it is, since what the two names do to each other is
  there without it. The theorems of §6.5 do without these bounds.
* `search`: three goroutines are the smallest number with which a lost append, a second growth of the
  array and an append behind a lowered length all happen; batches of two leave a second batch.
* `admission`: conflicts are between two pods; the third is the one whose removal frees a port that
  is still used, or that makes a pair of terms match together. The four kinds of pods differ in
  ports (empty and given address), in disks (written, read, none), in resources (with and without init
  containers, extended ones, none at all), namespaces and terms; nodes in labels, taints and
  reservations.
* `preemption`: each of the three pods takes most of the node, two of them may preempt the third and each
  other. One deletion by a user can fall between any two steps of the protocol. Two preemptions of one
  victim, one preemption of a pod that came by another, and a victim that is gone when it is deleted all
  happen without a fault. With the conditions that panics leave behind there may be five and more, so that
  the removal meets its victim at every position, and twice.
* `volumes`: two pods race for one volume, share a claim, or need a bound and a provisioned one;
  `MaxTrouble = 1` is one crash, failed update, timeout, deleted pod or claim, anywhere.
  `MaxVersion = 3` lets the PV controller take a volume back once and a second pod write it again.

`CHECK_DEADLOCK FALSE` is in the cfgs where the system stops: at a bound on generations or
versions, after a panic, when every pod has settled or has no victim, when the call has returned.
Symmetry is used in safety runs only.

Every property of a passing run has a mutant: a plausible bug in one mapped definition (the
operators marked *Mutant* in the modules) under which TLC finds the property violated.

## 5. Fairness

* The cache in `MCLoops!MCSpec` (as `SchedulerCache!FairSpec`): `StartSweep`, the sweep's steps and
  `Tick` are weakly fair. The sweep is run by `wait.Until` every second for as long as the process
  lives (`cache.go:694-696`), and time passes. Nothing is assumed of callers.
* `Pipeline!Fairness`, in `FairSpec` and `MCFairSpec`: each service keeps working (`CoordinatorStep`,
  `SchedulerStep(s)`, `RetryStep`), which stands for the Go runtime and an API server that answers; a
  broken connection is made again (`gps/main.go:214-247` loops until it is). Weak fairness of a whole
  service is less than fairness of each of its goroutines. Nothing is assumed of users, faults or what
  `Schedule` answers: a pod that is never schedulable settles by being given up.
* `NodeSearch!FairSpec`: the caller, which spins, and each goroutine go on; the Go scheduler preempts
  loops since 1.14 and runs goroutines on several threads before.
* The choice in `MCSpec` (as `ChoiceFairSpec`): the loop of the scheduler goes on, and so does the
  goroutine of each pod that counts its node. The loop is fair as a whole: which message is taken is up
  to the broker. That every pod gets a node does not need more, as a pod with a node is not taken again.
* Short in `MCSpec` (as `ShortFairSpec`): a process that ended is started again, and no
  waiting job is passed over for ever, since the broker delivers in order. A list that shrinks again and
  again can end every process, so `EveryJobAnswered` supposes that the nodes come to rest.
* The autoscaler, the tree and the volume binder have no fairness: their properties are about safety.
* `Preemption` has no fairness: its `AwaitedPodsEnd` is the safety side of "the poll ends", the rest
  being that kubelets end the pods that are deleted.

## 6. Proofs

### 6.1 The cache

The first half of `CacheProofs` (with `ListTheorems` on removing from and adding to sequences) proves
about `SchedulerCache`, for any sets of nodes, zones, pods, images and ports, any TTL and any bound:

| Theorem | Statement |
|---|---|
| `TypeCorrect` | `Spec => []TypeOK` |
| `ListOrder` | `Spec => []ListSorted` |
| `SnapshotNeverStale` | `Spec => []SnapshotFresh` |
| `AssumedPodsHaveState` | `Spec => []AssumedHaveState` |
| `SnapshotImplementsAtomic` | `Spec => SnapshotIsAtomic` (refinement of `CacheSnapshot`) |
| `PodsFollowLifecycle` | `Spec => FollowsLifecycle` (refinement of `PodLifecycle`) |
| `SnapshotListsStayExact` | `Spec => []SnapshotListsExact` |

and the lemma `InvariantHolds` under them. The inductive invariant `IInv` has three parts:

* `StoreOK`: the types; the list holds each name of the map once, in strictly decreasing generation,
  and no generation exceeds the counter. Sortedness is not inductive without the last part, since a
  node that moves to the head must be newer than all.
* `SnapshotOK`: the snapshot's generation is at most the counter, and a node not newer than it is in
  the map unchanged. Freshness needs that a node which is removed and added back gets a new
  generation, which is where the counter is global.
* `StatesOK`: assumed pods have a state, and the sweep has only keys of assumed pods left. The second
  is what makes the sweep safe: the lock keeps others from dropping a state in its middle.

Each method has a lemma that it preserves `IInv`, built from facts about what the store's operations
do (`StoreAdvances`: every entry that changes gets a generation above all others). The refinement of
`CacheSnapshot` then follows from `SnapshotTaken`: after `UpdateSnapshot` nothing is newer than the
snapshot, hence all of it is fresh. The proof uses the assumptions the modules state (`Null` and
`NoNode` are no names, and so on) and, of sequences and finite sets, the library's theorems.

`SnapshotListsStayExact` needs a second invariant, `ListInv`: the tree is well formed (in its zones'
arrays each name once, the list of zones is that of the map: `TreeOK`), it counts its names
(`TreeCounted`), the snapshot's map is finite, and the property. An update that keeps its list must not
have dropped an entry of the map; it drops as many as there are too many, and because the map is
finite, dropping none leaves it as it was. Lists made again hold what a walk over the tree brings
back: the lemmas up to `WalkOK` follow `next` through exhausted zones and resets, from any position
of the cursors, and show that every call brings a name of the tree. The loops of the code that make
lists are recursive functions on `0..k`; what they compute is proved by induction on `k`, stated on
the set of indices at which a claim holds (`UpTo` in `ListTheorems`), which needs none of the
library's induction theorems.

The tree alone has three theorems, over `NodeTree` and with no bound on its use:

| Theorem | Statement |
|---|---|
| `NodeTreeInvariant` | `TreeSpec => []TreeInv` (`TreeOK`, cursors within bounds, and the arrays follow the known nodes) |
| `TreeMatches` | `TreeSpec => []TreeMatchesNodes` |
| `LeftOutAreNext` | `TreeSpec => []LeftOutComesNext` |

`LeftOutComesNext` is about two listings with changes in between: what the first leaves out is in the
second, unless a node was removed or moved. The proof follows `Remaining`, the set of the names that
the cursors have still to pass. Each call of `next` takes one name out of it until it is empty, and the call
after that resets all cursors, which makes it the set of all names. A listing makes as many calls as
there are names, so that it brings all that remained, and what it does not bring remains after it
(`ListingTakesRemaining`). An addition goes behind every cursor's position and takes nothing out
(`AdditionKeepsRemaining`). So `LeftRemains`, that what was left out remains, is the invariant. A removal
breaks it: later names move up past a cursor that stays where it is.

### 6.2 The handlers and the cache

The second half of `CacheProofs` proves about `EventHandlers`, for any sets of nodes, zones, pods,
images and ports, with missed deletions, pods renewed by one update, and restarts:

| Theorem | Statement |
|---|---|
| `PodsCountedAtMostOnce` | `HandlersSpec => []CountedAtMostOnce` |
| `OnlyBoundPodsAreCharged` | `HandlersSpec => []ChargedPodsAreBound` |
| `CachedPodsFollowInformer` | `HandlersSpec => []CachedPodMatchesInformer` |
| `TakenPortsHaveUsers` | `HandlersSpec => []PortsHaveUsers` |
| `NodesFollowInformer` | `HandlersSpec => []NodesMatchInformer` |
| `SnapshotsHaveLength` | `HandlersSpec => SnapshotHasLength` |

Every step of the handlers that reaches the cache is one of its methods, so that `IInv` and `ListInv`
of the cache hold here too (the latter while the process lives). Two invariants are added.

* `HInv`: no pod is assumed; the pods the cache knows are the listed ones, each with the node the
  informer last showed; a count above 0 is that of a listed pod on its node or, on the placeholder
  without a name, of a pod that was shown without one; the ports. No part is inductive
  alone: that a pod is not counted twice when it is added needs that it is counted nowhere while it
  is not listed, and that is true only because a removal finds the pod where the cache's object of
  it says, which is where the informer last showed it. Of a renewed pod it says that it has no state
  while it is listed (`PodRenewedKeeps`), which is all that its updates and its deletion need to change
  nothing (`RenewedUpdateKeeps`, `RenewedDeleteKeeps`); that it is counted once at most holds of it as well.
* `TInv`: the tree has the informer's nodes in their zones, each image has the nodes that report it.
  It goes through the removal of a node that still has pods, whose entry stays as a placeholder
  while its name leaves tree and images.

`SnapshotHasLength` combines both with `ListInv`: the list is as long as the tree because every name
in the tree is a node of the cache, hence in the snapshot's map after it was brought up to date, or
because the error path made it again.

### 6.3 What the filters admit

`AdmissionProofs` proves about `Admission`, for any pods, nodes and shapes of both:

| Theorem | Statement |
|---|---|
| `AwarePodsFit` | `Spec => []RoomUnlessBlind` |
| `AwarePodsShareNothing` | `Spec => []NothingSharedUnlessBlind` |
| `AwarePodsKeepAway` | `Spec => []AntiAffinityUnlessBlind` |
| `PlacedByAffinity` | `Spec => AffinityWhenPlaced` |

The invariant `AInv` adds to the properties the types and `PortsTaken`: on a node where no two pods
have shown one port, the used ports include those of every shown pod and no two shown pods have
one. It is the second half that makes the first survive a deletion, which takes the ports of the
pod that goes out of the set. `PlaceKeeps` is the heart: a pod that runs on the chosen node is
either shown, and then a filter has compared the two (`ShownPodsApart`, `ShownTermsKept`), or in
flight, and then in the `blind` set that `Place` writes. `PairsStay` says that what the properties claim of two
pods depends on nothing that other steps change. The anti-affinity of a pod to one that is
shown goes through sets of label pairs, over all nodes of the cluster and not only the chosen one.

`AwarePodsFit` is about sums. `RoomUnlessBlind` adds up, for any set of running pods that know of each
other, the largest stage of each; the invariant `RoomKept` adds up what the filters do, `PodRequest`.
`RequestFacts` shows that the two are the same: the loops over containers and init containers are
left folds of the library, which the proof unfolds into a function on the index sets `1..k`
(`AddedSteps`, `LargestSteps`), and `AddedAll` and `LargestAll` say what is in it at each `k`.
`PlaceRoom` is the step that matters: of a set that knows of each other all but the pod being placed
are shown, so that what `NodeResourcesFit` adds up is at least their sum. This needs that running
pods and reservations are finitely many and that no amount is negative, since a negative one would
make a part weigh more than the whole. A set of pods loses or gains one element by `SumSplit`, and a
part sums to no more than the whole by `SumBelow`, both in `ListTheorems` and proved there by
induction over the subsets of a finite set (`SubsetsUpTo`).

`AdmissionAssumption` says what a container port is, that no node is called `Nil`, that amounts are
natural numbers, as the API server enforces, and that a node has finitely many reservations.

### 6.4 Preemption

`PreemptionProofs` proves about `Preemption`, for any sets of pods and schedulers, any requests,
priorities and node, and any number of faults, recreated pods and pods deleted by users:

| Theorem | Statement |
|---|---|
| `AwaitedEnd` | `Spec => []AwaitedPodsEnd` |
| `EvictionsServePending` | `Spec => EvictedForPending` |
| `ReservationsBounded` | `Spec => []ReservationsHaveHolders` |
| `ReservationsStayTillBound` | `Spec => []ReservationKept` |

and `Inductive` under the first two, neither of which is inductive by itself. A victim that is deleted
must end, so it must not be a pod that waits for its first node: the invariant has that whatever an
informer has shown running *has run* (`ShownHaveRun`), and so has every victim. That the preemptor still
waits when its victim is deleted needs that it cannot have been bound by anybody else: while nothing went
wrong, a pod's request is in the queue or with one scheduler (`OneOwner`), pods in the queue and those
being deployed wait (`QueuedWait`, `PreemptorsWait`). A pod that a user deleted waits no longer, and a
preemption under way for it goes on: it is the exception the property makes. All that is claimed while
`Undisturbed`; `UndisturbedBefore` shows that no step leads back to it.

The reservations have an invariant of their own, `ReservationInv`: besides the two properties, the
preemptions that go on are finitely many, and a victim of two of them is contested (`OnePreemptor`),
since `ChooseVictim` records it. What `Release` does rests on `WithoutFacts`, about the loop that swaps
the last condition into the place of a removed one and does not look at it there: it leaves no more
entries of any victim, fewer of the one it is called for if there are any, and all of the others.
`DroppedFacts` says it of one round, by an injection of the entries that are left into those that
were; `WithoutSteps` unfolds the fold into rounds. That fewer are left, and not none, is exactly what
`ReservationsHaveHolders` needs: `Release` ends one preemption.

### 6.5 The services

`PipelineProofs` proves about `Pipeline`, for any set of pods and finite set of schedulers, any
maximum and any number of faults:

| Theorem | Statement |
|---|---|
| `WaitsBounded` | `Spec => []WaitsWithinMaximum` |
| `DuplicatesBounded` | `Spec => []DuplicatesNeedFaults` |
| `RequestsAreKept` | `Spec => LostOnlyByFaults` |

`WaitsWithinMaximum` speaks of the requests that wait in the retry service; the test that bounds them was
made by a scheduler, before a send, two queues and any number of redeliveries. The invariant therefore
says of every place a request can be at what requests are there:

* `QueueOK`, `HeldOK`, `StaleOK`: the retry queue, the message in the retry service's hand and those
  it prefetched hold requests that passed the test of their scheduler; a scheduler's hold requests
  of its own kind, with any backoff, since the retry service has squared them.
* `TasksOK`: the same of the requests that goroutines carry, and what `SendToQueue` carries has
  passed the test.

The kinds are needed because the schedulers test differently: a general pod's request that the short
job scheduler handed on, doubled, would escape the bound. `HandedOn` and `SentBack` are the two steps that
change a backoff. For the proof, `Pipeline` defines what a consumer may have prefetched
(`Prefetched`) as functions on a subset of its queue, and not by the library's recursive `SubBag`.

How many requests a name has under way (`Outstanding`) is not inductive: copies that a closed
connection leaves behind count only when they are taken, and the coordinator has requests still to make, one
for each pod its informer has not delivered (`New`), after a restart for all of them. `Counted` bounds
`Ahead(p)`, the sum of the three, by 2^n (c + 1) - 1 after n faults and c pods created under the name. Without a
fault this is c, one request for each pod. `StepCounts` says of every step and every name that it is
one of two kinds:

* `Kept`: no fault, and `Ahead` does not grow, or by one with the creation of a pod. A step of a consumer
  moves one request between a queue, the message in hand, a goroutine and the stale copies;
  `ChangesBalance` adds up what it takes and gives.
* `Failed`: one more fault, and `Ahead` at most doubles and grows by one. A closed connection may
  leave a stale copy of everything in a queue (`PrefetchedFacts`), and the broker delivers again the
  message in hand, whose request may have gone on already.

The sums over bags rest on `TotalAdd` and `TotalRemove` and on the sums of `ListTheorems`; that the
recursive function `Twice` has the values its definition says is `TwiceFacts`.

`LostOnlyByFaults` counts nothing. A pod is `Tracked` when the coordinator has still to be told of it or
some place `HasRequest` for it, where the message in hand and the goroutines count only if they serve the
pod there is and not an earlier one of its name (`Fetched`, `Serves`). `StepKeeps` shows that a step
leaves it tracked or is `Excused`: a fault, a retry service without a connection, or a pod that is settled
afterwards. It goes through the places one by one (`CoordinatorKeeps`, `SchedulerKeeps`, `RetryKeeps`);
the bind that takes a request away for good settles its pod if the object is that pod's (`BindSettles`).

### 6.6 The search for a node

`NodeSearchProofs` proves about `NodeSearch`, for any number of nodes, any outcome of the filters and
any `NumViable`:

| Theorem | Statement |
|---|---|
| `SearchFindsWhatFits` | `Spec => []FoundIfFits` |
| `RightAnswer` | `Spec => []AnswerIsRight` |

Unlocked appends lose nodes, leave arrays behind and lower the length; the invariant says what
survives that.

* `LengthOK`: as long as the length is 0, no goroutine of a node that fits has got past the store of
  the length. Nobody ever stores 0, so that the first such goroutine to finish settles it.
* `MemoryOK`, `GoroutinesOK`: an entry of any array, current or left behind, that is a node is a
  wanted one, since only goroutines of wanted nodes append and a new array copies old entries.
* `NoneSkipped`: a node that is neither on the list nor in the batch has a goroutine that is done.

That the answer names such a node needs one more thing from the code: `prioritizeNodes` dereferences
every entry and the search for a victim every entry it passes, so that an entry never written is a
panic and never an answer. An entry from behind the end of an array is the exception the property makes: it
may lead to any node. What the theorem says of it is that no other entry does, and that even then no
victim is named while a node fits, because the length is not 0 then (`LengthOK`). That the call
returns is not part of the theorems; TLC checks it.

### 6.7 The autoscaler

`LoopProofs` proves `OneReplicaAtATime`: `ScalerSpec => []StepsByOne`, for any readings, bounds and
number of versions. `StepsByOne` speaks of versions written, and is not inductive, since the object
that is sent may have been changed any number of times. The invariant adds `ListerTrue`, that the
lister's object has the replicas of the latest version if it has its number, unless it is the one
being sent, and `SentByOne`, that an object the API server would take is one step from what it
replaces. An object that was changed twice is old: between the two changes lies a conflict.

### 6.8 The volume binder

`VolumeBinderProofs` proves about `VolumeBinder`, for any pods, nodes, volumes, late informers and
faults, and any finite set of claims:

| Theorem | Statement |
|---|---|
| `CopiesFollow` | `Spec => []BInv` (the invariant below) |
| `ClaimRefsNeverStolen` | `Spec => ClaimRefsNotStolen` |
| `CachesImplementView` | `Spec => CachesShowAssumedView` (refinement of `AssumedView`) |
| `AssumptionsDoNotLeak` | `Spec => []NoAssumptionLeaks` |
| `VolumesOfPodsReachable` | `Spec => BoundVolumesReachable` |

A volume object is read by `FindPodVolumes` on one node, kept with the decision, assumed with a
claimRef, handed to a goroutine and written much later, while informers, the PV controller and other
goroutines go on. `BInv` follows it: what the cache, a decision or a goroutine holds of a volume
`VolumeFollows` what is newer, which means that it is an older version, or the same version with a
claimRef added at most, to an empty one or for the claim that is there already. So the object of an
update either has an old version, which the API server refuses, or goes with a claimRef that is
empty or the same. This is all that `ClaimRefsNotStolen` needs of eleven actions and two caches.

The refinement needs besides that no object is newer than what the informer has shown, so that
`Assume` never changes a version (`AssumeAllFacts`, with the fold over the items unfolded into a
function as in §6.3); that what is assumed is not what is shown, or an assumption would count as
none (`BoundForClaim`: a volume is dirty only if it differs from the one shown); and that a failure
restores all that was assumed before it (`RestoredAfter`). `MatchesAnswer` is about the nested search
of `findMatchingVolumes`: whatever the sort leaves, and whichever of equal volumes is returned, what
is found refers to no claim or to this one, and every claim is bound or left over.

`NoAssumptionLeaks` is about what nobody would ever clean up. The invariant `LInv` keeps the reason of
each assumption (`Excused`): a pod it was made for has it in flight, or a newer version was written,
or the pod was deleted before its goroutine began. A step moves one pod and leaves the others as they
are (`OthersSame`), so that a reason can only be lost by the pod it names. When its goroutine ends by a
failure, what it had not written is restored; when it is through, each object must have got a new
version. That a write is a real change, and not one the API server ignores, follows from two facts
that several other pods could break: what is to be written refers to its claim completely
(`WorkComplete`), and an object that does so at the informers is never assumed (`FullIsFinal`).

`BoundVolumesReachable` joins the check on the first node to the result of a check made much later.
Its invariant `RInv` says of each pod on its way, at every stage, that each of its claims is among what
it is to write, or has a volume that its node reaches (`LoopCovers`, `BindersCover`); this begins with
`FindPodVolumes` answering for all claims (`FoundCovers`). Such a claim stays as it is: no step changes
the volume of a claim that has one, not even the late write of a goroutine, whose object has an
old version or the same volume (`BinderClaimsFollow`, `ClaimVolumesStay`). A claim the pod had to write
is seen bound by `checkBindings`, which looked at the chosen volume and not at the claim's. They are
the same when the volume is the only one that refers to the claim, which holds from the write on
(`WrittenAlone`) unless a second volume was written for it, and that one is recorded in `twice`.
So the exception in the property is exactly what the proof cannot do without.

`VolumeAssumption` says that claims are finitely many and no volumes, that nothing is called `Nil`,
and what a world is.

### 6.9 The choice of a node and the round

`LoopProofs` proves, for any nodes, pods, scores, jobs and settings:

| Theorem | Statement |
|---|---|
| `NoBetterNode` | `ChoiceSpec => BestIsChosen` |
| `UnusedGoFirst` | `ChoiceSpec => UnusedNodesFirst` |
| `JobsGoRound` | `ShortSpec => RoundRobin` |

`BestIsChosen` is about an index and about sums. `DrawnIsBest`: results that descend from one to the next
descend from any to any later one, so the best of them are the first ones, and an index below their
number is one of theirs. This needs that a total is a number (`TotalOfSix`), hence the six scores in range.
A node `Beats` another when each of its entries has a better score than any of the other's; that a node which
beats another and was found as often has the greater total (`BeatenInTotal`) goes entry by entry
(`SumGreater` in `ListTheorems`), the entries it has more adding nothing negative (`TotalNotNegative`). Of a
node found less often nothing is claimed: its total has fewer parts.

`UnusedNodesFirst` relates a score to counts that other goroutines change meanwhile. `ChoiceInv` says of
each score that it was made of a count its node had since the pod was taken (`CountedSince`), and that
a count on its way to the map is not 0 (`CountsGrow`): a store may undo others, but never makes a used
node an unused one (`UsedStays`). So every entry of a node that was used when the pod was taken got 0 from
`RepeatPriority`, and every entry of a node without a pod gets 100, with the rest of the scores equal
(`UnusedIsBetter`): the unused one beats it.

`RoundRobin` follows from `RoundIsLast`: a node that suits and that the loop would get to after a node
of the round is in the round. When the loop stops at a node of the round, all that suit come later, so
all are in it. That a step keeps this is arithmetic modulo the number of nodes (`GoneRound`): from the
new place each node is nearer by as many as the loop went past, and the one it stopped at is last.
The proof has no bound on how often nodes change or the process ends; both begin a new round.

`SelectionAssumption` says that a world has finitely many nodes, that `None` is neither a pod nor a
node, and that the scores that stand for errors are no numbers; `ShortJobAssumption` that names are
finitely many positive numbers, 0 being none.

### 6.10 Checked by TLC only

The liveness properties (`PodsSettleUnlessLost`, `CallReturns`, `DueIsReleased`, `PodsAnswered`,
`JobsAnswered`) are beyond the prover. All other properties of the passing runs are theorems.

Every invariant of a proof (`TreeInv`, `ListInv`, `AInv`, `HInv`, `TInv`, `ReservationInv`, `BInv`,
`LInv`, `RInv`, `ChoiceInv`, `ShortInv` and the others) was found to hold on the instances of the runs
before it was proved.

## 7. What the runs say about the code

Five runs end in a counterexample. Each one contradicts a comment or message of the repository.

* **`unbound_update`** — `cache.go:427-429` says an update that finds no node is harmless because a
  creation always comes first. A pod is created without a node and the placeholder its creation makes
  is the nameless one; when its binding arrives before its node does, `updatePod` returns early, and
  the node that arrives later is never charged for the pod.
* **`panic_loses`** — `AddPodStatus` writes the object it was handed before scheduling. If the pod
  has changed, it panics, and the process ends with the goroutine that was to send another pod's
  request to the retry service. Nobody sends it again, although the pod's event says it is retried.
* **`large_cluster`** — the search for a victim runs on the list that the first search of a cluster
  of more than 50 nodes has emptied, so that preemption never happens there.
* **`affinity_blind`** — the plugins' lister lists no node, because `New` keeps a copy of the
  snapshot it gives them: no required affinity or anti-affinity between pods is found.
* **`unscorable`** — "All scoring plugins must return success or the pod will be rejected"
  (`framework/v1alpha1/interface.go:294-295`). A preferred node affinity whose weights add up to more than 100
  makes `RunScorePlugins` fail (`framework.go:445`), the empty result is indexed (`scheduler.go:193`), and the
  process ends with the message unacknowledged: the pod is delivered again instead of rejected, and the
  pods behind it may never get a node. `EveryPodAnswered` speaks of worlds without such a pod (`Scorable`).

Seen while modelling, without a run of their own:

* The retry service acknowledges before it waits, and sends once (`retry/main.go:180-204`): a stop or
  a broken connection at the end of the wait loses the request. `LostOnlyByFaults` says exactly this.
* A pod that is deleted and created again while the watch is broken stays charged for ever: the cache
  counts the new UID under the state of the old one (`event_handlers.go:86-97`, `cache.go:493-513`), and
  the deletion of the new one finds no state (`cache.go:544`). `ChargedPodsAreBound` leaves such pods out
  (`renewed`).
* The coordinator makes no request for such a pod: the informer delivers an update, and `UpdateFunc` is
  empty (`coordinator/main.go:214`). A pod created again without such a gap has two requests
  under way with no fault at all, its predecessor's and its own, since both carry its name
  (`handler.go:143`); `DuplicatesNeedFaults` counts the pods created.
* A snapshot may list a node twice and leave another out (§3.1; `cache.go:283-288`, `node_tree.go:147-169`). The
  lengths agree and nothing is repaired, so that no pod goes to the node left out before the list is made again.
* A node that was found twice gets the sum of both scores (`scheduler.go:250-257`) and is chosen over
  better ones, a used one over unused ones; `BestIsChosen` and `UnusedNodesFirst` compare it only with
  nodes found as often.
* When appends of `processFullset` tear the slice, an entry from behind the array's end may be the
  address of a node that failed the filters (`scheduler.go:366-367`, `470`), and `Schedule` may answer it;
  `AnswerIsRight` says that nothing else leads to a wrong answer.
* `PreemptionProcess` does not look at the preempting pod again: when a user has deleted it since the
  victim was chosen, the victim is deleted for nothing (`processes.go:182-191`), the bind fails without a
  consequence and the reservation is released (`199-200`).
* A late pod deletion is called harmless (`cache.go:436-438`). When the node was removed and another
  pod has made a placeholder for it since, `NodeInfo.RemovePod` does not find the pod and formats its
  error with the name of a nil node (`types.go:433`): the process panics, and is restarted with an
  empty cache (`RemoveOutcome` in `SchedulerCache`, `Restart` in `EventHandlers`).
* Nothing in the binary assumes pods, though `types.go:264` says the sums include assumed pods.
* Used ports are a set: after two pods shared a port (both were in flight), removing one frees it
  (`NothingSharedUnlessBlind` excludes such nodes for ports, in `doubled`).
* The first pod of a series with affinity to itself passes when no topology pair was counted; a
  matching pod on a node without the label is not counted (`AffinityWhenPlaced` says so).
* The entry of a deleted node stays in the snapshot's map while a placeholder hides the deletion from
  the comparison of sizes; `CacheSnapshot` therefore allows lingering entries.
* The retry service squares the backoff and the short job scheduler doubles it; a short job may wait
  32 seconds under a configured maximum of 20. In 64 bits the sixth squaring of 2 gives 0; the test
  against the maximum comes before it for every maximum in use.
* The search for a victim compares requests with all the node has (`scheduler.go:585-586`), although
  its comment says "Ensure pod resources and free resources on the node is enough"; CPU is not looked
  at. A victim may be deleted for a pod that then has no room.
* "Do not preempt a pod that is used to preempt another pod" (`scheduler.go:548`) holds only if the
  node informer has shown the reservation: two schedulers delete one victim for two pods and bind
  both. The first to finish may then remove the reservation of the other (`contested`).
* A scheduler whose pod informer is late chooses a victim that has gone, and panics on `Delete`. Its
  reservation stays in the node's conditions, where the victim's name, which a stateful set uses
  again, is kept from preemption for ever, since `getPodToPreempt` does not look at the age.
* After a crash the request of a pod that is bound already is scheduled again, since nothing looks at
  its node: it may cost another pod its place, or the pod itself. Pods of equal priority preempt
  each other.
* A pod created again under its victim's name keeps `PreemptionProcess`, and with it the scheduler's
  only loop, polling (`processes.go:194-206`); a late scheduler may delete the new pod, since the
  `Delete` names no UID.
* The random choice among the best nodes never takes the last of them (`scheduler.go:206`).
* Since `NormalizeScore` is never called, a node with more taints that the pod does not tolerate has the
  higher score, and the sums of inter-pod affinity, which `scoring.go` says are normalized later, would
  be refused when negative if the plugin's lister listed anything.
* `RepeatPriority` sees a highest count of 1 for ever: every node that was used scores 0.
* `IncreaseNodeUsageFactor` writes a map without a lock while scores are computed: the Go runtime
  may end the process. The message comes again, but the counts are lost.
* `bindAPIUpdate` returns before its deferred revert exists when the pod has been deleted since
  `AssumePodVolumes` (`scheduler_binder.go:440`): the assumption stays (`revoked` in
  `NoAssumptionLeaks`). It does not cache the object an update returned, and reverts by name.
* `AssumePodVolumes` does not look at the node again when all claims are bound by then; a pod that is
  deleted and then assumed gets a new entry of decisions that nobody removes.
* `checkBindings` asks whether a claim is bound, not to which volume (`twice` in
  `BoundVolumesReachable`).
* The short job scheduler's index may be out of range after nodes have left: it panics and starts
  elsewhere.
* The short job scheduler counts: `checkTaints` compares the number of matches of a toleration and a
  `NoSchedule` taint with the number of all taints (`short_job_scheduler/scheduler.go:129-148`). Two
  tolerations of one taint, with and without an effect, make up for a second taint that nothing tolerates;
  they make a node refused that has the first taint only; and a taint of another effect is never matched.
* The autoscaler changes the lister's object in place; a failed update leaves the store of the
  informer wrong until the next event. The votes "do not scale" are not counted, `calProb` names its
  parameters the other way round, the queueing formula is positive near capacity only, and the regression
  takes no pending pods for a deviation. The name of the default queue in the configuration file is never
  stored (`autoscaler/main.go:89-123`).
* A pod that is given up is scheduled again when the coordinator restarts.
* `updateWithPod` of the affinity plugin is never called.

## 8. What is not modelled

* *Score formulas* in floating point: exponentials are taken at quarters, sizes as small multiples.
* *The regression's prediction* is an input of the autoscaler's model.
* *Translation of in-tree volumes to CSI* and volume metrics.
* *Preemption on several nodes at a time*: the conditions of each node are its own.
* *Generated conversions and copies under `scheduler/config`*, feature gates, and helpers of
  `k8s.io/` that nothing modelled calls.
* *Experiment service, metrics, configuration, events, logging*: output only.
* *The API server, the broker and the informers*: external; modelled by what the code uses of them.
* *One connection, two goroutines*: `SendToQueue` goroutines and the main loop call `Connect` on one client
  without a lock (`communication/communications.go:142`); a connection is up or down here.
* *Memory behind arrays*: a store there changes no variable but the arrays of the slice.
* *Weak memory*: the races in `NodeSearch` are modelled on sequentially consistent memory.
