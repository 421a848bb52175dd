---------------------------- MODULE VolumeBinder ----------------------------
(***************************************************************************)
(* The volume binder under the caller its comment describes (steps 1.a to  *)
(* 1.e): a loop that takes one pod at a time through FindPodVolumes on     *)
(* every node and AssumePodVolumes on one, and a goroutine for each pod    *)
(* that does BindPodVolumes meanwhile.  Around it are the API server with  *)
(* its versions, late informers, the PV controller and users.  The binary  *)
(* of this repository gets no further than FindPodVolumes.                 *)
(***************************************************************************)
EXTENDS AssumeCache, VolumeMatching

CONSTANTS
    Pods, Nodes, Claims, Volumes,
    Worlds,          \* choices of uses and existing
    MaxTrouble,      \* bound: faults, and disturbances by users
    MaxVersion       \* bound: a volume of this version is not unbound again

(* A world gives each pod its claims, finitely many, and to some of the    *)
(* volumes that exist a claim their claimRef names.                        *)
ASSUME VolumeAssumption ==
    /\ MaxTrouble \in Nat /\ MaxVersion \in Nat
    /\ IsFiniteSet(Claims) /\ Volumes \cap Claims = {}
    /\ Nil \notin Pods \cup Nodes \cup Claims \cup Volumes
    /\ \A w \in Worlds :
          /\ w.uses \in [Pods -> SUBSET Claims] /\ w.existing \subseteq Volumes
          /\ \A v \in DOMAIN w.prebound : w.prebound[v] \in Claims

VARIABLES
    uses,            \* the claims of each pod (never changes)
    pvs, pvcs,       \* the volumes and claims at the API server
    pvCache, pvcCache,
    decisions,       \* podBindingCache: pods, then nodes, to a decision
    loop,            \* the pod the scheduling loop is at, the nodes it has to
                     \* look at and those it has found usable
    bind,            \* the goroutine of each pod in BindPodVolumes
    bound,           \* the node of each pod whose volumes are bound, or Nil
    deleted,
    process,         \* how many times the scheduler was started again
    trouble,
    revoked,         \* history: pods deleted between AssumePodVolumes and
                     \* BindPodVolumes
    twice            \* history: claims that two volumes referred to at a time

api    == <<pvs, pvcs>>
caches == <<pvCache, pvcCache>>
pods   == <<bound, deleted, revoked, twice>>
vars   == <<uses, api, caches, decisions, loop, bind, pods, process, trouble>>

Idle == [pod |-> Nil, left |-> {}, fit |-> {}]
None == [stage |-> "none"]

NewVolume == [claim |-> Nil, full |-> FALSE, ours |-> FALSE, phase |-> "Available", version |-> 1]
NewClaim  == [volume |-> Nil, completed |-> FALSE, selected |-> Nil, version |-> 1]

Listed(objs) == [x \in DOMAIN objs |-> Both(objs[x])]

Init ==
    /\ \E w \in Worlds :
         /\ uses = w.uses
         /\ pvs = [v \in w.existing |->
                     [NewVolume EXCEPT !.claim = IF v \in DOMAIN w.prebound THEN w.prebound[v] ELSE Nil]]
         /\ pvcs = [c \in UNION {w.uses[p] : p \in Pods} |-> NewClaim]
    /\ pvCache = Listed(pvs) /\ pvcCache = Listed(pvcs)
    /\ decisions = <<>> /\ loop = Idle /\ bind = [p \in Pods |-> None]
    /\ bound = [p \in Pods |-> Nil] /\ deleted = {} /\ revoked = {} /\ twice = {}
    /\ process = 0 /\ trouble = 0

-----------------------------------------------------------------------------
(* podBindingCache                                                         *)
GetDecisions(p) == IF p \in DOMAIN decisions THEN decisions[p] ELSE <<>>

HasDecision(p, n) == p \in DOMAIN decisions /\ n \in DOMAIN decisions[p]

UpdateBindings(p, n, bindings, provisionings) ==
    decisions' = Put(decisions, p, Put(GetDecisions(p), n,
                        [bindings |-> bindings, provisionings |-> provisionings]))

ClearBindings(p, n) ==
    decisions' = IF p \notin DOMAIN decisions THEN decisions
                 ELSE [decisions EXCEPT ![p] = Restrict(@, DOMAIN @ \ {n})]

(* Decisions that nobody reads again are left out; that the pod has an      *)
(* entry counts.                                                           *)
Spent(p) == IF p \in DOMAIN decisions THEN [decisions EXCEPT ![p] = <<>>] ELSE decisions

DeleteBindings(p) == decisions' = Restrict(decisions, DOMAIN decisions \ {p})

-----------------------------------------------------------------------------
(* FindPodVolumes                                                          *)
LatestClaim(c)  == GetLatest(pvcCache, c)
LatestVolume(v) == GetLatest(pvCache, v)

ListPVs(class) ==
    [v \in {x \in DOMAIN pvCache : VolumeSpec(x).class = class} |-> LatestVolume(v)]

(* The pod's claims, as getPodVolumes sorts them.                          *)
PodVolumes(p) ==
    LET full == {c \in uses[p] : IsPVCFullyBound(LatestClaim(c))}
        delayed == {c \in uses[p] \ full : IsDelayBindingMode(c) /\ LatestClaim(c).volume = Nil}
    IN  [bound |-> full, toBind |-> delayed, immediate |-> uses[p] \ (full \cup delayed)]

(* Error when a volume is not known, else whether the node reaches all.    *)
CheckBoundClaims(claims, n) ==
    LET volumes == {LatestClaim(c).volume : c \in claims}
    IN  IF ~(volumes \subseteq DOMAIN pvCache) THEN "error"
        ELSE IF \A v \in volumes : CheckNodeAffinity(v, n) THEN "yes" ELSE "no"

Nothing(code) == [code |-> code, bindings |-> <<>>, provisionings |-> <<>>]

Selected(claims) == {c \in claims : LatestClaim(c).selected # Nil}

(* Claims that have a selected node already keep it, the others are bound  *)
(* to volumes as m says, or else provisioned if all that need it can be.   *)
WithProvisions(m, claims, n) ==
    LET provision == SetToSeq(Selected(claims)) \o m.unbound
        can == CheckVolumeProvisions(provision, n)
    IN  IF provision = <<>> \/ can = "yes"
        THEN [code |-> "yes", bindings |-> m.bindings, provisionings |-> provision]
        ELSE [code |-> can, bindings |-> m.bindings, provisionings |-> <<>>]

ListsFor(claims) == [k \in {ClaimSpec(c).class : c \in claims} |-> ListPVs(k)]

FindForUnbound(claims, n) ==
    IF \E c \in Selected(claims) : LatestClaim(c).selected # n THEN {Nothing("no")}
    ELSE {WithProvisions(m, claims, n) :
             m \in FindMatchingVolumes(claims \ Selected(claims), n, ListsFor(claims))}

(* What a call may find.  The node is usable when both parts say yes; the  *)
(* bindings are cached in every case.                                      *)
FindResults(p, n) ==
    LET v == PodVolumes(p)
        reachable == CheckBoundClaims(v.bound, n)
    IN  IF ~(uses[p] \subseteq DOMAIN pvcCache) \/ v.immediate # {} THEN {Nothing("error")}
        ELSE IF reachable = "error" THEN {Nothing("error")}
        ELSE {[r EXCEPT !.code = IF @ = "yes" THEN reachable ELSE @] : r \in FindForUnbound(v.toBind, n)}

WithObjects(r) ==
    [bindings |-> [i \in DOMAIN r.bindings |->
                      [claim |-> r.bindings[i].claim, name |-> r.bindings[i].volume,
                       obj |-> LatestVolume(r.bindings[i].volume)]],
     provisionings |-> [i \in DOMAIN r.provisionings |->
                      [name |-> r.provisionings[i], obj |-> LatestClaim(r.provisionings[i])]]]

FindPodVolumes(n) ==
    /\ loop.pod # Nil /\ n \in loop.left
    /\ \E r \in FindResults(loop.pod, n) :
         /\ loop' = [loop EXCEPT !.left = @ \ {n}, !.fit = IF r.code = "yes" THEN @ \cup {n} ELSE @]
         /\ IF r.bindings = <<>> /\ r.provisionings = <<>> THEN ClearBindings(loop.pod, n)
            ELSE LET w == WithObjects(r) IN UpdateBindings(loop.pod, n, w.bindings, w.provisionings)
    /\ UNCHANGED <<uses, api, caches, bind, pods, process, trouble>>

(* The plugin does nothing for a pod without claims.                       *)
TakePod(p) ==
    /\ uses[p] # {}
    /\ loop = Idle /\ bind[p] = None /\ bound[p] = Nil /\ p \notin deleted
    /\ loop' = [pod |-> p, left |-> Nodes, fit |-> {}]
    /\ UNCHANGED <<uses, api, caches, decisions, bind, pods, process, trouble>>

(* No node is usable: the pod waits for its next turn.                     *)
FindsNone ==
    /\ loop.pod # Nil /\ loop.left = {} /\ loop.fit = {}
    /\ loop' = Idle /\ decisions' = Spent(loop.pod)
    /\ UNCHANGED <<uses, api, caches, bind, pods, process, trouble>>

-----------------------------------------------------------------------------
(* AssumePodVolumes                                                        *)
ArePodVolumesBound(p) ==
    \A c \in uses[p] : Known(pvcCache, c) /\ IsPVCFullyBound(LatestClaim(c))

(* The volumes to be assumed bound, and the claims given the node.         *)
NewBindings(p, n) ==
    IF ~HasDecision(p, n) THEN <<>>
    ELSE LET old == decisions[p][n].bindings
             New(b) == GetBindVolumeToClaim(b.obj, b.claim)
         IN  [i \in DOMAIN old |-> [claim |-> old[i].claim, name |-> old[i].name, obj |-> New(old[i]),
                                    dirty |-> New(old[i]) # old[i].obj]]

NewProvisionedPVCs(p, n) ==
    IF ~HasDecision(p, n) THEN <<>>
    ELSE LET old == decisions[p][n].provisionings
         IN  [i \in DOMAIN old |-> [name |-> old[i].name, obj |-> [old[i].obj EXCEPT !.selected = n],
                                    dirty |-> TRUE]]

NamesIn(items) == {items[i].name : i \in DOMAIN items}

(* The caches after both were assumed, with what was assumed restored when *)
(* one could not be.                                                       *)
AssumeBoth(bindings, claims) ==
    LET vs == AssumeAll(pvCache, bindings)
        cs == AssumeAll(pvcCache, claims)
    IN  IF vs.failed # 0
        THEN [ok |-> FALSE, pvcCache |-> pvcCache,
              pvCache |-> CacheRestore(vs.cache, NamesIn(SubSeq(bindings, 1, vs.failed - 1)))]
        ELSE IF cs.failed # 0
        THEN [ok |-> FALSE, pvCache |-> CacheRestore(vs.cache, NamesIn(bindings)),
              pvcCache |-> CacheRestore(cs.cache, NamesIn(SubSeq(claims, 1, cs.failed - 1)))]
        ELSE [ok |-> TRUE, pvCache |-> vs.cache, pvcCache |-> cs.cache]

AssumePodVolumes(n) ==
    LET p == loop.pod
        bindings == NewBindings(p, n)
        claims == NewProvisionedPVCs(p, n)
        after == AssumeBoth(bindings, claims)
    IN  /\ p # Nil /\ loop.left = {} /\ n \in loop.fit
        /\ loop' = Idle
        /\ \/ /\ ArePodVolumesBound(p)
              /\ bound' = [bound EXCEPT ![p] = n]
              /\ decisions' = Spent(p)
              /\ UNCHANGED <<caches, bind>>
           \/ /\ ~ArePodVolumesBound(p)
              /\ pvCache' = after.pvCache /\ pvcCache' = after.pvcCache
              /\ IF after.ok
                 THEN /\ decisions' = Put(decisions, p, Put(<<>>, n,
                                          [bindings |-> bindings, provisionings |-> claims]))
                      /\ bind' = [bind EXCEPT ![p] = [stage |-> "assumed", node |-> n]]
                 ELSE decisions' = Spent(p) /\ UNCHANGED bind
              /\ UNCHANGED bound
        /\ UNCHANGED <<uses, api, deleted, revoked, twice, process, trouble>>

-----------------------------------------------------------------------------
(* BindPodVolumes                                                          *)
BindPodVolumes(p) ==
    /\ bind[p].stage = "assumed"
    /\ bind' = [bind EXCEPT ![p] =
          IF HasDecision(p, @.node)
          THEN [stage |-> "update", node |-> @.node, bindings |-> decisions[p][@.node].bindings,
                claims |-> decisions[p][@.node].provisionings, volumesDone |-> 0, claimsDone |-> 0]
          ELSE None]
    /\ decisions' = Spent(p)
    /\ UNCHANGED <<uses, api, caches, loop, pods, process, trouble>>

(* Update of the API server: refused when the object is not the last       *)
(* version, without effect when it changes nothing.                        *)
Current(objs, name, obj) == name \in DOMAIN objs /\ objs[name].version = obj.version

Written(objs, name, obj) == IF objs[name] = obj THEN obj ELSE [obj EXCEPT !.version = @ + 1]

UpdatesVolume(p) == bind[p].stage = "update" /\ bind[p].volumesDone < Len(bind[p].bindings)

UpdatesClaim(p) ==
    /\ bind[p].stage = "update" /\ bind[p].volumesDone = Len(bind[p].bindings)
    /\ bind[p].claimsDone < Len(bind[p].claims)

UpdateVolume(p) ==
    LET i == bind[p].volumesDone + 1
        b == bind[p].bindings[i]
    IN  /\ UpdatesVolume(p) /\ Current(pvs, b.name, b.obj)
        /\ pvs' = [pvs EXCEPT ![b.name] = Written(pvs, b.name, b.obj)]
        /\ bind' = [bind EXCEPT ![p].bindings[i].obj = Written(pvs, b.name, b.obj),
                                ![p].volumesDone = i]
        /\ twice' = IF \E v \in DOMAIN pvs \ {b.name} : pvs[v].claim = b.claim
                    THEN twice \cup {b.claim} ELSE twice
        /\ UNCHANGED <<uses, pvcs, caches, decisions, loop, bound, deleted, revoked, process, trouble>>

UpdateClaim(p) ==
    LET i == bind[p].claimsDone + 1
        c == bind[p].claims[i]
    IN  /\ UpdatesClaim(p) /\ Current(pvcs, c.name, c.obj)
        /\ pvcs' = [pvcs EXCEPT ![c.name] = Written(pvcs, c.name, c.obj)]
        /\ bind' = [bind EXCEPT ![p].claims[i].obj = Written(pvcs, c.name, c.obj),
                                ![p].claimsDone = i]
        /\ UNCHANGED <<uses, pvs, caches, decisions, loop, pods, process, trouble>>

(* What the goroutine has not written.                                     *)
Unwritten(p) ==
    [volumes |-> NamesIn(SubSeq(bind[p].bindings, bind[p].volumesDone + 1, Len(bind[p].bindings))),
     claims  |-> NamesIn(SubSeq(bind[p].claims, bind[p].claimsDone + 1, Len(bind[p].claims)))]

(* Mutant: the object whose update failed is not restored. *)
RevertLater(p) ==
    /\ pvCache' = CacheRestore(pvCache, NamesIn(SubSeq(bind[p].bindings, bind[p].volumesDone + 2,
                                                       Len(bind[p].bindings))))
    /\ pvcCache' = CacheRestore(pvcCache, Unwritten(p).claims)

Revert(p) ==
    /\ pvCache' = CacheRestore(pvCache, Unwritten(p).volumes)
    /\ pvcCache' = CacheRestore(pvcCache, Unwritten(p).claims)

(* An update is refused, or fails for another reason (trouble): what was   *)
(* not written is no longer assumed, what was written stays.               *)
UpdateFails(p) ==
    /\ UpdatesVolume(p) \/ UpdatesClaim(p)
    /\ LET refused ==
              IF UpdatesVolume(p)
              THEN LET b == bind[p].bindings[bind[p].volumesDone + 1] IN ~Current(pvs, b.name, b.obj)
              ELSE LET c == bind[p].claims[bind[p].claimsDone + 1] IN ~Current(pvcs, c.name, c.obj)
       IN  trouble' = IF refused THEN trouble ELSE trouble + 1
    /\ trouble' <= MaxTrouble
    /\ Revert(p)
    /\ bind' = [bind EXCEPT ![p] = None]
    /\ UNCHANGED <<uses, api, decisions, loop, pods, process>>

-----------------------------------------------------------------------------
(* checkBindings, on the informer's objects: what is assumed may be        *)
(* another pod's by now.                                                   *)
CheckBinding(b, n) ==
    LET vol == GetAPIObj(pvCache, b.name)
    IN  IF ~Known(pvCache, b.name) \/ ~Known(pvcCache, b.claim) THEN "error"
        ELSE IF b.obj.version > vol.version THEN "wait"
        ELSE IF ~CheckNodeAffinity(b.name, n) \/ vol.claim = Nil \/ ~vol.full THEN "error"
        ELSE IF ~IsPVCFullyBound(GetAPIObj(pvcCache, b.claim)) THEN "wait"
        ELSE "ok"

(* Mutant: the node that a provisioned volume belongs to is not checked. *)
CheckProvisionAnywhere(item, n) ==
    LET cl == GetAPIObj(pvcCache, item.name)
    IN  IF ~Known(pvcCache, item.name) THEN "error"
        ELSE IF item.obj.version > cl.version THEN "wait"
        ELSE IF cl.selected # n THEN "error"
        ELSE IF cl.volume # Nil /\ ~Known(pvCache, cl.volume) THEN "wait"
        ELSE IF ~IsPVCFullyBound(cl) THEN "wait"
        ELSE "ok"

CheckProvision(item, n) ==
    LET cl == GetAPIObj(pvcCache, item.name)
    IN  IF ~Known(pvcCache, item.name) THEN "error"
        ELSE IF item.obj.version > cl.version THEN "wait"
        ELSE IF cl.selected # n THEN "error"
        ELSE IF cl.volume # Nil /\ ~Known(pvCache, cl.volume) THEN "wait"
        ELSE IF cl.volume # Nil /\ ~CheckNodeAffinity(cl.volume, n) THEN "error"
        ELSE IF ~IsPVCFullyBound(cl) THEN "wait"
        ELSE "ok"

(* The first answer that is not ok counts.                                 *)
CheckBindings(p) ==
    LET w == bind[p]
        answers == [i \in DOMAIN w.bindings |-> CheckBinding(w.bindings[i], w.node)]
                   \o [i \in DOMAIN w.claims |-> CheckProvision(w.claims[i], w.node)]
        open == {i \in DOMAIN answers : answers[i] # "ok"}
    IN  IF p \notin DOMAIN decisions THEN "error"
        ELSE IF open = {} THEN "ok" ELSE answers[Min(open)]

Polls(p) == bind[p].stage = "update" /\ ~UpdatesVolume(p) /\ ~UpdatesClaim(p)

PollSucceeds(p) ==
    /\ Polls(p) /\ CheckBindings(p) = "ok"
    /\ bound' = [bound EXCEPT ![p] = bind[p].node]
    /\ bind' = [bind EXCEPT ![p] = None]
    /\ UNCHANGED <<uses, api, caches, decisions, loop, deleted, revoked, twice, process, trouble>>

(* An error of the check, or the time is over (trouble).                   *)
PollFails(p) ==
    /\ Polls(p)
    /\ trouble' = IF CheckBindings(p) = "error" THEN trouble ELSE trouble + 1
    /\ trouble' <= MaxTrouble
    /\ bind' = [bind EXCEPT ![p] = None]
    /\ UNCHANGED <<uses, api, caches, decisions, loop, pods, process>>

-----------------------------------------------------------------------------
(* The informers show an object as it is by then.                          *)
ShowVolume(v) ==
    /\ v \in DOMAIN pvs
    /\ pvCache' = CacheAdd(pvCache, v, pvs[v]) /\ pvCache' # pvCache
    /\ UNCHANGED <<uses, api, pvcCache, decisions, loop, bind, pods, process, trouble>>

ShowClaim(c) ==
    /\ IF c \in DOMAIN pvcs THEN pvcCache' = CacheAdd(pvcCache, c, pvcs[c])
       ELSE pvcCache' = CacheDelete(pvcCache, c)
    /\ pvcCache' # pvcCache
    /\ UNCHANGED <<uses, api, pvCache, decisions, loop, bind, pods, process, trouble>>

(* The PV controller: a volume that refers to a claim becomes its, then    *)
(* the claim the volume's.                                                 *)
Bumped(obj) == [obj EXCEPT !.version = @ + 1]

ControllerTakesVolume(v) ==
    /\ v \in DOMAIN pvs /\ pvs[v].claim \in DOMAIN pvcs /\ pvs[v].phase = "Available"
    /\ pvcs[pvs[v].claim].volume = Nil
    /\ \A w \in DOMAIN pvs \ {v} : pvs[w].claim = pvs[v].claim => pvs[w].phase = "Available"
    /\ pvs' = [pvs EXCEPT ![v] = [Bumped(@) EXCEPT !.full = TRUE, !.phase = "Bound"]]
    /\ UNCHANGED <<uses, pvcs, caches, decisions, loop, bind, pods, process, trouble>>

ControllerBindsClaim(v) ==
    /\ v \in DOMAIN pvs /\ pvs[v].claim \in DOMAIN pvcs /\ pvs[v].phase = "Bound"
    /\ pvcs[pvs[v].claim].volume = Nil
    /\ pvcs' = [pvcs EXCEPT ![pvs[v].claim] = [Bumped(@) EXCEPT !.volume = v, !.completed = TRUE]]
    /\ UNCHANGED <<uses, pvs, caches, decisions, loop, bind, pods, process, trouble>>

(* A volume whose claim has gone, or is bound elsewhere.                   *)
ControllerUnbinds(v) ==
    LET vol == pvs[v]
    IN  /\ v \in DOMAIN pvs /\ vol.claim # Nil /\ vol.version < MaxVersion
        /\ vol.claim \in DOMAIN pvcs => pvcs[vol.claim].volume \notin {Nil, v}
        /\ \/ /\ vol.phase = "Available" /\ vol.ours
              /\ pvs' = [pvs EXCEPT ![v] = [Bumped(@) EXCEPT !.claim = Nil, !.full = FALSE, !.ours = FALSE]]
           \/ /\ vol.phase = "Available" /\ ~vol.ours /\ vol.full
              /\ pvs' = [pvs EXCEPT ![v] = [Bumped(@) EXCEPT !.full = FALSE]]
           \/ /\ vol.phase = "Bound"
              /\ pvs' = [pvs EXCEPT ![v] = [Bumped(@) EXCEPT !.phase = "Released"]]
        /\ UNCHANGED <<uses, pvcs, caches, decisions, loop, bind, pods, process, trouble>>

(* A provisioner makes a volume of the class, which the chosen node should *)
(* reach, or gives up by removing the annotation.                          *)
Provision(c, v) ==
    /\ c \in DOMAIN pvcs /\ pvcs[c].selected # Nil /\ pvcs[c].volume = Nil
    /\ v \notin DOMAIN pvs /\ VolumeSpec(v).class = ClaimSpec(c).class
    /\ \A w \in DOMAIN pvs : pvs[w].claim # c
    /\ pvs' = Put(pvs, v, [NewVolume EXCEPT !.claim = c, !.full = TRUE, !.ours = TRUE,
                                            !.phase = "Bound"])
    /\ UNCHANGED <<uses, pvcs, caches, decisions, loop, bind, pods, process, trouble>>

ProvisioningFails(c) ==
    /\ c \in DOMAIN pvcs /\ pvcs[c].selected # Nil /\ pvcs[c].volume = Nil
    /\ trouble < MaxTrouble /\ trouble' = trouble + 1
    /\ pvcs' = [pvcs EXCEPT ![c] = [Bumped(@) EXCEPT !.selected = Nil]]
    /\ UNCHANGED <<uses, pvs, caches, decisions, loop, bind, pods, process>>

(* A claim is kept while a pod that has a node uses it.                    *)
DeleteClaim(c) ==
    /\ c \in DOMAIN pvcs /\ \A p \in Pods : bound[p] # Nil => c \notin uses[p]
    /\ trouble < MaxTrouble /\ trouble' = trouble + 1
    /\ pvcs' = Restrict(pvcs, DOMAIN pvcs \ {c})
    /\ UNCHANGED <<uses, pvs, caches, decisions, loop, bind, pods, process>>

(* A pod is deleted, and its decisions with it (DeletePodBindings).        *)
DeletePod(p) ==
    /\ p \notin deleted
    /\ trouble < MaxTrouble /\ trouble' = trouble + 1
    /\ deleted' = deleted \cup {p}
    /\ DeleteBindings(p)
    /\ revoked' = IF bind[p].stage = "assumed" THEN revoked \cup {p} ELSE revoked
    /\ UNCHANGED <<uses, api, caches, loop, bind, bound, twice, process>>

(* A new process lists what there is.                                      *)
Restart ==
    /\ trouble < MaxTrouble /\ trouble' = trouble + 1
    /\ process' = process + 1
    /\ pvCache' = Listed(pvs) /\ pvcCache' = Listed(pvcs)
    /\ decisions' = <<>> /\ loop' = Idle /\ bind' = [p \in Pods |-> None]
    /\ UNCHANGED <<uses, api, pods>>

Next ==
    \/ \E p \in Pods : \/ TakePod(p) \/ BindPodVolumes(p) \/ UpdateVolume(p) \/ UpdateClaim(p)
                       \/ UpdateFails(p) \/ PollSucceeds(p) \/ PollFails(p) \/ DeletePod(p)
    \/ \E n \in Nodes : FindPodVolumes(n) \/ AssumePodVolumes(n)
    \/ FindsNone \/ Restart
    \/ \E v \in Volumes : \/ ShowVolume(v) \/ ControllerTakesVolume(v) \/ ControllerBindsClaim(v)
                          \/ ControllerUnbinds(v)
    \/ \E c \in Claims : \/ ShowClaim(c) \/ ProvisioningFails(c) \/ DeleteClaim(c)
                         \/ \E v \in Volumes : Provision(c, v)

Spec == Init /\ [][Next]_vars

-----------------------------------------------------------------------------
(* A volume that refers to a claim is never given to another one directly, *)
(* however late the informers are and whichever pods bind at the same time *)
(* (the version of the object FindPodVolumes read goes with the update).   *)
ClaimRefsNotStolen ==
    [][\A v \in DOMAIN pvs : v \in DOMAIN pvs' /\ pvs[v].claim # Nil
                              => pvs'[v].claim \in {pvs[v].claim, Nil}]_vars

(* When BindPodVolumes succeeds for a pod that is not deleted, its claims  *)
(* are bound, and its node reaches the volume of each claim that never had *)
(* two volumes refer to it.  Of two, the PV controller may take the one    *)
(* that was chosen for another node: checkBindings asks whether the claim  *)
(* is bound, and not to what.                                              *)
BoundVolumesReachable ==
    [][\A p \in Pods \ deleted : Polls(p) /\ bound'[p] # bound[p] =>
          \A c \in uses[p] \cap DOMAIN pvcs :
              /\ pvcs[c].volume # Nil
              /\ c \notin twice => CheckNodeAffinity(pvcs[c].volume, bound'[p])]_vars

(* What a pod in AssumePodVolumes or BindPodVolumes has yet to write.      *)
InFlight(p) ==
    CASE bind[p].stage = "none" -> {}
      [] bind[p].stage = "assumed" ->
            IF ~HasDecision(p, bind[p].node) THEN {}
            ELSE NamesIn(decisions[p][bind[p].node].bindings)
                 \cup NamesIn(decisions[p][bind[p].node].provisionings)
      [] OTHER -> Unwritten(p).volumes \cup Unwritten(p).claims

(* An assumption of the caches is one that a pod is about to write, or has *)
(* written: a failed binding leaves nothing that keeps a volume from other *)
(* pods.  Only the deletion of a pod between AssumePodVolumes and          *)
(* BindPodVolumes does, as bindAPIUpdate then returns before it reverts.   *)
NoAssumptionLeaks ==
    /\ \A v \in AssumedNames(pvCache) :
          \/ \E p \in Pods : v \in InFlight(p)
          \/ pvs[v].version > GetAPIObj(pvCache, v).version
          \/ \E p \in revoked : LatestVolume(v).claim \in uses[p]
    /\ \A c \in AssumedNames(pvcCache) :
          \/ \E p \in Pods : c \in InFlight(p)
          \/ c \notin DOMAIN pvcs
          \/ pvcs[c].version > GetAPIObj(pvcCache, c).version
          \/ \E p \in revoked : c \in uses[p]

(* Both caches show an informer's object or an assumption on it, and a     *)
(* newer object always ends the assumption (AssumedView).                  *)
ShownVersion(x) ==
    LET cache == IF x \in Volumes THEN pvCache ELSE pvcCache
    IN  IF Known(cache, x) THEN GetAPIObj(cache, x).version ELSE 0

View == INSTANCE AssumedView WITH
            Objects <- Volumes \cup Claims,
            shown <- [x \in Volumes \cup Claims |-> ShownVersion(x)],
            assumed <- AssumedNames(pvCache) \cup AssumedNames(pvcCache)

CachesShowAssumedView == View!Spec
=============================================================================
