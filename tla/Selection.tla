----------------------------- MODULE Selection -----------------------------
(***************************************************************************)
(* What the general purpose scheduler does with the nodes a search found:  *)
(* goroutines score them, one of the best is chosen, and another goroutine *)
(* counts the choice (scheduler/scheduler.go, framework/v1alpha1/          *)
(* framework.go).  The counts are read when the nodes of the next pods are *)
(* scored, without a lock: the Go runtime ends a process that it sees use  *)
(* a map while another goroutine is assigning to it.  A process that ends  *)
(* loses its counts; the broker delivers the message again.                *)
(*                                                                         *)
(* NewFramework hands the plugins a pointer to its struct and returns a    *)
(* copy of it: both have the same map of counts, but the plugins never see *)
(* the copy's highest count grow.                                          *)
(*                                                                         *)
(* A listing of the node tree may have a node twice (NodeTree), and so may *)
(* what the search found; each of its entries is scored.                   *)
(***************************************************************************)
EXTENDS NodeScores, AffinityScores, Sequences, SequencesExt

CONSTANTS
    Worlds,          \* the inputs: the records of the pods and of the nodes, the pods
                     \* that run already, the nodes the plugins list, how often
                     \* the snapshot lists each node (slots), and high
    None

SelectionAssumption ==
    /\ \A w \in Worlds : /\ None \notin DOMAIN w.pod \cup DOMAIN w.node
                         /\ IsFiniteSet(DOMAIN w.node)
                         /\ w.slots \in [DOMAIN w.node -> Nat]
    /\ Broken \notin Int /\ Unknown \notin Int

VARIABLES
    world,
    answer,          \* the node each pod was given, or None
    pod,             \* the message being processed
    viable,          \* viableNodes: how often it has each node the search found
    scores,          \* of its entries scored so far, by plugin
    nodeUsageMap,    \* how often each node was chosen
    highest,         \* highestRepeatFactor of the copy
    counting,        \* of each pod, the goroutine that counts its node
    before           \* ghost: nodeUsageMap when the pod was taken

process == <<pod, viable, scores, nodeUsageMap, highest, counting, before>>
choiceVars == <<world, answer, process>>

NewPods == DOMAIN world.pod \ DOMAIN world.running
Nodes == DOMAIN world.node

AllPods == UNION {DOMAIN w.pod \ DOMAIN w.running : w \in Worlds}

PluginsHighest == 1

Idle == [step |-> "none", node |-> None, count |-> 0]
Unused == [n \in Nodes |-> 0]

ChoiceInit ==
    /\ world \in Worlds
    /\ answer = [p \in NewPods |-> None]
    /\ pod = None /\ viable = <<>> /\ scores = <<>>
    /\ nodeUsageMap = Unused /\ highest = 1
    /\ counting = [p \in NewPods |-> Idle]
    /\ before = Unused

Restart ==
    /\ pod' = None /\ viable' = <<>> /\ scores' = <<>>
    /\ nodeUsageMap' = Unused /\ highest' = 1
    /\ counting' = [p \in NewPods |-> Idle]
    /\ before' = Unused

(* The process ends; a new one is started.  What it had not acknowledged   *)
(* is delivered again.                                                     *)
ProcessEnds == Restart /\ UNCHANGED <<world, answer>>

-----------------------------------------------------------------------------
(* The search (NodeSearch) finds some nodes, a node listed twice perhaps   *)
(* twice.                                                                  *)
Finds(S) ==
    {f \in [S -> UNION {1..world.slots[n] : n \in S}] : \A n \in S : f[n] <= world.slots[n]}

TakePod(p) ==
    /\ pod = None /\ answer[p] = None
    /\ pod' = p
    /\ \E S \in (SUBSET Nodes) \ {{}} : viable' \in Finds(S)
    /\ scores' = <<>> /\ before' = nodeUsageMap
    /\ UNCHANGED <<world, answer, nodeUsageMap, highest, counting>>

Assigning == \E p \in NewPods : counting[p].step = "assign"

(* What PreScore finds.  listed is empty as New wires the plugins (see     *)
(* Admission); they are written for a lister of all nodes.                 *)
PreScore(p) ==
    TopologyScore(world.pod, world.node,
                  [n \in world.listed |-> {q \in DOMAIN world.running : world.running[q] = n}], p)

Others(p, n) ==
    Append(FixedScores(world.pod[p], world.node[n], world.high),
           AffinityScore(PreScore(p), world.node[n]))

Viable  == DOMAIN viable
Entries == UNION {{n} \X (1..viable[n]) : n \in Viable}

(* One piece of RunScorePlugins: every plugin scores the node of an entry. *)
ScoreNode(e) ==
    /\ pod # None /\ e \in Entries \ DOMAIN scores
    /\ IF Assigning THEN ProcessEnds
       ELSE /\ scores' = [d \in DOMAIN scores \cup {e} |->
                            IF d # e THEN scores[d]
                            ELSE Append(Others(pod, e[1]),
                                        RepeatPriorityScore(nodeUsageMap[e[1]], PluginsHighest))]
            /\ UNCHANGED <<world, answer, pod, viable, nodeUsageMap, highest, counting, before>>

Scored == pod # None /\ DOMAIN scores = Entries

(* A score that is refused leaves no results, and the first of them is     *)
(* read all the same.                                                      *)
NoResults ==
    /\ Scored
    /\ \E e \in Entries : ~Acceptable(scores[e])
    /\ ProcessEnds

(* prioritizeNodes adds up what the plugins gave a name, so that a node    *)
(* with two entries gets the sum of both.                                  *)
EntryScore(n, i) == TotalScore(scores[<<n, i>>])
Total(n) == SumFunction([i \in 1..viable[n] |-> EntryScore(n, i)])

(* The results in descending order; equal ones in the order of a map.      *)
Results(S) ==
    {r \in SetToSeqs(S) : \A i \in 1..Len(r)-1 : Total(r[i]) >= Total(r[i+1])}

BestOf(r) == {i \in DOMAIN r : Total(r[i]) = Total(r[1])}

(* Mutant: the index may be the one after the last of the best. *)
IndicesOnePast(r) == IF Len(r) = 1 THEN {1} ELSE 1..Min({Cardinality(BestOf(r)) + 1, Len(r)})

(* Bounded(k) is below k, and k the index of the last of the best.         *)
Indices(r) == IF Cardinality(BestOf(r)) = 1 THEN {1} ELSE 1..(Cardinality(BestOf(r)) - 1)

Select ==
    /\ Scored
    /\ \A e \in Entries : Acceptable(scores[e])
    /\ \E r \in Results(Viable) : \E i \in Indices(r) :
         /\ answer' = [answer EXCEPT ![pod] = r[i]]
         /\ counting' = [counting EXCEPT ![pod] = [step |-> "start", node |-> r[i], count |-> 0]]
    /\ pod' = None /\ viable' = <<>> /\ scores' = <<>>
    /\ UNCHANGED <<world, nodeUsageMap, highest, before>>

-----------------------------------------------------------------------------
(* IncreaseNodeUsageFactor: looking up where to store the count is what    *)
(* counts as assigning; the addition and the store come after it.          *)
Step(p, from, to) == counting[p].step = from /\ counting' = [counting EXCEPT ![p].step = to]

Assign(p) ==
    /\ counting[p].step = "start"
    /\ IF Assigning THEN ProcessEnds
       ELSE /\ Step(p, "start", "assign")
            /\ UNCHANGED <<world, answer, pod, viable, scores, nodeUsageMap, highest, before>>

Assigned(p) ==
    /\ Step(p, "assign", "load")
    /\ UNCHANGED <<world, answer, pod, viable, scores, nodeUsageMap, highest, before>>

Load(p) ==
    /\ counting[p].step = "load"
    /\ counting' = [counting EXCEPT ![p].step = "store",
                                        ![p].count = nodeUsageMap[counting[p].node] + 1]
    /\ UNCHANGED <<world, answer, pod, viable, scores, nodeUsageMap, highest, before>>

Store(p) ==
    /\ Step(p, "store", "compare")
    /\ nodeUsageMap' = [nodeUsageMap EXCEPT ![counting[p].node] = counting[p].count]
    /\ UNCHANGED <<world, answer, pod, viable, scores, highest, before>>

(* The comparison reads the map again.  No count ever gets to overflow to  *)
(* the 0 that would replace the map.                                       *)
Compare(p) ==
    /\ counting[p].step = "compare"
    /\ IF Assigning THEN ProcessEnds
       ELSE /\ counting' = [counting EXCEPT ![p] = Idle]
            /\ highest' = IF nodeUsageMap[counting[p].node] > highest THEN highest + 1 ELSE highest
            /\ UNCHANGED <<world, answer, pod, viable, scores, nodeUsageMap, before>>

IncreaseNodeUsageFactor(p) == Assign(p) \/ Assigned(p) \/ Load(p) \/ Store(p) \/ Compare(p)

ChoiceLoop ==
    \/ \E p \in NewPods : TakePod(p)
    \/ \E e \in Entries : ScoreNode(e)
    \/ NoResults \/ Select

ChoiceNext == ChoiceLoop \/ \E p \in NewPods : IncreaseNodeUsageFactor(p)

ChoiceSpec == ChoiceInit /\ [][ChoiceNext]_choiceVars

(* The loop and the goroutines go on.  The message of a process that ended *)
(* is redelivered first, so nothing is assumed of which one is taken.      *)
ChoiceFairSpec ==
    /\ ChoiceSpec
    /\ WF_choiceVars(ChoiceLoop)
    /\ \A p \in AllPods : WF_choiceVars(p \in NewPods /\ IncreaseNodeUsageFactor(p))

-----------------------------------------------------------------------------
(* Whether node n has a better score in every entry than c in any.         *)
Beats(n, c) == \A i \in 1..viable[n], j \in 1..viable[c] : EntryScore(n, i) > EntryScore(c, j)

(* Whatever ties there are and however the results happen to be ordered,   *)
(* no viable node that was found as often as the one chosen is better (the *)
(* index of the random choice, scheduler.go:206 and :226).  The total of a *)
(* node that was found more often is a sum of more scores, and may be the  *)
(* greatest although they are not.                                         *)
BestIsChosen ==
    [][\A p \in NewPods : answer[p] = None /\ answer'[p] # None =>
          \A n \in Viable : viable[n] >= viable[answer'[p]] => ~Beats(n, answer'[p])]_choiceVars

(* Although counts get lost, overtake each other and start again with the  *)
(* process, a node that had a pod before this one was taken is not chosen  *)
(* over one that has none yet, is otherwise as good and was found as       *)
(* often: the plugins' own highest count of 1 still tells no pods from     *)
(* some.                                                                   *)
UnusedNodesFirst ==
    [][\A p \in NewPods : answer[p] = None /\ answer'[p] # None =>
          \A n \in Viable :
             /\ before[answer'[p]] > 0 /\ Others(p, n) = Others(p, answer'[p])
             /\ viable[n] >= viable[answer'[p]]
             => nodeUsageMap[n] > 0]_choiceVars

(* A pod is scorable when no node, however it is combined with others, has *)
(* a score for it that is refused: preferred node affinities whose weights *)
(* add up to more than 100 are legal, and end every process that takes the *)
(* pod (framework.go:445); so would a wish to keep away, if the plugins    *)
(* listed any node.  Without such a pod every pod gets a node, although    *)
(* processes die of races on the map.                                      *)
Together(n, q, t) ==
    /\ t.key \in DOMAIN world.node[n].labels
    /\ <<t.key, world.node[n].labels[t.key]>> \in TopologyPairs(world.node[world.running[q]])

Wish(p, n) ==
    MapThenSumSet(LAMBDA q :
        MapThenSumSet(LAMBDA t : t.weight,
            {t \in world.pod[p].near : Together(n, q, t) /\ TermMatches(world.pod, p, t, q)})
        + MapThenSumSet(LAMBDA t : IF t \in world.pod[q].near THEN t.weight ELSE 1,
            {t \in world.pod[q].near \cup world.pod[q].affinity :
                Together(n, q, t) /\ TermMatches(world.pod, q, t, p)}),
        {q \in DOMAIN world.running : world.running[q] \in world.listed})

Scorable(p) ==
    \A n \in Nodes :
        /\ \A t \in world.pod[p].prefers, r \in UNION {u.expressions : u \in world.pod[p].prefers} :
              t.weight # 0 /\ r \in t.expressions => WellFormed(r)
        /\ NodeAffinityScore(world.pod[p], world.node[n]) <= 100
        /\ Wish(p, n) \in 0..100

EveryPodAnswered ==
    (\A p \in NewPods : Scorable(p)) => <>(\A p \in NewPods : answer[p] # None)

(* interface.go:294: "All scoring plugins must return success or the pod   *)
(* will be rejected".  Then a pod that cannot be scored is in no other     *)
(* pod's way.                                                              *)
ScorablePodsAnswered == <>(\A p \in NewPods : Scorable(p) => answer[p] # None)
=============================================================================
