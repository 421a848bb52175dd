----------------------------- MODULE NodeScores -----------------------------
(***************************************************************************)
(* The score plugins of the general purpose scheduler, as operators on a   *)
(* pod's record (prefers, tolerates, images) and a node's (labels, taints, *)
(* images, capacity, requested).  Memory is counted in units of which both *)
(* numbers are small multiples.  A score is what Score returns: the        *)
(* NormalizeScore methods of the plugins are never called.                 *)
(***************************************************************************)
EXTENDS NodeSelectors, FiniteSetsExt, Functions

CONSTANTS
    Broken,          \* the score of a plugin that returns an error
    Unknown          \* a capacity that AsInt64 cannot represent

MinNodeScore == 0
MaxNodeScore == 100

(* PreScore keeps the tolerations that are for such taints or for all.     *)
TaintTolerationScore(pod, node) ==
    Cardinality({t \in node.taints : t.effect = "PreferNoSchedule" /\ t \notin pod.tolerates})

(* A preferred term without expressions matches nothing; one of weight 0   *)
(* is not looked at, and one with a requirement that cannot be parsed ends *)
(* the scoring.                                                            *)
NodeAffinityScore(pod, node) ==
    LET terms == {t \in pod.prefers : t.weight # 0}
    IN  IF \E t \in terms : \E r \in t.expressions : ~WellFormed(r)
        THEN Broken
        ELSE MapThenSumSet(LAMBDA t : t.weight,
                           {t \in terms : MatchesExpressions(node.labels, t.expressions)})

(* The plugin's lister lists no nodes: an image's size is multiplied with  *)
(* infinity, and what int64 makes of that depends on the processor (high:  *)
(* the largest number, otherwise the smallest).  Two of either add up to   *)
(* about 0, and the sum is clamped to the thresholds.                      *)
ImageLocalityScore(pod, node, high) ==
    IF high /\ Cardinality(pod.images \cap node.images) % 2 = 1
    THEN MaxNodeScore ELSE MinNodeScore

(* int64(100 * exp(-5 * a/b)) for a/b in quarters.                         *)
Decay(a, b) ==
    IF 4 * a < b THEN 100
    ELSE IF 4 * a < 2 * b THEN 28
    ELSE IF 4 * a < 3 * b THEN 8
    ELSE IF 4 * a < 4 * b THEN 2
    ELSE 0

ResourcePriorityScore(node) ==
    IF node.capacity = Unknown THEN MinNodeScore
    ELSE IF node.requested # 0 /\ node.capacity # 0 THEN Decay(node.requested, node.capacity)
    ELSE MaxNodeScore

(* Mutant: nodes that were used a lot are favoured. *)
RepeatPriorityReversed(uses, highest) == 100 - Decay(uses, highest)

RepeatPriorityScore(uses, highest) == Decay(uses, highest)

(* What depends on the pod and the node only.                              *)
FixedScores(pod, node, high) ==
    <<TaintTolerationScore(pod, node), NodeAffinityScore(pod, node),
      ImageLocalityScore(pod, node, high), ResourcePriorityScore(node)>>

(* Mutant: the greatest score is refused. *)
InRangeOpen(score) == score # Broken /\ score \in MinNodeScore..MaxNodeScore-1

(* RunScorePlugins refuses a score out of range.                           *)
InRange(score) == score # Broken /\ score \in MinNodeScore..MaxNodeScore

Acceptable(scores) == \A i \in DOMAIN scores : InRange(scores[i])

TotalScore(scores) == SumFunction(scores)
=============================================================================
