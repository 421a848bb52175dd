--------------------------- MODULE AffinityScores ---------------------------
(***************************************************************************)
(* The score of the InterPodAffinity plugin (interpodaffinity/scoring.go). *)
(* near are the preferred terms of a pod, with a weight that is negative   *)
(* when the pod keeps away.  PreScore adds up the weights per topology     *)
(* pair of the nodes that have the pods, Score the pairs of a node's       *)
(* labels.  As in InterPodAffinity, on has the pods of the listed nodes.   *)
(***************************************************************************)
EXTENDS InterPodAffinity, Integers, FiniteSetsExt

HardPodAffinityWeight == 1

SumWeights(terms) == MapThenSumSet(LAMBDA t : t.weight, terms)

(* processExistingPod: what p and a pod q that runs prefer of each other,  *)
(* and q's required affinity at a weight of its own.                       *)
ExistingPodScore(shape, p, q, key) ==
    LET of(owner, other, terms) ==
            {t \in terms : t.key = key /\ TermMatches(shape, owner, t, other)}
    IN  SumWeights(of(p, q, shape[p].near)) + SumWeights(of(q, p, shape[q].near))
        + HardPodAffinityWeight * Cardinality(of(q, p, shape[q].affinity))

TopologyPairs(rec) == {<<k, rec.labels[k]>> : k \in DOMAIN rec.labels}

TopologyScore(shape, node, on, p) ==
    [pair \in UNION {TopologyPairs(node[n]) : n \in DOMAIN on} |->
        LET pods == UNION {on[n] : n \in {m \in DOMAIN on : pair \in TopologyPairs(node[m])}}
        IN  MapThenSumSet(LAMBDA q : ExistingPodScore(shape, p, q, pair[1]), pods)]

AffinityScore(topologyScore, rec) ==
    MapThenSumSet(LAMBDA pair : topologyScore[pair], TopologyPairs(rec) \cap DOMAIN topologyScore)
=============================================================================
