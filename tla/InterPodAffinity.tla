--------------------------- MODULE InterPodAffinity ---------------------------
(***************************************************************************)
(* The filter of the InterPodAffinity plugin (interpodaffinity/            *)
(* filtering.go).  PreFilter collects the topology pairs (label, value) of *)
(* the nodes on which a term is matched; Filter looks up a node's labels   *)
(* in them.  The counts of the pairs are only compared with 0, so a set of *)
(* pairs stands for them.  shape gives every pod's record, on the pods of  *)
(* every listed node, node every node's record.                            *)
(***************************************************************************)
EXTENDS FiniteSets

(* A term without namespaces means the namespace of its owner.             *)
TermMatches(shape, owner, term, q) ==
    /\ shape[q].ns \in (IF term.namespaces = {} THEN {shape[owner].ns} ELSE term.namespaces)
    /\ shape[q].app \in term.apps

(* podMatchesAllAffinityTerms, of no term false.                           *)
MatchesAllTerms(shape, p, q) ==
    /\ shape[p].affinity # {}
    /\ \A t \in shape[p].affinity : TermMatches(shape, p, t, q)

Pairs(node, n, terms) ==
    {<<t.key, node[n].labels[t.key]>> : t \in {u \in terms : u.key \in DOMAIN node[n].labels}}

(* Mutant: the terms of the pods that run already are not looked at. *)
ExistingPairsIgnored(shape, node, on, p) == {}

(* Where running pods forbid p, where its own terms are matched, and where *)
(* pods are that it keeps away from.                                       *)
ExistingPairs(shape, node, on, p) ==
    UNION {UNION {Pairs(node, n, {t \in shape[q].anti : TermMatches(shape, q, t, p)}) :
                  q \in on[n]} : n \in DOMAIN on}

AffinityPairs(shape, node, on, p) ==
    UNION {Pairs(node, n, shape[p].affinity) :
           n \in {m \in DOMAIN on : \E q \in on[m] : MatchesAllTerms(shape, p, q)}}

AntiPairs(shape, node, on, p) ==
    UNION {UNION {Pairs(node, n, {t \in shape[p].anti : TermMatches(shape, p, t, q)}) :
                  q \in on[n]} : n \in DOMAIN on}

PreFilter(shape, node, on, p) ==
    [existing |-> ExistingPairs(shape, node, on, p),
     affinity |-> AffinityPairs(shape, node, on, p),
     anti     |-> AntiPairs(shape, node, on, p)]

MatchesAllTopologyTerms(pairs, terms, rec) ==
    \A t \in terms : t.key \in DOMAIN rec.labels /\ <<t.key, rec.labels[t.key]>> \in pairs

MatchesAnyTopologyTerm(pairs, terms, rec) ==
    \E t \in terms : t.key \in DOMAIN rec.labels /\ <<t.key, rec.labels[t.key]>> \in pairs

SatisfiesExistingAntiAffinity(state, rec) ==
    \A k \in DOMAIN rec.labels : <<k, rec.labels[k]>> \notin state.existing

(* Mutant: the first pod need not match its own terms. *)
SatisfiesAffinityFirst(shape, state, p, rec) ==
    \/ MatchesAllTopologyTerms(state.affinity, shape[p].affinity, rec)
    \/ state.affinity = {}

(* The first pod of a series that has affinity to itself may go anywhere.  *)
SatisfiesAffinity(shape, state, p, rec) ==
    \/ MatchesAllTopologyTerms(state.affinity, shape[p].affinity, rec)
    \/ state.affinity = {} /\ MatchesAllTerms(shape, p, p)

SatisfiesAntiAffinity(shape, state, p, rec) ==
    ~MatchesAnyTopologyTerm(state.anti, shape[p].anti, rec)

(* The code of the status Filter returns.                                  *)
AffinityFilter(shape, state, p, rec) ==
    IF ~SatisfiesExistingAntiAffinity(state, rec) THEN "Unschedulable"
    ELSE IF ~SatisfiesAffinity(shape, state, p, rec) THEN "UnschedulableAndUnresolvable"
    ELSE IF ~SatisfiesAntiAffinity(shape, state, p, rec) THEN "Unschedulable"
    ELSE "Success"
=============================================================================
