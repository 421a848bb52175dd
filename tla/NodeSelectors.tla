---------------------------- MODULE NodeSelectors ----------------------------
(***************************************************************************)
(* Node selectors: requirements on labels, and-ed to a term, or-ed to a    *)
(* selector.  Volumes, storage classes and preferred node affinities use   *)
(* them.  Labels are a function from keys to values; a requirement is a    *)
(* record of key, op and values.                                           *)
(***************************************************************************)
EXTENDS Integers, FiniteSets

(* What labels.NewRequirement accepts; a term with another is an error,    *)
(* and matches nothing.                                                    *)
WellFormed(r) ==
    \/ r.op \in {"In", "NotIn"} /\ r.values # {}
    \/ r.op \in {"Exists", "DoesNotExist"} /\ r.values = {}
    \/ r.op \in {"Gt", "Lt"} /\ Cardinality(r.values) = 1

(* A key that is missing satisfies the negative operators only.            *)
Satisfies(labels, r) ==
    IF r.key \in DOMAIN labels
    THEN CASE r.op = "In"           -> labels[r.key] \in r.values
           [] r.op = "NotIn"        -> labels[r.key] \notin r.values
           [] r.op = "Exists"       -> TRUE
           [] r.op = "DoesNotExist" -> FALSE
           [] r.op = "Gt"           -> \A v \in r.values : labels[r.key] > v
           [] r.op = "Lt"           -> \A v \in r.values : labels[r.key] < v
    ELSE r.op \in {"NotIn", "DoesNotExist"}

(* No requirements match nothing.                                          *)
MatchesExpressions(labels, reqs) ==
    reqs # {} /\ \A r \in reqs : WellFormed(r) /\ Satisfies(labels, r)

(* A field (the node's name) is compared with one value.                   *)
MatchesFields(name, reqs) ==
    \A r \in reqs :
        /\ r.op \in {"In", "NotIn"} /\ Cardinality(r.values) = 1
        /\ (name \in r.values) <=> (r.op = "In")

(* A term without expressions and fields selects nothing; nor do no terms. *)
MatchNodeSelectorTerms(terms, labels, name) ==
    \E t \in terms :
        /\ t.expressions # {} \/ t.fields # {}
        /\ t.expressions # {} => MatchesExpressions(labels, t.expressions)
        /\ MatchesFields(name, t.fields)

(* Topologies of a storage class: here no terms take every node.           *)
MatchTopologySelectorTerms(terms, labels) ==
    terms = {} \/ \E t \in terms : MatchesExpressions(labels, t)
=============================================================================
