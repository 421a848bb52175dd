--------------------------- MODULE VolumeMatching ---------------------------
(***************************************************************************)
(* Which volume serves a claim on a node.  What never changes of a volume, *)
(* a claim, a class and a node are records given by constants; what        *)
(* changes is in the objects vol (claim, full, ours, phase, version) and   *)
(* cl (volume, completed, selected, version).  full is whether the volume's *)
(* claimRef has the UID of the claim, ours the annotation BoundByController. *)
(***************************************************************************)
EXTENDS NodeSelectors, Sequences, SequencesExt

CONSTANTS
    VolumeSpec(_),   \* size, class, mode, access, labels, deleting, affinity
    ClaimSpec(_),    \* size, class, mode, access, selector
    ClassSpec(_),    \* delayed, provisioner, topologies
    Classes,         \* the storage classes that exist
    NodeLabels(_),
    NoClass,         \* the empty class name
    Nil

(* A volume without a required affinity is reachable from every node.      *)
CheckNodeAffinity(v, node) ==
    \/ VolumeSpec(v).affinity = Nil
    \/ MatchNodeSelectorTerms(VolumeSpec(v).affinity, NodeLabels(node), Nil)

CheckVolumeModeMismatches(c, v) == ClaimSpec(c).mode # VolumeSpec(v).mode

CheckAccessModes(c, v) == ClaimSpec(c).access \subseteq VolumeSpec(v).access

IsDelayBindingMode(c) ==
    LET class == ClaimSpec(c).class
    IN  class # NoClass /\ class \in Classes /\ ClassSpec(class).delayed

IsPVCFullyBound(cl) == cl.volume # Nil /\ cl.completed

(* A user may have named the claim without its UID; claims here keep       *)
(* theirs, so that a claimRef with a UID names the claim of that name.     *)
IsVolumeBoundToClaim(vol, c) == vol.claim = c

(* The volume as it is to be written for the claim.                        *)
GetBindVolumeToClaim(vol, c) ==
    [vol EXCEPT !.claim = c, !.full = TRUE,
                !.ours = @ \/ ~IsVolumeBoundToClaim(vol, c)]

-----------------------------------------------------------------------------
(* Mutant: a volume that refers to another claim is taken. *)
CandidatesTaken(c, objs, excluded) ==
    {v \in DOMAIN objs \ excluded :
        /\ VolumeSpec(v).size >= ClaimSpec(c).size
        /\ ~CheckVolumeModeMismatches(c, v)
        /\ ~VolumeSpec(v).deleting}

(* The volumes that are not skipped at once: objs are those listed under   *)
(* the claim's class, excluded those chosen for the pod's other claims.    *)
Candidates(c, objs, excluded) ==
    {v \in DOMAIN objs \ excluded :
        /\ objs[v].claim = Nil \/ IsVolumeBoundToClaim(objs[v], c)
        /\ VolumeSpec(v).size >= ClaimSpec(c).size
        /\ ~CheckVolumeModeMismatches(c, v)
        /\ ~VolumeSpec(v).deleting}

(* Volumes without a claim that suit it on the node.                       *)
Suitable(c, objs, node, excluded) ==
    {v \in Candidates(c, objs, excluded) :
        /\ objs[v].phase = "Available"
        /\ ClaimSpec(c).selector \subseteq
              {<<k, VolumeSpec(v).labels[k]>> : k \in DOMAIN VolumeSpec(v).labels}
        /\ VolumeSpec(v).class = ClaimSpec(c).class
        /\ CheckNodeAffinity(v, node)
        /\ CheckAccessModes(c, v)}

Smallest(S) == {v \in S : \A w \in S : VolumeSpec(v).size <= VolumeSpec(w).size}

(* The volumes that may be returned, Nil for none.  The list has no order; *)
(* the first of those bound to the claim ends the search, also when the    *)
(* node cannot reach it, and the first of the smallest is kept.            *)
FindMatchingVolume(c, objs, node, excluded) ==
    LET prebound == {v \in Candidates(c, objs, excluded) : IsVolumeBoundToClaim(objs[v], c)}
        best == Smallest(Suitable(c, objs, node, excluded))
    IN  IF prebound # {} THEN {IF CheckNodeAffinity(v, node) THEN v ELSE Nil : v \in prebound}
        ELSE IF best # {} THEN best
        ELSE {Nil}

(* Orders in which sort.Sort may leave the claims.                         *)
ByPVCSize(claims) ==
    {s \in SetToSeqs(claims) :
        \A i, j \in DOMAIN s : i < j => ClaimSpec(s[i]).size <= ClaimSpec(s[j]).size}

(* What one result becomes with the next claim.                            *)
Extended(acc, c, node, lists) ==
    {IF v = Nil THEN [acc EXCEPT !.unbound = Append(@, c)]
     ELSE [acc EXCEPT !.bindings = Append(@, [claim |-> c, volume |-> v])] :
        v \in FindMatchingVolume(c, lists[ClaimSpec(c).class], node,
                                 {b.volume : b \in ToSet(acc.bindings)})}

AllExtended(results, c, node, lists) == UNION {Extended(acc, c, node, lists) : acc \in results}

(* The possible results of findMatchingVolumes: the bindings found, in     *)
(* order, and the claims without one.  lists has the volumes of each class. *)
FindMatchingVolumes(claims, node, lists) ==
    UNION {FoldLeft(LAMBDA results, c : AllExtended(results, c, node, lists),
                    {[bindings |-> <<>>, unbound |-> <<>>]}, s) : s \in ByPVCSize(claims)}

(* Whether claims can be provisioned for the node: "error", "no" or "yes". *)
CheckVolumeProvisions(claims, node) ==
    LET CanProvision(c) ==
            /\ ClassSpec(ClaimSpec(c).class).provisioner
            /\ MatchTopologySelectorTerms(ClassSpec(ClaimSpec(c).class).topologies,
                                          NodeLabels(node))
        HasClass(c) == ClaimSpec(c).class \in Classes
        bad == {i \in DOMAIN claims : ~HasClass(claims[i]) \/ ~CanProvision(claims[i])}
    IN  IF bad = {} THEN "yes"
        ELSE IF HasClass(claims[Min(bad)]) THEN "no" ELSE "error"
=============================================================================
