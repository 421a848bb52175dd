---------------------------- MODULE NodeTreeOps ----------------------------
(***************************************************************************)
(* The operations of internal/cache/node_tree.go as operators on a tree    *)
(* value.  A tree keeps, per zone, the array of the names of the nodes of  *)
(* that zone and the index of the next one to hand out; zones are visited  *)
(* round robin, and so are the nodes of each zone.                         *)
(*                                                                         *)
(* A node object is a record with (at least) the fields name and zone.     *)
(***************************************************************************)
EXTENDS Naturals, Integers, Sequences, FiniteSetsExt, Functions, SequencesExt

CONSTANTS
    NoNode,          \* the empty string: no name
    Names,           \* node names
    Zones            \* zone keys (region and zone labels)

EmptyTree ==
    [tree |-> [z \in {} |-> <<>>], zones |-> <<>>, zoneIndex |-> 0, numNodes |-> 0]

NamesOf(nt, zone) ==
    IF zone \in DOMAIN nt.tree THEN Range(nt.tree[zone].nodes) ELSE {}

TreeAddNode(nt, obj) ==
    LET zone == obj.zone
    IN  IF obj.name \in NamesOf(nt, zone) THEN nt
        ELSE IF zone \in DOMAIN nt.tree
        THEN [nt EXCEPT !.tree[zone].nodes = Append(@, obj.name), !.numNodes = @ + 1]
        ELSE [nt EXCEPT !.zones = Append(@, zone),
                        !.tree  = [z \in DOMAIN @ \cup {zone} |->
                                     IF z = zone THEN [nodes |-> <<obj.name>>, lastIndex |-> 0]
                                     ELSE @[z]],
                        !.numNodes = @ + 1]

TreeRemoveZone(nt, zone) ==
    [nt EXCEPT !.tree = Restrict(@, DOMAIN @ \ {zone}), !.zones = RemoveFirst(@, zone)]

TreeHas(nt, obj) == obj.name \in NamesOf(nt, obj.zone)

(* removeNode leaves lastIndex and zoneIndex where they are. *)
TreeRemoveNode(nt, obj) ==
    LET zone == obj.zone
        left == RemoveFirst(nt.tree[zone].nodes, obj.name)
        cut  == [nt EXCEPT !.tree[zone].nodes = left, !.numNodes = @ - 1]
    IN  IF ~TreeHas(nt, obj) THEN nt
        ELSE IF left = <<>> THEN TreeRemoveZone(cut, zone) ELSE cut

(* Mutant: the node stays in its old zone, too. *)
TreeUpdateNodeAddsOnly(nt, old, new) ==
    IF old.zone = new.zone THEN nt ELSE TreeAddNode(nt, new)

TreeUpdateNode(nt, old, new) ==
    IF old.zone = new.zone THEN nt
    ELSE TreeAddNode(TreeRemoveNode(nt, old), new)

ResetExhausted(nt) ==
    [nt EXCEPT !.tree = [z \in DOMAIN @ |-> [@[z] EXCEPT !.lastIndex = 0]], !.zoneIndex = 0]

(* Mutant: a zone counts as exhausted one node early. *)
ExhaustedEarly(array) == array.nodes # <<>> /\ array.lastIndex + 1 >= Len(array.nodes)

Exhausted(array) == array.nodes # <<>> /\ array.lastIndex >= Len(array.nodes)

(* One answer of nodeTree.next taken from the zone at (0-based) position i. *)
TakeFrom(nt, i) ==
    LET zone  == nt.zones[i + 1]
        array == nt.tree[zone]
    IN  IF array.nodes = <<>>
        THEN [name |-> NoNode, tree |-> [nt EXCEPT !.zoneIndex = i + 1]]
        ELSE [name |-> array.nodes[array.lastIndex + 1],
              tree |-> [nt EXCEPT !.zoneIndex = i + 1, !.tree[zone].lastIndex = @ + 1]]

(* The first zone, in cyclic order from zoneIndex, that is not exhausted;  *)
(* when all are, every index goes back to 0 and the first zone answers.    *)
TreeNext(nt) ==
    LET n     == Len(nt.zones)
        start == IF nt.zoneIndex >= n THEN 0 ELSE nt.zoneIndex
        pos(k) == (start + k) % n
        ready == {k \in 0..n-1 : ~Exhausted(nt.tree[nt.zones[pos(k) + 1]])}
    IN  IF n = 0 THEN [name |-> NoNode, tree |-> nt]
        ELSE IF ready # {} THEN TakeFrom(nt, pos(Min(ready)))
        ELSE TakeFrom(ResetExhausted(nt), 0)

(* k successive calls of next, as UpdateSnapshot makes them: the names in  *)
(* the order they were handed out and the tree that is left.               *)
TreeTake(nt, k) ==
    LET call[i \in 0..k] ==
          IF i = 0 THEN [names |-> <<>>, tree |-> nt]
          ELSE LET r == TreeNext(call[i-1].tree)
               IN  [names |-> Append(call[i-1].names, r.name), tree |-> r.tree]
    IN  call[k]

=============================================================================
