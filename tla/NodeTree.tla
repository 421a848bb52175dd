------------------------------ MODULE NodeTree ------------------------------
(***************************************************************************)
(* The node tree of the scheduler cache as a state machine of its own: the *)
(* cache adds, moves and removes nodes under its lock and lists the tree   *)
(* for a snapshot with one call of next per node.  The calls come in any   *)
(* order in which the cache makes them: AddNode for a node that is not     *)
(* known, the other two for one that is, with the object the tree was last *)
(* told of.  A listing does not begin a new round, and it may leave nodes  *)
(* out and name others twice.                                              *)
(***************************************************************************)
EXTENDS NodeTreeOps, FiniteSets

ASSUME NamesAssumption == NoNode \notin Names /\ IsFiniteSet(Names) /\ IsFiniteSet(Zones)

VARIABLES nt,             \* the nodeTree structure
          known,          \* ghost: the zone of every node the cache knows
          leftOut         \* history: what the last listing left out and no
                          \* removal has reordered since

treeVars == <<nt, known, leftOut>>

Obj(name, zone) == [name |-> name, zone |-> zone]

TreeInit ==
    /\ nt = EmptyTree
    /\ known = [n \in {} |-> NoNode]
    /\ leftOut = {}

AddName(name, zone) ==
    /\ name \notin DOMAIN known
    /\ nt' = TreeAddNode(nt, Obj(name, zone))
    /\ known' = [n \in DOMAIN known \cup {name} |-> IF n = name THEN zone ELSE known[n]]
    /\ UNCHANGED leftOut

(* Both a move and a removal take the name out of an array, in which the   *)
(* later names move up although the index of the next one stays.           *)
MoveName(name, zone) ==
    /\ name \in DOMAIN known
    /\ nt' = TreeUpdateNode(nt, Obj(name, known[name]), Obj(name, zone))
    /\ known' = [known EXCEPT ![name] = zone]
    /\ leftOut' = IF zone = known[name] THEN leftOut ELSE {}

RemoveName(name) ==
    /\ name \in DOMAIN known
    /\ nt' = TreeRemoveNode(nt, Obj(name, known[name]))
    /\ known' = Restrict(known, DOMAIN known \ {name})
    /\ leftOut' = {}

(* updateNodeInfoSnapshotList(updateAll): numNodes calls of next.          *)
List ==
    LET listing == TreeTake(nt, nt.numNodes)
    IN  /\ nt' = listing.tree
        /\ leftOut' = DOMAIN known \ Range(listing.names)
        /\ UNCHANGED known

TreeStep ==
    \/ \E name \in Names, zone \in Zones : AddName(name, zone) \/ MoveName(name, zone)
    \/ \E name \in Names : RemoveName(name)
    \/ List

TreeSpec == TreeInit /\ [][TreeStep]_treeVars

-----------------------------------------------------------------------------
(* Every known node is in the array of its zone, once, and in no other;    *)
(* the zone list names each zone that has nodes once.  Otherwise next()    *)
(* returns a node twice per round, never, or the empty string (the case    *)
(* node_tree.go:48 logs as "should have been deleted from NodeTree").      *)
(* numNodes, which sizes every snapshot, counts the known nodes.  The      *)
(* indices never run past the slices they index by more than removals can  *)
(* explain.                                                                *)
TreeMatchesNodes ==
    /\ nt.zones \in Seq(Zones) /\ IsInjective(nt.zones)
    /\ Range(nt.zones) = DOMAIN nt.tree
    /\ DOMAIN nt.tree = Range(known)
    /\ \A z \in DOMAIN nt.tree :
          /\ IsInjective(nt.tree[z].nodes)
          /\ NamesOf(nt, z) = {n \in DOMAIN known : known[n] = z}
          /\ nt.tree[z].lastIndex \in 0..Cardinality(Names)
    /\ nt.zoneIndex \in 0..Cardinality(Zones)
    /\ nt.numNodes = Cardinality(DOMAIN known)

(* A node that a listing leaves out is in the next one, however many nodes *)
(* come in between: additions never push it back again.  (After a removal  *)
(* the indices point elsewhere and nothing is promised.)                   *)
LeftOutComesNext == leftOut \subseteq Range(TreeTake(nt, nt.numNodes).names)

=============================================================================
