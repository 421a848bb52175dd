----------------------------- MODULE NodeSearch -----------------------------
(***************************************************************************)
(* One call of Scheduler.Schedule (scheduler/scheduler.go): goroutines run *)
(* the filters on the nodes and append those that fit to one slice without *)
(* a lock; when none fits, a second search looks for nodes on which a pod  *)
(* can be preempted.  Up to 50 nodes are searched at once and awaited; of  *)
(* more nodes (large) a batch is taken off the list at a time, and the     *)
(* caller spins until it has enough nodes or the whole batch was counted.  *)
(*                                                                         *)
(* The statement that appends a node compiles to three loads of the slice  *)
(* header, a new array when it is full (whose capacity and address are     *)
(* then stored), a store of the length and one of the element; each is a   *)
(* step here.  Scores are left out: any node that was found may be best.   *)
(***************************************************************************)
EXTENDS Naturals, FiniteSets, Sequences, Functions

CONSTANTS
    Nodes,           \* the entries of the snapshot's node list
    NumViable,       \* numOfViable: how many nodes a large search asks for
    Nil,             \* the array of an empty slice, an entry never written
    Garbage          \* what lies behind the end of an array

ASSUME SearchAssumption ==
    /\ IsFiniteSet(Nodes) /\ {Nil, Garbage} \cap Nodes = {} /\ Nil # Garbage
    /\ NumViable \in Nat \ {0}

VARIABLES
    world,           \* the input: [large, preOK, fits, preemptable, victims, mayPreempt]
    phase,           \* "search", "victims" (for preemption), "done"
    nodeList,        \* nodes not handed out to a goroutine yet
    batch,           \* the nodes of the goroutines being awaited
    pc, loc,         \* of the goroutine of each node: its step and registers
    header, heap,    \* viableNodes and the arrays, named by who allocated them
    counted,         \* the goroutines in the counter a of their batch
    result           \* what the call returns, or "panic", and the slice's
                     \* entry the node was read from

search == <<nodeList, batch>>
memory == <<header, heap>>
vars   == <<world, phase, search, pc, loc, memory, counted, result>>

Outcome(kind, n, entry) == [kind |-> kind, node |-> n, entry |-> entry]
Ended(kind) == Outcome(kind, Nil, Nil)

NoSlice == [ptr |-> Nil, len |-> 0, cap |-> 0]

(* Which nodes pass the filters, fail but for NodeResourcesFit, and have a *)
(* pod that getPodToPreempt takes.                                         *)
Worlds ==
    {w \in [large : BOOLEAN, preOK : BOOLEAN, fits : SUBSET Nodes,
            preemptable : SUBSET Nodes, victims : SUBSET Nodes, mayPreempt : BOOLEAN] :
        /\ w.preOK \/ w.fits \cup w.preemptable = {}
        /\ w.preemptable \cap w.fits = {}
        /\ w.victims \subseteq w.preemptable}

Init ==
    /\ world \in Worlds
    /\ phase = "search" /\ nodeList = Nodes /\ batch = {}
    /\ pc = [n \in Nodes |-> "idle"] /\ loc = [n \in Nodes |-> NoSlice]
    /\ header = NoSlice /\ heap = [n \in Nodes |-> <<>>]
    /\ counted = {}
    /\ result = Ended("none")

Wanted(n) == world.preOK /\ n \in (IF phase = "search" THEN world.fits ELSE world.preemptable)

-----------------------------------------------------------------------------
(* A goroutine.  Only the counting ones of a large search need a lock.     *)
Goto(n, from, to) == pc[n] = from /\ pc' = [pc EXCEPT ![n] = to]

(* Mutant: a node is appended whatever the filters say. *)
FilterIgnored(n) ==
    /\ Goto(n, "start", "ptr")
    /\ UNCHANGED <<world, phase, search, loc, memory, counted, result>>

(* Mutant: only the nodes that fit are counted. *)
FilterUncounted(n) ==
    /\ Goto(n, "start", IF Wanted(n) THEN "ptr" ELSE "done")
    /\ UNCHANGED <<world, phase, search, loc, memory, counted, result>>

(* PreFilter and Filter.  Whoever fails PreFilter is not counted; a large  *)
(* search looks at the length once more before it appends.                 *)
Filter(n) ==
    /\ Goto(n, "start",
            IF ~world.preOK THEN "done"
            ELSE IF ~Wanted(n) THEN "count"
            ELSE IF world.large /\ phase = "search" /\ header.len > NumViable THEN "count"
            ELSE "ptr")
    /\ UNCHANGED <<world, phase, search, loc, memory, counted, result>>

LoadWord(n, word, next) ==
    /\ Goto(n, word, next)
    /\ loc' = [loc EXCEPT ![n][word] = header[word]]
    /\ UNCHANGED <<world, phase, search, memory, counted, result>>

(* An array that is full is left for one of twice the size, which gets the *)
(* first len entries of the old one.                                       *)
Within(ptr, i) == ptr # Nil /\ i <= Len(heap[ptr])

Entry(ptr, i) == IF Within(ptr, i) THEN heap[ptr][i] ELSE Garbage

Max2(a, b) == IF a > b THEN a ELSE b

Grow(n) ==
    LET old == loc[n]
        size == Max2(old.len + 1, 2 * old.cap)
    IN  /\ old.len + 1 > old.cap
        /\ Goto(n, "full?", "putcap")
        /\ heap' = [heap EXCEPT ![n] =
                      [i \in 1..size |-> IF i <= old.len THEN Entry(old.ptr, i) ELSE Nil]]
        /\ loc' = [loc EXCEPT ![n].ptr = n, ![n].cap = size]
        /\ UNCHANGED <<world, phase, search, header, counted, result>>

Room(n) ==
    /\ loc[n].len + 1 <= loc[n].cap
    /\ Goto(n, "full?", "putlen")
    /\ UNCHANGED <<world, phase, search, loc, memory, counted, result>>

StoreCap(n) ==
    /\ Goto(n, "putcap", "putptr")
    /\ header' = [header EXCEPT !.cap = loc[n].cap]
    /\ UNCHANGED <<world, phase, search, loc, heap, counted, result>>

StorePtr(n) ==
    /\ Goto(n, "putptr", "reload")
    /\ header' = [header EXCEPT !.ptr = loc[n].ptr]
    /\ UNCHANGED <<world, phase, search, loc, heap, counted, result>>

(* The address just stored is read again, or was kept in a register.       *)
Reload(n) ==
    /\ Goto(n, "reload", "putlen")
    /\ \/ loc' = [loc EXCEPT ![n].ptr = header.ptr]
       \/ UNCHANGED loc
    /\ UNCHANGED <<world, phase, search, memory, counted, result>>

StoreLen(n) ==
    /\ Goto(n, "putlen", "putelem")
    /\ header' = [header EXCEPT !.len = loc[n].len + 1]
    /\ UNCHANGED <<world, phase, search, loc, heap, counted, result>>

(* A store behind the end of the array goes to other memory: it is lost,   *)
(* is one to another array of the slice, or ends the process.  (Other      *)
(* variables it may hit are left out.)                                     *)
Panic == result' = Ended("panic") /\ phase' = "done"

Put(n, ptr, i) == Within(ptr, i) /\ heap' = [heap EXCEPT ![ptr][i] = n] /\ UNCHANGED <<phase, result>>

StoreElem(n) ==
    LET p == loc[n].ptr
        i == loc[n].len + 1
    IN  /\ Goto(n, "putelem", "count")
        /\ \/ Put(n, p, i)
           \/ /\ ~Within(p, i)
              /\ \/ \E q \in Nodes : \E k \in DOMAIN heap[q] : Put(n, q, k)
                 \/ UNCHANGED <<heap, phase, result>>
                 \/ Panic /\ UNCHANGED heap
        /\ UNCHANGED <<world, search, loc, header, counted>>

Count(n) ==
    /\ Goto(n, "count", "done")
    /\ counted' = counted \cup {n}
    /\ UNCHANGED <<world, phase, search, loc, memory, result>>

Goroutine(n) ==
    \/ Filter(n)
    \/ LoadWord(n, "ptr", "len") \/ LoadWord(n, "len", "cap") \/ LoadWord(n, "cap", "full?")
    \/ Room(n) \/ Grow(n) \/ StoreCap(n) \/ StorePtr(n) \/ Reload(n)
    \/ StoreLen(n) \/ StoreElem(n) \/ Count(n)

-----------------------------------------------------------------------------
(* The caller starts goroutines for the whole list, or for as many as      *)
(* getSubset takes off it.  The nodes were shuffled.                       *)
Started(b) == pc' = [n \in Nodes |-> IF n \in b THEN "start" ELSE pc[n]]

SearchAll ==
    /\ phase # "done" /\ batch = {} /\ nodeList # {}
    /\ ~world.large
    /\ batch' = nodeList
    /\ Started(nodeList)
    /\ UNCHANGED <<world, phase, nodeList, loc, memory, counted, result>>

(* getSubset: numOfViable*2 nodes, or what is left.                        *)
Batches ==
    IF Cardinality(nodeList) <= 2 * NumViable THEN {nodeList}
    ELSE {b \in SUBSET nodeList : Cardinality(b) = 2 * NumViable}

(* Mutant: the nodes that are not in the first batch are forgotten. *)
SearchSubsetDropsRest ==
    /\ phase # "done" /\ batch = {} /\ nodeList # {}
    /\ world.large
    /\ \E b \in Batches : batch' = b /\ Started(b)
    /\ nodeList' = {}
    /\ UNCHANGED <<world, phase, loc, memory, counted, result>>

SearchSubset ==
    /\ phase # "done" /\ batch = {} /\ nodeList # {}
    /\ world.large
    /\ \E b \in Batches :
         /\ batch' = b /\ Started(b)
         /\ nodeList' = nodeList \ b
    /\ UNCHANGED <<world, phase, loc, memory, counted, result>>

(* wg.Wait; or the loop of processSubset that reads the counter and the    *)
(* length without the lock and goes on with the rest of the list.          *)
Awaited ==
    IF world.large THEN header.len >= NumViable \/ counted = batch
    ELSE \A n \in batch : pc[n] = "done"

NextBatch ==
    /\ phase # "done" /\ batch # {} /\ nodeList # {}
    /\ world.large
    /\ counted = batch /\ header.len < NumViable
    /\ batch' = {} /\ counted' = {}
    /\ UNCHANGED <<world, phase, nodeList, pc, loc, memory, result>>

(* The search is over when it has enough nodes or no more to look at.      *)
SearchOver ==
    /\ phase # "done"
    /\ IF batch = {} THEN nodeList = {}
       ELSE /\ Awaited
            /\ world.large => header.len >= NumViable \/ nodeList = {}

Found == {Entry(header.ptr, i) : i \in 1..header.len}

(* The nodes an entry may lead to when it is dereferenced.  What lies      *)
(* behind the end of an array may be the address of any node.              *)
Denotes(e) == IF e = Garbage THEN Nodes ELSE {e} \ {Nil}

MayPanic(e) == e \in {Nil, Garbage}

Answer(r) ==
    /\ result' = r
    /\ phase' = "done"
    /\ UNCHANGED <<world, search, pc, loc, memory, counted>>

(* prioritizeNodes dereferences every entry; one of the best is chosen.    *)
Select ==
    /\ phase = "search" /\ SearchOver
    /\ header.len > 0
    /\ \/ /\ Nil \notin Found
          /\ \E e \in Found : \E n \in Denotes(e) : Answer(Outcome("node", n, e))
       \/ \E e \in Found : MayPanic(e) /\ Answer(Ended("panic"))

Refuse ==
    /\ phase = "search" /\ SearchOver
    /\ header.len = 0 /\ ~world.mayPreempt
    /\ Answer(Ended("error"))

(* The second search gets an empty slice, and the node list as the first   *)
(* one has left it: after a large search nothing, so that it makes no      *)
(* difference that lenOfArr was lowered and may choose the other function. *)
SearchVictims ==
    /\ phase = "search" /\ SearchOver
    /\ header.len = 0 /\ world.mayPreempt
    /\ phase' = "victims"
    /\ batch' = {} /\ counted' = {}
    /\ header' = NoSlice /\ heap' = [n \in Nodes |-> <<>>]
    /\ pc' = [n \in Nodes |-> "idle"] /\ loc' = [n \in Nodes |-> NoSlice]
    /\ UNCHANGED <<world, nodeList, result>>

(* The first entry with a pod to preempt is taken, in the order found; a   *)
(* stray one leads to a node with such a pod or to one without.            *)
SelectVictim ==
    LET entry(i) == Entry(header.ptr, i)
        mayFail(i) == entry(i) \in {Garbage} \cup (world.preemptable \ world.victims)
        reached == {i \in 1..header.len : \A k \in 1..(i-1) : mayFail(k)}
    IN  /\ phase = "victims" /\ SearchOver
        /\ \/ (\A i \in 1..header.len : mayFail(i)) /\ Answer(Ended("error"))
           \/ \E i \in reached : \E n \in Denotes(entry(i)) :
                /\ entry(i) \notin world.preemptable \ world.victims
                /\ Answer(Outcome("victim", n, entry(i)))
           \/ \E i \in reached : MayPanic(entry(i)) /\ Answer(Ended("panic"))

Caller ==
    \/ SearchAll \/ SearchSubset \/ NextBatch
    \/ Select \/ Refuse \/ SearchVictims \/ SelectVictim

(* Goroutines a large search leaves behind are not followed any further.   *)
Next == Caller \/ \E n \in Nodes : phase # "done" /\ Goroutine(n)

Spec == Init /\ [][Next]_vars

(* The Go scheduler preempts a spinning caller; every goroutine goes on.   *)
FairSpec ==
    /\ Spec
    /\ WF_vars(Caller)
    /\ \A n \in Nodes : WF_vars(phase # "done" /\ Goroutine(n))

-----------------------------------------------------------------------------
(* Although appends get lost, a search over nodes of which some fit never  *)
(* comes back empty-handed, and one over nodes of which none fits always   *)
(* does: no pod is put off for a race, and none preempts when there is     *)
(* room.                                                                   *)
FoundIfFits ==
    phase = "search" /\ SearchOver => (header.len > 0 <=> world.preOK /\ world.fits # {})

(* Whatever the goroutines do to the slice and its arrays, an answer names *)
(* a node that passed the filters, or, when no node did, one that failed   *)
(* for resources only and has a pod to preempt.  The exception is a torn   *)
(* slice, whose length is not that of its array: an entry read, or copied, *)
(* from behind an array's end may lead to any node.  Not even then is a    *)
(* pod preempted while a node has room.                                    *)
AnswerIsRight ==
    /\ result.kind = "node" => result.node \in world.fits \/ result.entry = Garbage
    /\ result.kind = "victim" =>
          world.fits = {} /\ (result.node \in world.victims \/ result.entry = Garbage)

(* A call returns (or panics) when the PreFilter plugins accept the pod:   *)
(* no batch is awaited that cannot be counted completely.                  *)
CallReturns == world.preOK ~> phase = "done"

(* scheduler.go:485: "processFullsetPremption is used for finding viable   *)
(* nodes for premption by searching the whole list of nodes".  Then a pod  *)
(* that may preempt is refused only when no node has a pod to preempt.     *)
RefusedForNoVictim ==
    result.kind = "error" /\ world.preOK /\ world.mayPreempt => world.victims = {}
=============================================================================
