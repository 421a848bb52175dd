-------------------------- MODULE NodeSearchProofs --------------------------
(***************************************************************************)
(* Theorems about a call of Schedule, for any number of nodes, any outcome *)
(* of the filters and any size of a batch: the unlocked appends never make *)
(* a search come back empty-handed, and the answer wrong only when the     *)
(* caller reads behind the end of an array.                                *)
(*                                                                         *)
(* Appends get lost, arrays are left behind and lengths are lowered.  Two  *)
(* things survive.  Nobody stores a length of 0, so that once a goroutine  *)
(* has appended the slice is never empty again; and whatever is in an      *)
(* array was put there, or copied, by goroutines whose node was wanted.    *)
(***************************************************************************)
EXTENDS NodeSearch, TLAPS

Slice   == [ptr : Nodes \cup {Nil}, len : Nat, cap : Nat]
Entries == Nodes \cup {Nil, Garbage}

Appending == {"ptr", "len", "cap", "full?", "putcap", "putptr", "reload", "putlen", "putelem"}
Steps     == Appending \cup {"idle", "start", "count", "done"}

TypeInv ==
    /\ world \in Worlds
    /\ phase \in {"search", "victims", "done"}
    /\ nodeList \subseteq Nodes /\ batch \subseteq Nodes
    /\ pc \in [Nodes -> Steps] /\ loc \in [Nodes -> Slice]
    /\ header \in Slice /\ heap \in [Nodes -> Seq(Entries)]

(* Only goroutines of wanted nodes append, and those of the batch run.     *)
GoroutinesOK ==
    /\ \A n \in Nodes : pc[n] \in Appending => Wanted(n)
    /\ \A n \in Nodes \ batch : pc[n] \in {"idle", "done"}
    /\ counted \subseteq batch
    /\ \A n \in counted : pc[n] = "done"

MemoryOK ==
    \A m \in Nodes : \A i \in 1..Len(heap[m]) : heap[m][i] \in Nodes => Wanted(heap[m][i])

(* The first search: the slice is empty as long as nobody has stored a     *)
(* length, and no node is passed over.                                     *)
LengthOK ==
    /\ header.len > 0 => world.preOK /\ world.fits # {}
    /\ header.len = 0 /\ world.preOK =>
          \A n \in world.fits : pc[n] \notin {"putelem", "count", "done"}

NoneSkipped ==
    IF world.large THEN \A n \in Nodes \ (nodeList \cup batch) : pc[n] = "done"
    ELSE nodeList = Nodes /\ batch \in {{}, Nodes}

IInv ==
    /\ TypeInv
    /\ phase # "done" => GoroutinesOK /\ MemoryOK /\ result.kind = "none"
    /\ phase = "search" => LengthOK /\ NoneSkipped
    /\ phase = "victims" => world.fits = {}
    /\ AnswerIsRight

-----------------------------------------------------------------------------
LEMMA WorldFacts ==
    ASSUME NEW w \in Worlds
    PROVE  /\ w.fits \subseteq Nodes /\ w.preemptable \subseteq Nodes
           /\ w.preOK \in BOOLEAN /\ w.large \in BOOLEAN
           /\ w.fits # {} => w.preOK
           /\ w.victims \subseteq w.preemptable
  BY DEF Worlds

(* An entry that is a node is one that is wanted.                          *)
LEMMA EntryWanted ==
    ASSUME TypeInv, MemoryOK, NEW ptr \in Nodes \cup {Nil}, NEW i \in Nat \ {0}
    PROVE  /\ Entry(ptr, i) \in Entries
           /\ Entry(ptr, i) \in Nodes => Wanted(Entry(ptr, i))
  <1>1. CASE ptr # Nil /\ i <= Len(heap[ptr])
    <2>1. heap[ptr] \in Seq(Entries) /\ ptr \in Nodes
      BY <1>1 DEF TypeInv
    <2>2. i \in 1..Len(heap[ptr])
      BY <1>1, <2>1
    <2>3. heap[ptr][i] \in Entries
      BY <2>1, <2>2
    <2> QED  BY <1>1, <2>1, <2>2, <2>3 DEF Entry, Within, MemoryOK
  <1>2. CASE ~(ptr # Nil /\ i <= Len(heap[ptr]))
    BY <1>2, SearchAssumption DEF Entry, Within, Entries
  <1> QED  BY <1>1, <1>2

(* The search has found a node when it is over, if one fits.               *)
LEMMA FoundOnlyIfFits == IInv => FoundIfFits
  <1> SUFFICES ASSUME IInv, phase = "search", SearchOver
               PROVE  header.len > 0 <=> world.preOK /\ world.fits # {}
    BY DEF FoundIfFits
  <1>1. LengthOK /\ NoneSkipped /\ GoroutinesOK /\ TypeInv
    BY DEF IInv
  <1>2. header.len \in Nat
    BY <1>1 DEF TypeInv, Slice
  <1>3. ASSUME world.preOK, NEW n \in world.fits, header.len = 0 PROVE FALSE
    <2>1. n \in Nodes /\ pc[n] # "done"
      BY <1>1, <1>3, WorldFacts DEF TypeInv, LengthOK
    <2>2. CASE world.large
      <3>1. n \in nodeList \cup batch
        BY <1>1, <2>1, <2>2 DEF NoneSkipped
      <3>2. batch # {} => counted = batch /\ nodeList = {}
        BY <1>3, <2>2, SearchAssumption DEF SearchOver, Awaited
      <3> QED  BY <1>1, <2>1, <3>1, <3>2 DEF SearchOver, GoroutinesOK
    <2>3. CASE ~world.large
      <3>1. nodeList = Nodes /\ batch \in {{}, Nodes}
        BY <1>1, <2>3 DEF NoneSkipped
      <3> QED  BY <2>1, <2>3, <3>1 DEF SearchOver, Awaited
    <2> QED  BY <2>2, <2>3
  <1> QED  BY <1>1, <1>2, <1>3 DEF LengthOK

-----------------------------------------------------------------------------
LEMMA InitIInv == Init => IInv
  <1> SUFFICES ASSUME Init PROVE IInv
    OBVIOUS
  <1>1. heap = [n \in Nodes |-> <<>>] /\ <<>> \in Seq(Entries) /\ NoSlice \in Slice
    BY DEF Init, Slice, NoSlice
  <1>2. TypeInv
    BY <1>1 DEF Init, TypeInv, Steps
  <1>3. GoroutinesOK /\ MemoryOK
    BY <1>1 DEF Init, GoroutinesOK, MemoryOK, Appending
  <1>4. LengthOK
    <2>1. world.fits \subseteq Nodes
      BY <1>2, WorldFacts DEF TypeInv
    <2>2. header.len = 0 /\ \A n \in Nodes : pc[n] = "idle"
      BY DEF Init, NoSlice
    <2> QED  BY <2>1, <2>2 DEF LengthOK
  <1>5. NoneSkipped
    BY DEF Init, NoneSkipped
  <1> QED  BY <1>2, <1>3, <1>4, <1>5 DEF Init, IInv, AnswerIsRight, Outcome, Ended

(* What a goroutine does to its own step and to the header.                *)
LEMMA GoroutineControl ==
    ASSUME IInv, phase # "done", NEW n \in Nodes, Goroutine(n), phase' # "done"
    PROVE  /\ GoroutinesOK'
           /\ phase = "search" => LengthOK' /\ NoneSkipped'
  <1>0. /\ TypeInv /\ GoroutinesOK /\ (phase = "search" => LengthOK /\ NoneSkipped)
        /\ UNCHANGED <<world, phase, nodeList, batch>>
    BY DEF IInv, Goroutine, Filter, LoadWord, Room, Grow, StoreCap, StorePtr, Reload, StoreLen,
           StoreElem, Put, Count, Panic, search
  <1>1. PICK next \in Steps : pc' = [pc EXCEPT ![n] = next] /\ pc[n] \notin {"idle", "done"}
    BY DEF Goroutine, Filter, LoadWord, Room, Grow, StoreCap, StorePtr, Reload, StoreLen,
           StoreElem, Count, Goto, Steps, Appending
  <1>2. pc \in [Nodes -> Steps] /\ n \in batch
    BY <1>0, <1>1 DEF TypeInv, GoroutinesOK
  <1>3. next \in Appending => Wanted(n)
    BY <1>0, <1>1, <1>2
       DEF Goroutine, Filter, LoadWord, Room, Grow, StoreCap, StorePtr, Reload, StoreLen,
           StoreElem, Count, Goto, GoroutinesOK, Appending
  <1>4. counted' = counted \/ (counted' = counted \cup {n} /\ next = "done")
    BY <1>1, <1>2 DEF Goroutine, Filter, LoadWord, Room, Grow, StoreCap, StorePtr, Reload,
           StoreLen, StoreElem, Count, Goto
  <1>5. \A m \in Nodes : Wanted(m)' <=> Wanted(m)
    BY <1>0 DEF Wanted
  <1>6. GoroutinesOK'
    BY <1>0, <1>1, <1>2, <1>3, <1>4, <1>5 DEF GoroutinesOK
  <1>7. ASSUME phase = "search" PROVE NoneSkipped'
    BY <1>0, <1>1, <1>2, <1>7 DEF NoneSkipped
  <1>8. ASSUME phase = "search" PROVE LengthOK'
    <2>1. header.len \in Nat /\ loc[n].len \in Nat
      BY <1>0 DEF TypeInv, Slice
    <2>2. CASE StoreLen(n)
      <3>1. header'.len = loc[n].len + 1
        BY <1>0, <2>2 DEF StoreLen, TypeInv, Slice
      <3>2. Wanted(n)
        BY <1>0, <2>2 DEF StoreLen, Goto, GoroutinesOK, Appending
      <3> QED  BY <1>0, <1>8, <2>1, <3>1, <3>2 DEF LengthOK, Wanted
    <2>3. CASE header'.len = header.len /\ (next \in {"putelem", "count", "done"} =>
                  header.len > 0 \/ pc[n] \in {"putelem", "count"} \/ ~Wanted(n))
      BY <1>0, <1>1, <1>2, <1>8, <2>1, <2>3 DEF LengthOK, Wanted
    <2>4. CASE Filter(n)
      <3>1. header' = header
        BY <2>4 DEF Filter, memory
      <3>2. next \in {"putelem", "count", "done"} => header.len > 0 \/ ~Wanted(n)
        BY <1>1, <1>2, <2>1, <2>4, SearchAssumption DEF Filter, Goto, Wanted
      <3> QED  BY <2>3, <3>1, <3>2
    <2>5. CASE \/ LoadWord(n, "ptr", "len") \/ LoadWord(n, "len", "cap")
               \/ LoadWord(n, "cap", "full?")
               \/ Room(n) \/ Grow(n) \/ StoreCap(n) \/ StorePtr(n) \/ Reload(n)
      <3>1. header'.len = header.len
        BY <1>0, <2>5 DEF LoadWord, Room, Grow, StoreCap, StorePtr, Reload, memory, TypeInv, Slice
      <3>2. next \notin {"putelem", "count", "done"}
        BY <1>1, <1>2, <2>5 DEF LoadWord, Room, Grow, StoreCap, StorePtr, Reload, Goto
      <3> QED  BY <2>3, <3>1, <3>2
    <2>6. CASE StoreElem(n) \/ Count(n)
      <3>1. header' = header /\ pc[n] \in {"putelem", "count"}
        BY <2>6 DEF StoreElem, Count, memory, Goto
      <3> QED  BY <2>3, <3>1
    <2> QED  BY <2>2, <2>4, <2>5, <2>6 DEF Goroutine
  <1> QED  BY <1>6, <1>7, <1>8

(* What a goroutine does to the memory.                                    *)
LEMMA GoroutineMemory ==
    ASSUME IInv, phase # "done", NEW n \in Nodes, Goroutine(n)
    PROVE  TypeInv' /\ (phase' # "done" => MemoryOK')
  <1>0. TypeInv /\ GoroutinesOK /\ MemoryOK
    BY DEF IInv
  <1>1. /\ world' = world /\ nodeList' = nodeList /\ batch' = batch
        /\ phase' \in {phase, "done"}
    BY DEF Goroutine, Filter, LoadWord, Room, Grow, StoreCap, StorePtr, Reload, StoreLen,
           StoreElem, Put, Count, Panic, search
  <1>2. pc' \in [Nodes -> Steps]
    BY <1>0 DEF TypeInv, Goroutine, Filter, LoadWord, Room, Grow, StoreCap, StorePtr, Reload,
           StoreLen, StoreElem, Count, Goto, Steps, Appending
  <1>3. phase' # "done" => \A m \in Nodes : Wanted(m)' <=> Wanted(m)
    BY <1>1 DEF Wanted
  <1>4. /\ loc[n] \in Slice /\ header \in Slice
    BY <1>0 DEF TypeInv
  <1>5. CASE heap' = heap
    <2>1. loc' \in [Nodes -> Slice] /\ header' \in Slice
      <3>1. ASSUME NEW l \in Slice, loc' = [loc EXCEPT ![n] = l], header' = header
            PROVE  loc' \in [Nodes -> Slice] /\ header' \in Slice
        BY <1>0, <1>4, <3>1 DEF TypeInv
      <3>2. ASSUME NEW h \in Slice, header' = h, loc' = loc
            PROVE  loc' \in [Nodes -> Slice] /\ header' \in Slice
        BY <1>0, <3>2 DEF TypeInv
      <3>3. CASE LoadWord(n, "ptr", "len")
        <4>1. [loc[n] EXCEPT !["ptr"] = header["ptr"]] \in Slice
          BY <1>4 DEF Slice
        <4>2. loc' = [loc EXCEPT ![n] = [loc[n] EXCEPT !["ptr"] = header["ptr"]]] /\ header' = header
          BY <3>3 DEF LoadWord, memory
        <4> QED  BY <3>1, <4>1, <4>2
      <3>4. CASE LoadWord(n, "len", "cap")
        <4>1. [loc[n] EXCEPT !["len"] = header["len"]] \in Slice
          BY <1>4 DEF Slice
        <4>2. loc' = [loc EXCEPT ![n] = [loc[n] EXCEPT !["len"] = header["len"]]] /\ header' = header
          BY <3>4 DEF LoadWord, memory
        <4> QED  BY <3>1, <4>1, <4>2
      <3>5. CASE LoadWord(n, "cap", "full?")
        <4>1. [loc[n] EXCEPT !["cap"] = header["cap"]] \in Slice
          BY <1>4 DEF Slice
        <4>2. loc' = [loc EXCEPT ![n] = [loc[n] EXCEPT !["cap"] = header["cap"]]] /\ header' = header
          BY <3>5 DEF LoadWord, memory
        <4> QED  BY <3>1, <4>1, <4>2
      <3>6. CASE Grow(n)
        <4> DEFINE size == Max2(loc[n].len + 1, 2 * loc[n].cap)
                   l == [loc[n] EXCEPT !.ptr = n, !.cap = size]
        <4>1. l \in Slice
          <5>1. size \in Nat
            BY <1>4 DEF Slice, Max2
          <5> HIDE DEF size
          <5> QED  BY <1>4, <5>1 DEF Slice
        <4>2. loc' = [loc EXCEPT ![n] = l] /\ header' = header
          BY <1>0, <3>6 DEF Grow, TypeInv
        <4> HIDE DEF l
        <4> QED  BY <3>1, <4>1, <4>2
      <3>7. CASE Reload(n)
        <4>1. CASE loc' = [loc EXCEPT ![n].ptr = header.ptr]
          <5>1. [loc[n] EXCEPT !.ptr = header.ptr] \in Slice
            BY <1>4 DEF Slice
          <5>2. loc' = [loc EXCEPT ![n] = [loc[n] EXCEPT !.ptr = header.ptr]] /\ header' = header
            BY <3>7, <4>1 DEF Reload, memory
          <5> QED  BY <3>1, <5>1, <5>2
        <4>2. CASE UNCHANGED loc
          BY <1>4, <3>2, <3>7, <4>2 DEF Reload, memory
        <4> QED  BY <3>7, <4>1, <4>2 DEF Reload
      <3>8. CASE StoreCap(n)
        BY <1>4, <3>2, <3>8 DEF StoreCap, Slice
      <3>9. CASE StorePtr(n)
        BY <1>4, <3>2, <3>9 DEF StorePtr, Slice
      <3>10. CASE StoreLen(n)
        BY <1>4, <3>2, <3>10 DEF StoreLen, Slice
      <3>11. CASE Filter(n) \/ Room(n) \/ StoreElem(n) \/ Count(n)
        BY <1>4, <3>2, <3>11 DEF Filter, Room, StoreElem, Count, memory
      <3> QED  BY <3>3, <3>4, <3>5, <3>6, <3>7, <3>8, <3>9, <3>10, <3>11 DEF Goroutine
    <2> QED  BY <1>0, <1>1, <1>2, <1>3, <1>5, <2>1 DEF TypeInv, MemoryOK
  <1>6. CASE Grow(n)
    <2> DEFINE size == Max2(loc[n].len + 1, 2 * loc[n].cap)
               new  == [i \in 1..size |-> IF i <= loc[n].len THEN Entry(loc[n].ptr, i) ELSE Nil]
    <2>1. size \in Nat
      BY <1>4 DEF Slice, Max2
    <2>2. ASSUME NEW i \in 1..size
          PROVE  new[i] \in Entries /\ (new[i] \in Nodes => Wanted(new[i]))
      <3>1. i \in Nat \ {0} /\ loc[n].ptr \in Nodes \cup {Nil}
        BY <1>4, <2>1 DEF Slice
      <3>2. /\ Entry(loc[n].ptr, i) \in Entries
            /\ Entry(loc[n].ptr, i) \in Nodes => Wanted(Entry(loc[n].ptr, i))
        BY <1>0, <3>1, EntryWanted
      <3>3. Nil \in Entries /\ Nil \notin Nodes
        BY SearchAssumption DEF Entries
      <3>4. new[i] = IF i <= loc[n].len THEN Entry(loc[n].ptr, i) ELSE Nil
        OBVIOUS
      <3> HIDE DEF new
      <3> QED  BY <3>2, <3>3, <3>4
    <2> HIDE DEF size
    <2>3. new \in Seq(Entries) /\ Len(new) = size
      <3>1. new \in [1..size -> Entries]
        BY <2>2
      <3> QED  BY <2>1, <3>1
    <2>4. heap' = [heap EXCEPT ![n] = new] /\ header' = header
      BY <1>6 DEF Grow, size
    <2>5. loc' \in [Nodes -> Slice]
      BY <1>0, <1>4, <1>6, <2>1 DEF Grow, TypeInv, Slice, size
    <2> HIDE DEF new
    <2>6. heap' \in [Nodes -> Seq(Entries)]
      BY <1>0, <2>3, <2>4 DEF TypeInv
    <2>7. ASSUME NEW m \in Nodes, NEW i \in 1..Len(heap'[m]), heap'[m][i] \in Nodes
          PROVE  Wanted(heap'[m][i])
      BY <1>0, <2>2, <2>3, <2>4, <2>7 DEF MemoryOK, TypeInv
    <2> QED  BY <1>0, <1>1, <1>2, <1>3, <2>4, <2>5, <2>6, <2>7 DEF TypeInv, MemoryOK
  <1>7. CASE StoreElem(n) /\ heap' # heap
    <2>1. PICK p \in Nodes : \E k \in 1..Len(heap[p]) : Put(n, p, k)
      <3>1. \A q \in Nodes : heap[q] \in Seq(Entries) /\ DOMAIN heap[q] = 1..Len(heap[q])
        BY <1>0 DEF TypeInv
      <3>2. CASE Put(n, loc[n].ptr, loc[n].len + 1)
        <4>1. loc[n].ptr \in Nodes /\ loc[n].len + 1 \in 1..Len(heap[loc[n].ptr])
          BY <1>4, <3>1, <3>2 DEF Put, Within, Slice
        <4> QED  BY <3>2, <4>1
      <3> QED  BY <1>7, <3>1, <3>2 DEF StoreElem
    <2>2. PICK j \in 1..Len(heap[p]) : Put(n, p, j)
      BY <2>1
    <2>3. /\ heap' = [heap EXCEPT ![p][j] = n]
          /\ loc' = loc /\ header' = header
      BY <1>7, <2>2 DEF StoreElem, Put
    <2>4. Wanted(n)
      BY <1>0, <1>7 DEF StoreElem, Goto, GoroutinesOK, Appending
    <2>5. heap[p] \in Seq(Entries)
      BY <1>0 DEF TypeInv
    <2> DEFINE new == [heap[p] EXCEPT ![j] = n]
    <2>6. new \in Seq(Entries) /\ Len(new) = Len(heap[p])
      BY <2>5 DEF Entries
    <2>7. \A i \in 1..Len(heap[p]) : new[i] = IF i = j THEN n ELSE heap[p][i]
      BY <2>5
    <2>8. heap' = [heap EXCEPT ![p] = new]
      BY <2>3
    <2> HIDE DEF new
    <2>9. heap' \in [Nodes -> Seq(Entries)]
      BY <1>0, <2>6, <2>8 DEF TypeInv
    <2>10. ASSUME NEW m \in Nodes, NEW i \in 1..Len(heap'[m]), heap'[m][i] \in Nodes
          PROVE  Wanted(heap'[m][i])
      BY <1>0, <2>4, <2>6, <2>7, <2>8, <2>10 DEF MemoryOK, TypeInv
    <2> QED  BY <1>0, <1>1, <1>2, <1>3, <2>3, <2>9, <2>10 DEF TypeInv, MemoryOK
  <1> QED
    BY <1>5, <1>6, <1>7 DEF Goroutine, Filter, LoadWord, Room, StoreCap, StorePtr, Reload,
       StoreLen, Count, memory

LEMMA GoroutinePreserves ==
    ASSUME IInv, phase # "done", NEW n \in Nodes, Goroutine(n)
    PROVE  IInv'
  <1>1. TypeInv' /\ (phase' # "done" => MemoryOK')
    BY GoroutineMemory
  <1>2. phase' # "done" => GoroutinesOK' /\ (phase = "search" => LengthOK' /\ NoneSkipped')
    BY GoroutineControl
  <1>3. /\ world' = world
        /\ \/ result' = result /\ phase' = phase
           \/ result'.kind = "panic" /\ phase' = "done"
    BY DEF Goroutine, Filter, LoadWord, Room, Grow, StoreCap, StorePtr, Reload, StoreLen,
           StoreElem, Put, Count, Panic, Ended, Outcome
  <1> QED  BY <1>1, <1>2, <1>3 DEF IInv, AnswerIsRight

-----------------------------------------------------------------------------
(* The caller starts goroutines, for the nodes of a new batch.             *)
LEMMA StartedPreserves ==
    ASSUME IInv, phase # "done", batch = {}, NEW b \in SUBSET nodeList, Started(b), batch' = b,
           UNCHANGED <<world, phase, loc, memory, counted, result>>,
           nodeList' = IF world.large THEN nodeList \ b ELSE nodeList,
           world.large \/ b = nodeList
    PROVE  IInv'
  <1>1. TypeInv /\ GoroutinesOK /\ MemoryOK
    BY DEF IInv
  <1>2. pc' \in [Nodes -> Steps]
    BY <1>1 DEF Started, TypeInv, Steps
  <1>3. TypeInv'
    BY <1>1, <1>2 DEF TypeInv, memory
  <1>4. MemoryOK'
    BY <1>1 DEF MemoryOK, Wanted, memory
  <1>5. GoroutinesOK'
    BY <1>1 DEF GoroutinesOK, Started, Wanted, Appending
  <1>6. ASSUME phase = "search" PROVE LengthOK' /\ NoneSkipped'
    <2>1. LengthOK /\ NoneSkipped
      BY <1>6 DEF IInv
    <2>2. world.fits \subseteq Nodes
      BY <1>1, WorldFacts DEF TypeInv
    <2>3. LengthOK'
      BY <1>1, <2>1, <2>2 DEF LengthOK, Started, memory
    <2>4. NoneSkipped'
      BY <1>1, <2>1 DEF NoneSkipped, Started, TypeInv
    <2> QED  BY <2>3, <2>4
  <1> QED  BY <1>3, <1>4, <1>5, <1>6 DEF IInv, AnswerIsRight

LEMMA CallerPreserves == IInv /\ Caller => IInv'
  <1> SUFFICES ASSUME IInv, Caller PROVE IInv'
    OBVIOUS
  <1>0. TypeInv
    BY DEF IInv
  <1>1. CASE SearchAll
    BY <1>1, StartedPreserves DEF SearchAll
  <1>2. CASE SearchSubset
    <2>1. PICK b \in Batches : batch' = b /\ Started(b)
      BY <1>2 DEF SearchSubset
    <2>2. b \subseteq nodeList
      BY <2>1 DEF Batches
    <2> QED  BY <1>2, <2>1, <2>2, StartedPreserves DEF SearchSubset
  <1>3. CASE NextBatch
    <2>1. TypeInv' /\ MemoryOK'
      BY <1>0, <1>3 DEF NextBatch, IInv, TypeInv, MemoryOK, Wanted, memory
    <2>2. GoroutinesOK'
      BY <1>3 DEF NextBatch, IInv, GoroutinesOK, Wanted
    <2>3. phase = "search" => LengthOK' /\ NoneSkipped'
      BY <1>3 DEF NextBatch, IInv, GoroutinesOK, LengthOK, NoneSkipped, memory
    <2> QED  BY <1>3, <2>1, <2>2, <2>3 DEF NextBatch, IInv, AnswerIsRight
  <1>4. ASSUME NEW r, Answer(r),
               r.kind = "node" => r.node \in world.fits \/ r.entry = Garbage,
               r.kind = "victim" =>
                  world.fits = {} /\ (r.node \in world.victims \/ r.entry = Garbage)
        PROVE  IInv'
    <2>1. TypeInv'
      BY <1>0, <1>4 DEF Answer, TypeInv, search, memory
    <2> QED  BY <1>4, <2>1 DEF Answer, IInv, AnswerIsRight
  <1>5. \A e \in Entries : Denotes(e) \subseteq Nodes
        /\ \A n \in Denotes(e) : n = e \/ e = Garbage
    BY SearchAssumption DEF Entries, Denotes
  <1>6. ASSUME phase # "done", NEW i \in 1..header.len
        PROVE  /\ Entry(header.ptr, i) \in Entries
               /\ Entry(header.ptr, i) \in Nodes => Wanted(Entry(header.ptr, i))
    <2>1. header.ptr \in Nodes \cup {Nil} /\ header.len \in Nat
      BY <1>0 DEF TypeInv, Slice
    <2>2. i \in Nat \ {0}
      BY <2>1
    <2>3. MemoryOK
      BY <1>6 DEF IInv
    <2> QED  BY <1>0, <2>1, <2>2, <2>3, EntryWanted
  <1>7. CASE Select
    <2>1. ASSUME NEW e \in Found, NEW n \in Denotes(e), Answer(Outcome("node", n, e))
          PROVE  IInv'
      <3>1. PICK i \in 1..header.len : e = Entry(header.ptr, i)
        BY DEF Found
      <3>2. n \in Nodes /\ (n = e \/ e = Garbage)
        BY <1>5, <1>6, <1>7, <3>1 DEF Select
      <3>3. n \in world.fits \/ e = Garbage
        BY <1>6, <1>7, <3>1, <3>2 DEF Select, Wanted
      <3> QED  BY <1>4, <2>1, <3>3 DEF Outcome
    <2>2. CASE Answer(Ended("panic"))
      BY <1>4, <2>2 DEF Ended, Outcome
    <2> QED  BY <1>7, <2>1, <2>2 DEF Select
  <1>8. CASE Refuse
    BY <1>4, <1>8 DEF Refuse, Ended, Outcome
  <1>9. CASE SearchVictims
    <2>1. world.fits = {}
      BY <1>0, <1>9, FoundOnlyIfFits, WorldFacts DEF SearchVictims, FoundIfFits, TypeInv
    <2>2. heap' = [n \in Nodes |-> <<>>] /\ <<>> \in Seq(Entries) /\ NoSlice \in Slice
      BY <1>9 DEF SearchVictims, Slice, NoSlice
    <2>3. TypeInv'
      BY <1>0, <1>9, <2>2 DEF SearchVictims, TypeInv, Steps
    <2>4. GoroutinesOK' /\ MemoryOK'
      BY <1>9, <2>2 DEF SearchVictims, GoroutinesOK, MemoryOK, Appending
    <2> QED  BY <1>9, <2>1, <2>3, <2>4 DEF SearchVictims, IInv, AnswerIsRight
  <1>10. CASE SelectVictim
    <2>2. world.fits = {}
      BY <1>10 DEF SelectVictim, IInv
    <2>3. CASE Answer(Ended("error")) \/ Answer(Ended("panic"))
      BY <1>4, <2>3 DEF Ended, Outcome
    <2>4. ASSUME NEW i \in 1..header.len, NEW n \in Denotes(Entry(header.ptr, i)),
                 Entry(header.ptr, i) \notin world.preemptable \ world.victims,
                 Answer(Outcome("victim", n, Entry(header.ptr, i)))
          PROVE  IInv'
      <3>1. n \in Nodes /\ (n = Entry(header.ptr, i) \/ Entry(header.ptr, i) = Garbage)
        BY <1>5, <1>6, <1>10 DEF SelectVictim
      <3>2. n \in world.victims \/ Entry(header.ptr, i) = Garbage
        BY <1>6, <1>10, <2>4, <3>1 DEF SelectVictim, Wanted
      <3> QED  BY <1>4, <2>2, <2>4, <3>2 DEF Outcome
    <2> QED  BY <1>10, <2>3, <2>4 DEF SelectVictim
  <1> QED
    BY <1>1, <1>2, <1>3, <1>7, <1>8, <1>9, <1>10 DEF Caller

LEMMA Inductive == IInv /\ [Next]_vars => IInv'
  <1> SUFFICES ASSUME IInv, [Next]_vars PROVE IInv'
    OBVIOUS
  <1>1. CASE UNCHANGED vars
    BY <1>1 DEF vars, search, memory, IInv, TypeInv, GoroutinesOK, MemoryOK, LengthOK,
                NoneSkipped, AnswerIsRight, Wanted
  <1> QED  BY <1>1, CallerPreserves, GoroutinePreserves DEF Next

(* Whatever the unlocked appends lose, a search that is over has found a   *)
(* node exactly if one fits.                                               *)
THEOREM SearchFindsWhatFits == Spec => []FoundIfFits
  BY InitIInv, Inductive, FoundOnlyIfFits, PTL DEF Spec

(* Whatever they leave in the slice and its arrays, the answer names a     *)
(* node that passed the filters, or a victim when none did, unless it was  *)
(* read from behind the end of an array.                                   *)
THEOREM RightAnswer == Spec => []AnswerIsRight
  <1>1. IInv => AnswerIsRight
    BY DEF IInv
  <1> QED  BY InitIInv, Inductive, <1>1, PTL DEF Spec
=============================================================================
