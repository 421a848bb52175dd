------------------------- MODULE VolumeBinderProofs -------------------------
(***************************************************************************)
(* The volume binder for any pods, nodes, claims and volumes, and any      *)
(* number of faults: a claimRef is never taken over, both caches implement *)
(* AssumedView, no assumption leaks, and a bound pod's node reaches its    *)
(* volumes.                                                                *)
(*                                                                         *)
(* A volume is chosen from the cache, assumed, kept with the decision, and *)
(* written by a goroutine much later.  The invariant follows the object    *)
(* along: what the cache, a decision or a goroutine holds of a volume is   *)
(* an older version of it, or the current one with a claimRef added at     *)
(* most.  An update carries the version of the object, so that it writes a *)
(* claimRef only where the current one is empty or the same; and as no     *)
(* object is newer than what the informer has shown, whatever the informer *)
(* shows next ends an assumption.                                          *)
(*                                                                         *)
(* For the leaks the invariant goes on: a claim or a volume that is        *)
(* assumed has a reason, that a pod which it was assumed for has it in     *)
(* flight, or that a newer version was written, or that the pod was        *)
(* deleted (Excused).  That an update was a real change follows from what  *)
(* is assumed being incomplete at the informers (FullIsFinal) and what is  *)
(* to be written complete (WorkComplete).                                  *)
(*                                                                         *)
(* For the volumes of a bound pod it goes on once more: each claim of a    *)
(* pod on its way is among what is to be written, or has a volume the node *)
(* reaches and keeps it (BindersCover); a claim's volume refers to it      *)
(* (ClaimsBoundTo), and a volume written for a claim is alone in that,     *)
(* unless two were recorded (WrittenAlone).                                *)
(***************************************************************************)
EXTENDS VolumeBinder, ListTheorems

-----------------------------------------------------------------------------
VolumeObjects ==
    {o \in [claim : Claims \cup {Nil}, full : BOOLEAN, ours : BOOLEAN,
            phase : {"Available", "Bound", "Released"}, version : Nat \ {0}] :
        o.full => o.claim # Nil}

ClaimObjects ==
    [volume : Volumes \cup {Nil}, completed : BOOLEAN, selected : Nodes \cup {Nil},
     version : Nat \ {0}]

(* What a decision holds: as found, or with what is assumed.               *)
Bindings ==
    [claim : Claims, name : Volumes, obj : VolumeObjects, dirty : BOOLEAN]
    \cup [claim : Claims, name : Volumes, obj : VolumeObjects]

Provisionings ==
    [name : Claims, obj : ClaimObjects, dirty : BOOLEAN] \cup [name : Claims, obj : ClaimObjects]

Cached(objects) == [latest : objects, api : objects]

Binders ==
    {None} \cup [stage : {"assumed"}, node : Nodes]
    \cup [stage : {"update"}, node : Nodes, bindings : Seq(Bindings), claims : Seq(Provisionings),
          volumesDone : Nat, claimsDone : Nat]

TypesOK ==
    /\ uses \in [Pods -> SUBSET Claims]
    /\ DOMAIN pvs \subseteq Volumes /\ DOMAIN pvcs \subseteq Claims
    /\ \A v \in DOMAIN pvs : pvs[v] \in VolumeObjects
    /\ \A c \in DOMAIN pvcs : pvcs[c] \in ClaimObjects
    /\ DOMAIN pvCache \subseteq DOMAIN pvs
    /\ DOMAIN pvcs \subseteq DOMAIN pvcCache /\ DOMAIN pvcCache \subseteq Claims
    /\ pvCache \in [DOMAIN pvCache -> Cached(VolumeObjects)]
    /\ pvcCache \in [DOMAIN pvcCache -> Cached(ClaimObjects)]
    /\ loop \in [pod : Pods \cup {Nil}, left : SUBSET Nodes, fit : SUBSET Nodes]
    /\ bind \in [Pods -> Binders]
    /\ process \in Nat

(* o is an older version of cur, or cur with what may be added to it.      *)
VolumeFollows(o, cur) ==
    /\ o.version <= cur.version
    /\ o.version = cur.version => cur.claim \in {Nil, o.claim} /\ (cur.full => o.full)

ClaimFollows(o, cur) ==
    /\ o.version <= cur.version
    /\ o.version = cur.version =>
          /\ o.volume = cur.volume /\ o.completed = cur.completed
          /\ cur.selected \in {Nil, o.selected}

CachesFollow ==
    /\ \A v \in DOMAIN pvCache :
          /\ VolumeFollows(pvCache[v].api, pvs[v])
          /\ VolumeFollows(pvCache[v].latest, pvCache[v].api)
          /\ pvCache[v].latest.version = pvCache[v].api.version
    /\ \A c \in DOMAIN pvcCache :
          /\ ClaimFollows(pvcCache[c].latest, pvcCache[c].api)
          /\ pvcCache[c].latest.version = pvcCache[c].api.version

BindingFollows(b) ==
    /\ b.name \in DOMAIN pvCache
    /\ VolumeFollows(b.obj, pvCache[b.name].api)
    /\ b.obj.claim \in {Nil, b.claim}

ProvisioningFollows(c, n) ==
    /\ c.obj.selected \in {Nil, n}
    /\ c.name \in DOMAIN pvcCache => ClaimFollows(c.obj, pvcCache[c.name].api)

DecisionFollows(d, n) ==
    /\ d.bindings \in Seq(Bindings) /\ d.provisionings \in Seq(Provisionings)
    /\ \A i \in DOMAIN d.bindings : BindingFollows(d.bindings[i])
    /\ \A i \in DOMAIN d.provisionings : ProvisioningFollows(d.provisionings[i], n)

DecisionsFollow ==
    /\ DOMAIN decisions \subseteq Pods
    /\ \A p \in DOMAIN decisions : \A n \in DOMAIN decisions[p] :
           DecisionFollows(decisions[p][n], n)

BindersFollow ==
    \A p \in Pods : bind[p].stage = "update" =>
        \A i \in DOMAIN bind[p].bindings :
            /\ bind[p].bindings[i].name \in DOMAIN pvs
            /\ VolumeFollows(bind[p].bindings[i].obj, pvs[bind[p].bindings[i].name])

BInv == TypesOK /\ CachesFollow /\ DecisionsFollow /\ BindersFollow

-----------------------------------------------------------------------------
(* What AssumeAll leaves of a cache, from step to step.                    *)
Progress(D, objects, n) == [cache : [D -> Cached(objects)], failed : 0..n]

Assumable(items, objects) ==
    \A i \in 1..Len(items) : items[i].obj \in objects /\ items[i].dirty \in BOOLEAN

(* One item, and the fold over all of them as a function on positions.     *)
LEMMA AssumeNextType ==
    ASSUME NEW D, NEW objects, NEW n \in Nat, NEW items, NEW i \in 1..n,
           items[i].obj \in objects, items[i].dirty \in BOOLEAN,
           NEW acc \in Progress(D, objects, n)
    PROVE  AssumeNext(items, acc, i) \in Progress(D, objects, n)
<1>1. acc.cache \in [D -> Cached(objects)] /\ acc.failed \in 0..n
  BY DEF Progress
<1>2. CASE acc.failed # 0 \/ ~items[i].dirty
  BY <1>2 DEF AssumeNext
<1>3. CASE /\ ~(acc.failed # 0 \/ ~items[i].dirty)
           /\ ~CanAssume(acc.cache, items[i].name, items[i].obj)
  <2>1. AssumeNext(items, acc, i) = [acc EXCEPT !.failed = i]
    BY <1>3 DEF AssumeNext
  <2>2. i \in 0..n
    OBVIOUS
  <2>3. QED
    BY <1>1, <2>1, <2>2 DEF Progress
<1>4. CASE /\ ~(acc.failed # 0 \/ ~items[i].dirty)
           /\ CanAssume(acc.cache, items[i].name, items[i].obj)
  <2>1. AssumeNext(items, acc, i)
          = [acc EXCEPT !.cache = CacheAssume(@, items[i].name, items[i].obj)]
    BY <1>4 DEF AssumeNext
  <2>2. CacheAssume(acc.cache, items[i].name, items[i].obj) \in [D -> Cached(objects)]
    BY <1>1, <1>4 DEF CacheAssume, CanAssume, Known, Cached
  <2>3. QED
    BY <1>1, <2>1, <2>2 DEF Progress
<1>5. QED
  BY <1>2, <1>3, <1>4

AssumedAt(c, items, base, q, s) ==
    IF s = {} THEN base ELSE AssumeNext(items, c[s \ {Max(s)}], q[Max(s)])

IsAssumeFold(c, items, base, q) ==
    c = [s \in SUBSET DOMAIN q |-> AssumedAt(c, items, base, q, s)]

LEMMA AssumeFoldExists ==
    ASSUME NEW D, NEW objects, NEW items, Len(items) \in Nat, Assumable(items, objects),
           NEW base \in Progress(D, objects, Len(items))
    PROVE  \E c : IsAssumeFold(c, items, base, [i \in 1..Len(items) |-> i])
<1> DEFINE n == Len(items)
           q == [i \in 1..n |-> i]
           V == Progress(D, objects, n)
           g == [w \in (1..n) \X V |-> AssumeNext(items, w[2], w[1])]
<1>1. n \in Nat /\ DOMAIN q = 1..n /\ base \in V /\ \A i \in 1..n : q[i] = i
  OBVIOUS
<1>2. \A i \in 1..n, v \in V : g[<<i, v>>] = AssumeNext(items, v, i)
  OBVIOUS
<1>3. \A i \in 1..n, v \in V : g[<<i, v>>] \in V
  BY <1>1, <1>2, AssumeNextType DEF Assumable
<1> HIDE DEF n, g, q, V
<1>4. PICK c : LastFirst(c, n, V, base, g)
  BY <1>1, <1>3, LastFirstExists
<1>5. /\ c \in [SUBSET (1..n) -> V] /\ c[{}] = base
      /\ \A s \in SUBSET (1..n) :
            s # {} => Max(s) \in s /\ c[s] = g[<<Max(s), c[s \ {Max(s)}]>>]
  BY <1>4, Zenon DEF LastFirst
<1>6. ASSUME NEW s \in SUBSET (1..n) PROVE c[s] = AssumedAt(c, items, base, q, s)
  <2>1. CASE s = {}
    BY <1>5, <2>1 DEF AssumedAt
  <2>2. CASE s # {}
    <3>1. Max(s) \in 1..n /\ c[s \ {Max(s)}] \in V
      BY <1>5, <2>2
    <3>2. c[s] = AssumeNext(items, c[s \ {Max(s)}], Max(s)) /\ q[Max(s)] = Max(s)
      BY <1>1, <1>2, <1>5, <2>2, <3>1
    <3>3. QED
      BY <2>2, <3>2 DEF AssumedAt
  <2>3. QED
    BY <2>1, <2>2
<1>7. c = [s \in SUBSET (1..n) |-> AssumedAt(c, items, base, q, s)]
  <2>1. c = [s \in SUBSET (1..n) |-> c[s]]
    BY <1>5
  <2>2. QED
    BY <1>6, <2>1, Zenon
<1>8. IsAssumeFold(c, items, base, q)
  BY <1>1, <1>7, Zenon DEF IsAssumeFold
<1>9. QED
  BY <1>8, Zenon DEF q, n

AssumeRun(h, cache, items) ==
    /\ h[0] = [cache |-> cache, failed |-> 0]
    /\ AssumeAll(cache, items) = h[Len(items)]
    /\ \A k \in 1..Len(items) : h[k] = AssumeNext(items, h[k-1], k)

LEMMA AssumeSteps ==
    ASSUME NEW D, NEW objects, NEW items, Len(items) \in Nat, Assumable(items, objects),
           NEW cache \in [D -> Cached(objects)]
    PROVE  \E h : AssumeRun(h, cache, items)
<1> DEFINE n == Len(items)
           q == [i \in 1..n |-> i]
           base == [cache |-> cache, failed |-> 0]
           c == CHOOSE d : IsAssumeFold(d, items, base, q)
           h == [k \in 0..n |-> c[1..k]]
<1>1. AssumeAll(cache, items) = c[DOMAIN q]
  BY Zenon DEF AssumeAll, FoldLeft, MapThenFoldSet, IsAssumeFold, AssumedAt
<1>2. base \in Progress(D, objects, n)
  BY DEF Progress
<1>3. IsAssumeFold(c, items, base, q)
  BY <1>2, AssumeFoldExists, Zenon
<1> HIDE DEF c, base
<1>4. n \in Nat /\ DOMAIN q = 1..n /\ \A i \in 1..n : q[i] = i
  OBVIOUS
<1> HIDE DEF q
<1>5. \A s \in SUBSET (1..n) : c[s] = AssumedAt(c, items, base, q, s)
  BY <1>3, <1>4 DEF IsAssumeFold
<1>6. \A k \in 0..n : h[k] = c[1..k]
  OBVIOUS
<1> HIDE DEF h, n
<1>7. h[0] = base
  <2>1. 1..0 = {} /\ 0 \in 0..n
    BY <1>4
  <2>2. c[{}] = base
    BY <1>5 DEF AssumedAt
  <2>3. QED
    BY <1>6, <2>1, <2>2
<1>8. ASSUME NEW k \in 1..n PROVE h[k] = AssumeNext(items, h[k-1], k)
  <2>1. Max(1..k) = k /\ (1..k) \ {k} = 1..k-1
    BY <1>4, PrefixFacts
  <2>2. 1..k \in SUBSET (1..n) /\ 1..k # {} /\ k \in 0..n /\ k-1 \in 0..n
    <3>1. k \in Nat /\ 1 <= k /\ k <= n
      BY <1>4
    <3>2. k \in 1..k /\ k \in 0..n /\ k-1 \in 0..n
      BY <1>4, <3>1
    <3>3. \A i \in 1..k : i \in 1..n
      BY <1>4, <3>1
    <3>4. QED
      BY <3>2, <3>3
  <2>3. c[1..k] = AssumeNext(items, c[1..k-1], k)
    BY <1>4, <1>5, <2>1, <2>2 DEF AssumedAt
  <2>4. QED
    BY <1>6, <2>2, <2>3
<1>9. h[n] = c[1..n]
  BY <1>4, <1>6
<1>10. AssumeRun(h, cache, items)
  BY <1>1, <1>4, <1>7, <1>8, <1>9, Zenon DEF n, base, AssumeRun
<1>11. QED
  BY <1>10, Zenon

(* AssumeAll replaces what is assumed of the names of dirty items, and of  *)
(* those before the one that failed only.  When no item is newer than what *)
(* the cache shows, every version stays.                                   *)
AssumedFrom(items, i, x, o) == items[i].dirty /\ items[i].name = x /\ items[i].obj = o

Kept(new, old, items, k) ==
    \A x \in DOMAIN old :
        /\ new[x].api = old[x].api
        /\ new[x].latest.version = old[x].latest.version
        /\ \/ new[x].latest = old[x].latest
           \/ \E i \in 1..k : AssumedFrom(items, i, x, new[x].latest)

NoNewer(cache, items) ==
    \A i \in 1..Len(items) :
        items[i].name \in DOMAIN cache =>
            items[i].obj.version <= cache[items[i].name].latest.version

Versioned(objects) == \A o \in objects : o.version \in Nat

LEMMA AssumeAllFacts ==
    ASSUME NEW D, NEW objects, Versioned(objects), NEW items, Len(items) \in Nat,
           Assumable(items, objects),
           NEW cache \in [D -> Cached(objects)], NoNewer(cache, items)
    PROVE  LET r == AssumeAll(cache, items)
           IN  /\ r.failed \in 0..Len(items)
               /\ r.cache \in [D -> Cached(objects)]
               /\ Kept(r.cache, cache, items, IF r.failed = 0 THEN Len(items) ELSE r.failed - 1)
<1>0. PICK h : AssumeRun(h, cache, items)
  BY AssumeSteps
<1> DEFINE n == Len(items)
<1>1. /\ h[0] = [cache |-> cache, failed |-> 0]
      /\ AssumeAll(cache, items) = h[n]
      /\ \A k \in 1..n : h[k] = AssumeNext(items, h[k-1], k)
  BY <1>0, Zenon DEF AssumeRun
<1>2. n \in Nat /\ DOMAIN cache = D
  OBVIOUS
<1> DEFINE T == {k \in 0..n : /\ h[k] \in Progress(D, objects, n)
                              /\ h[k].failed \in 0..k
                              /\ Kept(h[k].cache, cache, items,
                                      IF h[k].failed = 0 THEN k ELSE h[k].failed - 1)}
<1> HIDE DEF n
<1>3. 0 \in T
  <2>1. h[0].cache = cache /\ h[0].failed = 0
    BY <1>1
  <2>2. h[0] \in Progress(D, objects, n)
    BY <1>1, <1>2 DEF Progress
  <2>3. Kept(cache, cache, items, 0)
    BY DEF Kept
  <2>4. QED
    BY <1>2, <2>1, <2>2, <2>3
<1>4. ASSUME NEW k \in 0..n, k < n, k \in T PROVE k + 1 \in T
  <2> DEFINE i == k + 1
             acc == h[k]
  <2>1. i \in 1..n /\ i \in 0..n /\ i - 1 = k /\ k \in Nat /\ i \in Nat
    BY <1>2, <1>4
  <2>2. h[i] = AssumeNext(items, acc, i)
    <3>1. h[i] = AssumeNext(items, h[i-1], i)
      BY <1>1, <2>1, Zenon
    <3>2. QED
      BY <2>1, <3>1, Zenon
  <2>3. /\ acc \in Progress(D, objects, n) /\ acc.failed \in 0..k
        /\ Kept(acc.cache, cache, items, IF acc.failed = 0 THEN k ELSE acc.failed - 1)
        /\ acc.cache \in [D -> Cached(objects)]
    BY <1>4 DEF Progress
  <2>4. items[i].obj \in objects /\ items[i].dirty \in BOOLEAN
    BY <2>1 DEF Assumable, n
  <2>5. h[i] \in Progress(D, objects, n)
    BY <1>2, <2>1, <2>2, <2>3, <2>4, AssumeNextType
  <2> HIDE DEF acc, i
  <2>6. CASE acc.failed # 0 \/ ~items[i].dirty
    <3>1. h[i] = acc
      BY <2>2, <2>6 DEF AssumeNext
    <3>2. CASE acc.failed # 0
      BY <2>1, <2>3, <2>5, <3>1, <3>2 DEF i
    <3>3. CASE acc.failed = 0
      <4>1. Kept(acc.cache, cache, items, i)
        BY <2>1, <2>3, <3>3 DEF Kept, i
      <4>2. QED
        BY <2>1, <2>5, <3>1, <3>3, <4>1 DEF i
    <3>4. QED
      BY <3>2, <3>3
  <2>7. CASE acc.failed = 0 /\ items[i].dirty /\ CanAssume(acc.cache, items[i].name, items[i].obj)
    <3> DEFINE x == items[i].name
    <3>1. h[i] = [acc EXCEPT !.cache = CacheAssume(acc.cache, x, items[i].obj)]
      BY <2>2, <2>7, Zenon DEF AssumeNext
    <3>2. /\ h[i].cache = [acc.cache EXCEPT ![x].latest = items[i].obj] /\ h[i].failed = 0
      <4>1. acc.cache = acc["cache"]
        OBVIOUS
      <4>2. h[i].cache = CacheAssume(acc.cache, x, items[i].obj) /\ h[i].failed = acc.failed
        BY <2>3, <3>1 DEF Progress
      <4>3. QED
        BY <2>7, <4>2 DEF CacheAssume
    <3>3. x \in D /\ items[i].obj.version >= acc.cache[x].latest.version
      BY <2>3, <2>7 DEF CanAssume, Known
    <3>4. items[i].obj.version <= cache[x].latest.version
      BY <1>2, <2>1, <3>3 DEF NoNewer, n
    <3>5. items[i].obj.version = cache[x].latest.version
      <4>1. acc.cache[x].latest.version = cache[x].latest.version
        BY <1>2, <2>3, <3>3 DEF Kept
      <4>2. items[i].obj.version \in Nat /\ cache[x].latest.version \in Nat
        BY <2>4, <3>3 DEF Versioned, Cached
      <4>3. QED
        BY <3>3, <3>4, <4>1, <4>2
    <3>6. ASSUME NEW y \in D
          PROVE  /\ h[i].cache[y].api = cache[y].api
                 /\ h[i].cache[y].latest.version = cache[y].latest.version
                 /\ \/ h[i].cache[y].latest = cache[y].latest
                    \/ \E j \in 1..i : AssumedFrom(items, j, y, h[i].cache[y].latest)
      <4>1. CASE y = x
        <5>1. h[i].cache[x].latest = items[i].obj /\ h[i].cache[x].api = acc.cache[x].api
          BY <2>3, <3>2, <3>3 DEF Cached
        <5>2. AssumedFrom(items, i, x, items[i].obj)
          BY <2>7 DEF AssumedFrom
        <5>3. acc.cache[x].api = cache[x].api
          BY <1>2, <2>3, <3>3 DEF Kept
        <5>4. i \in 1..i
          BY <2>1
        <5>5. QED
          BY <3>5, <4>1, <5>1, <5>2, <5>3, <5>4
      <4>2. CASE y # x
        <5>1. h[i].cache[y] = acc.cache[y]
          BY <2>3, <3>2, <4>2
        <5>2. \A j \in 1..k : j \in 1..i
          BY <2>1
        <5>3. QED
          BY <1>2, <2>3, <2>7, <5>1, <5>2 DEF Kept
      <4>3. QED
        BY <4>1, <4>2
    <3>7. Kept(h[i].cache, cache, items, i)
      BY <1>2, <3>6 DEF Kept
    <3>8. QED
      BY <2>1, <2>5, <3>2, <3>7 DEF i
  <2>8. CASE acc.failed = 0 /\ items[i].dirty /\ ~CanAssume(acc.cache, items[i].name, items[i].obj)
    <3>1. h[i] = [acc EXCEPT !.failed = i]
      BY <2>2, <2>8, Zenon DEF AssumeNext
    <3>2. h[i].cache = acc.cache /\ h[i].failed = i
      BY <2>3, <3>1 DEF Progress
    <3>3. Kept(h[i].cache, cache, items, i - 1)
      BY <2>1, <2>3, <2>8, <3>2
    <3>4. QED
      BY <2>1, <2>5, <3>2, <3>3 DEF i
  <2>9. items[i].dirty = TRUE \/ items[i].dirty = FALSE
    BY <2>4
  <2>10. QED
    BY <2>6, <2>7, <2>8, <2>9
<1> HIDE DEF T
<1>5. n \in T
  <2>1. 0..n \subseteq T
    BY <1>2, <1>3, <1>4, UpTo
  <2>2. QED
    BY <1>2, <2>1
<1>6. QED
  BY <1>1, <1>2, <1>5 DEF T, n, Progress

-----------------------------------------------------------------------------
(* What FindMatchingVolumes returns: bindings of volumes that refer to no  *)
(* claim or to that of the binding, and the claims without one.            *)
Pair(b, lists) ==
    LET objs == lists[ClaimSpec(b.claim).class]
    IN  b.volume \in DOMAIN objs /\ objs[b.volume].claim \in {Nil, b.claim}

Pairs(claims, lists) ==
    {b \in [claim : claims, volume : Volumes] : Pair(b, lists)}

Matches(claims, lists) == [bindings : Seq(Pairs(claims, lists)), unbound : Seq(claims)]

ListsVolumes(claims, lists) ==
    \A c \in claims : DOMAIN lists[ClaimSpec(c).class] \subseteq Volumes

(* A volume that matches refers to no claim or to this one, and so do all  *)
(* that the fold over the claims collects.                                 *)
LEMMA MatchingVolume ==
    ASSUME NEW c, NEW objs, DOMAIN objs \subseteq Volumes, NEW node, NEW excluded,
           NEW v \in FindMatchingVolume(c, objs, node, excluded), v # Nil
    PROVE  v \in DOMAIN objs /\ objs[v].claim \in {Nil, c}
<1>1. ASSUME NEW w \in Candidates(c, objs, excluded)
      PROVE  w \in DOMAIN objs /\ objs[w].claim \in {Nil, c}
  BY <1>1 DEF Candidates, IsVolumeBoundToClaim
<1>2. ASSUME NEW w \in Smallest(Suitable(c, objs, node, excluded))
      PROVE  w \in Candidates(c, objs, excluded)
  BY <1>2 DEF Smallest, Suitable
<1>3. v \in Candidates(c, objs, excluded)
  <2> DEFINE prebound == {w \in Candidates(c, objs, excluded) : IsVolumeBoundToClaim(objs[w], c)}
             best == Smallest(Suitable(c, objs, node, excluded))
  <2>1. FindMatchingVolume(c, objs, node, excluded)
          = IF prebound # {} THEN {IF CheckNodeAffinity(w, node) THEN w ELSE Nil : w \in prebound}
            ELSE IF best # {} THEN best ELSE {Nil}
    BY Zenon DEF FindMatchingVolume
  <2>2. CASE prebound # {}
    BY <2>1, <2>2
  <2>3. CASE prebound = {} /\ best # {}
    BY <1>2, <2>1, <2>3
  <2>4. CASE prebound = {} /\ best = {}
    BY <2>1, <2>4
  <2>5. QED
    BY <2>2, <2>3, <2>4
<1>4. QED
  BY <1>1, <1>3

LEMMA ExtendedType ==
    ASSUME NEW claims, NEW lists, ListsVolumes(claims, lists), NEW node, NEW c \in claims,
           NEW acc \in Matches(claims, lists), NEW new \in Extended(acc, c, node, lists)
    PROVE  new \in Matches(claims, lists)
<1> DEFINE objs == lists[ClaimSpec(c).class]
           taken == {b.volume : b \in ToSet(acc.bindings)}
<1>1. PICK v \in FindMatchingVolume(c, objs, node, taken) :
         new = IF v = Nil THEN [acc EXCEPT !.unbound = Append(@, c)]
               ELSE [acc EXCEPT !.bindings = Append(@, [claim |-> c, volume |-> v])]
  BY Zenon DEF Extended
<1>2. acc.bindings \in Seq(Pairs(claims, lists)) /\ acc.unbound \in Seq(claims)
  BY DEF Matches
<1>3. CASE v = Nil
  <2>1. new = [acc EXCEPT !.unbound = Append(acc.unbound, c)]
    BY <1>1, <1>3
  <2>2. Append(acc.unbound, c) \in Seq(claims)
    BY <1>2
  <2>3. QED
    BY <2>1, <2>2 DEF Matches
<1>4. CASE v # Nil
  <2>1. v \in DOMAIN objs /\ objs[v].claim \in {Nil, c} /\ v \in Volumes
    <3>1. DOMAIN objs \subseteq Volumes
      BY DEF ListsVolumes
    <3>2. QED
      BY <1>1, <1>4, <3>1, MatchingVolume
  <2> DEFINE b == [claim |-> c, volume |-> v]
  <2>2. b \in Pairs(claims, lists)
    BY <2>1 DEF Pairs, Pair
  <2>3. new = [acc EXCEPT !.bindings = Append(acc.bindings, b)]
    BY <1>1, <1>4
  <2> HIDE DEF b
  <2>4. Append(acc.bindings, b) \in Seq(Pairs(claims, lists))
    BY <1>2, <2>2
  <2>5. QED
    BY <2>3, <2>4 DEF Matches
<1>5. QED
  BY <1>3, <1>4

LEMMA AllExtendedType ==
    ASSUME NEW claims, NEW lists, ListsVolumes(claims, lists), NEW node, NEW c \in claims,
           NEW results \in SUBSET Matches(claims, lists)
    PROVE  AllExtended(results, c, node, lists) \in SUBSET Matches(claims, lists)
<1>1. \A acc \in results : \A new \in Extended(acc, c, node, lists) : new \in Matches(claims, lists)
  BY ExtendedType
<1>2. QED
  BY <1>1 DEF AllExtended

MatchedAt(f, node, lists, base, q, s) ==
    IF s = {} THEN base ELSE AllExtended(f[s \ {Max(s)}], q[Max(s)], node, lists)

IsMatchFold(f, node, lists, base, q) ==
    f = [s \in SUBSET DOMAIN q |-> MatchedAt(f, node, lists, base, q, s)]

LEMMA MatchFoldExists ==
    ASSUME NEW claims, NEW lists, ListsVolumes(claims, lists), NEW node, NEW q \in Seq(claims),
           NEW base \in SUBSET Matches(claims, lists)
    PROVE  \E f : IsMatchFold(f, node, lists, base, q)
<1> DEFINE n == Len(q)
           V == SUBSET Matches(claims, lists)
           g == [w \in (1..n) \X V |-> AllExtended(w[2], q[w[1]], node, lists)]
<1>1. n \in Nat /\ DOMAIN q = 1..n /\ \A i \in 1..n : q[i] \in claims
  OBVIOUS
<1>2. base \in V
  OBVIOUS
<1>3. \A i \in 1..n, v \in V : g[<<i, v>>] = AllExtended(v, q[i], node, lists)
  OBVIOUS
<1>4. \A i \in 1..n, v \in V : g[<<i, v>>] \in V
  BY <1>1, <1>3, AllExtendedType
<1> HIDE DEF n, g, V
<1>5. PICK f : LastFirst(f, n, V, base, g)
  BY <1>1, <1>2, <1>4, LastFirstExists
<1>6. /\ f \in [SUBSET (1..n) -> V] /\ f[{}] = base
      /\ \A s \in SUBSET (1..n) :
            s # {} => Max(s) \in s /\ f[s] = g[<<Max(s), f[s \ {Max(s)}]>>]
  BY <1>5, Zenon DEF LastFirst
<1>7. ASSUME NEW s \in SUBSET (1..n) PROVE f[s] = MatchedAt(f, node, lists, base, q, s)
  <2>1. CASE s = {}
    BY <1>6, <2>1 DEF MatchedAt
  <2>2. CASE s # {}
    <3>1. Max(s) \in 1..n /\ f[s \ {Max(s)}] \in V
      BY <1>6, <2>2
    <3>2. f[s] = AllExtended(f[s \ {Max(s)}], q[Max(s)], node, lists)
      BY <1>3, <1>6, <2>2, <3>1
    <3>3. QED
      BY <2>2, <3>2 DEF MatchedAt
  <2>3. QED
    BY <2>1, <2>2
<1>8. f = [s \in SUBSET (1..n) |-> MatchedAt(f, node, lists, base, q, s)]
  <2>1. f = [s \in SUBSET (1..n) |-> f[s]]
    BY <1>6
  <2>2. QED
    BY <1>7, <2>1, Zenon
<1>9. IsMatchFold(f, node, lists, base, q)
  BY <1>1, <1>8, Zenon DEF IsMatchFold
<1>10. QED
  BY <1>9, Zenon

(* Sequences of all elements of a set.                                     *)
LEMMA ListsHaveAll ==
    ASSUME NEW S, IsFiniteSet(S), NEW q \in [1..Cardinality(S) -> S],
           \A i, j \in 1..Cardinality(S) : i # j => q[i] # q[j]
    PROVE  \A x \in S : \E i \in DOMAIN q : q[i] = x
<1> DEFINE n == Cardinality(S)
<1>1. n \in Nat
  BY FS_CardinalityType
<1>2. IsFiniteSet(1..n) /\ Cardinality(1..n) = n
  BY <1>1, FS_Interval
<1>3. q \in Injection(1..n, S)
  BY DEF Injection, IsInjective
<1>4. q \in Surjection(1..n, S)
  BY <1>2, <1>3, FS_Injection
<1>5. QED
  BY <1>4 DEF Surjection

LEMMA ElementsListed ==
    ASSUME NEW S, IsFiniteSet(S)
    PROVE  \A x \in S : \E i \in DOMAIN SetToSeq(S) : SetToSeq(S)[i] = x
<1>1. Cardinality(S) \in Nat /\ ExistsBijection(1..Cardinality(S), S)
  BY FS_CardinalityType
<1>2. PICK f \in Bijection(1..Cardinality(S), S) : TRUE
  BY <1>1 DEF ExistsBijection
<1>3. f \in [1..Cardinality(S) -> S] /\ IsInjective(f)
  BY <1>2 DEF Bijection, Injection, IsInjective
<1>4. SetToSeq(S) \in [1..Cardinality(S) -> S] /\ IsInjective(SetToSeq(S))
  BY <1>3 DEF SetToSeq
<1>5. PICK q : q = SetToSeq(S)
  OBVIOUS
<1>6. \A i, j \in 1..Cardinality(S) : i # j => q[i] # q[j]
  BY <1>4, <1>5 DEF IsInjective
<1>7. q \in [1..Cardinality(S) -> S]
  BY <1>4, <1>5
<1>8. \A x \in S : \E i \in DOMAIN q : q[i] = x
  BY <1>6, <1>7, ListsHaveAll
<1>9. QED
  BY <1>5, <1>8
(* The claims that a result answers, with a volume or without.             *)
Answers(m, claims) ==
    \A c \in claims : \/ \E i \in DOMAIN m.bindings : m.bindings[i].claim = c
                      \/ \E i \in DOMAIN m.unbound : m.unbound[i] = c

LEMMA ExtendedAnswers ==
    ASSUME NEW claims, NEW lists, NEW node, NEW c, NEW done,
           NEW acc \in Matches(claims, lists), Answers(acc, done),
           NEW new \in Extended(acc, c, node, lists)
    PROVE  Answers(new, done \cup {c})
<1> DEFINE objs == lists[ClaimSpec(c).class]
           taken == {b.volume : b \in ToSet(acc.bindings)}
<1>1. PICK v \in FindMatchingVolume(c, objs, node, taken) :
         new = IF v = Nil THEN [acc EXCEPT !.unbound = Append(@, c)]
               ELSE [acc EXCEPT !.bindings = Append(@, [claim |-> c, volume |-> v])]
  BY Zenon DEF Extended
<1>2. PICK bs, us : bs = acc.bindings /\ us = acc.unbound
  OBVIOUS
<1>3. bs \in Seq(Pairs(claims, lists)) /\ us \in Seq(claims) /\ DOMAIN acc = {"bindings", "unbound"}
  BY <1>2 DEF Matches
<1>4. \A x : /\ \A i \in DOMAIN us : i \in DOMAIN Append(us, x) /\ Append(us, x)[i] = us[i]
             /\ \E i \in DOMAIN Append(us, x) : Append(us, x)[i] = x
             /\ \A i \in DOMAIN bs : i \in DOMAIN Append(bs, x) /\ Append(bs, x)[i] = bs[i]
             /\ \E i \in DOMAIN Append(bs, x) : Append(bs, x)[i] = x
  <2>1. ASSUME NEW S, NEW s \in Seq(S), NEW x
        PROVE  /\ \A i \in DOMAIN s : i \in DOMAIN Append(s, x) /\ Append(s, x)[i] = s[i]
               /\ \E i \in DOMAIN Append(s, x) : Append(s, x)[i] = x
    <3>1. Len(s) \in Nat /\ DOMAIN s = 1..Len(s)
      OBVIOUS
    <3>2. /\ DOMAIN Append(s, x) = 1..(Len(s) + 1) /\ Append(s, x)[Len(s) + 1] = x
          /\ \A i \in 1..Len(s) : Append(s, x)[i] = s[i]
      <4>1. s \in Seq(S \cup {x})
        OBVIOUS
      <4>2. QED
        BY <3>1, <4>1
    <3>3. QED
      BY <3>1, <3>2
  <2>2. \A x : /\ \A i \in DOMAIN us : i \in DOMAIN Append(us, x) /\ Append(us, x)[i] = us[i]
               /\ \E i \in DOMAIN Append(us, x) : Append(us, x)[i] = x
    BY <1>3, <2>1, Zenon
  <2>3. \A x : /\ \A i \in DOMAIN bs : i \in DOMAIN Append(bs, x) /\ Append(bs, x)[i] = bs[i]
               /\ \E i \in DOMAIN Append(bs, x) : Append(bs, x)[i] = x
    BY <1>3, <2>1, Zenon
  <2>4. QED
    BY <2>2, <2>3, Zenon
<1>5. CASE v = Nil
  <2>1. new.unbound = Append(us, c) /\ new.bindings = bs
    BY <1>1, <1>2, <1>3, <1>5
  <2>2. QED
    BY <1>2, <1>4, <2>1 DEF Answers
<1>6. CASE v # Nil
  <2> DEFINE b == [claim |-> c, volume |-> v]
  <2>1. new.bindings = Append(bs, b) /\ new.unbound = us
    BY <1>1, <1>2, <1>3, <1>6
  <2>2. b.claim = c
    OBVIOUS
  <2> HIDE DEF b
  <2>3. QED
    BY <1>2, <1>4, <2>1, <2>2 DEF Answers
<1>7. QED
  BY <1>5, <1>6

LEMMA MatchesAnswer ==
    ASSUME NEW claims, IsFiniteSet(claims), NEW lists, ListsVolumes(claims, lists), NEW node,
           NEW m \in FindMatchingVolumes(claims, node, lists)
    PROVE  m \in Matches(claims, lists) /\ Answers(m, claims)
<1> DEFINE base == {[bindings |-> <<>>, unbound |-> <<>>]}
<1>1. PICK q \in ByPVCSize(claims) :
         m \in FoldLeft(LAMBDA results, c : AllExtended(results, c, node, lists), base, q)
  BY Zenon DEF FindMatchingVolumes
<1>2. /\ q \in Seq(claims)
      /\ \A x \in claims : \E i \in DOMAIN q : q[i] = x
  <2>1. Cardinality(claims) \in Nat
    BY FS_CardinalityType
  <2>2. /\ q \in [1..Cardinality(claims) -> claims]
        /\ \A i, j \in 1..Cardinality(claims) : i # j => q[i] # q[j]
    BY DEF ByPVCSize, SetToSeqs
  <2>3. q \in Seq(claims)
    BY <2>1, <2>2
  <2>4. QED
    BY <2>2, <2>3, ListsHaveAll
<1>3. base \in SUBSET Matches(claims, lists)
  <2>1. <<>> \in Seq(claims) /\ <<>> \in Seq(Pairs(claims, lists))
    OBVIOUS
  <2>2. QED
    BY <2>1 DEF Matches
<1> DEFINE f == CHOOSE d : IsMatchFold(d, node, lists, base, q)
<1>4. FoldLeft(LAMBDA results, c : AllExtended(results, c, node, lists), base, q) = f[DOMAIN q]
  BY Zenon DEF FoldLeft, MapThenFoldSet, IsMatchFold, MatchedAt
<1>5. IsMatchFold(f, node, lists, base, q)
  BY <1>2, <1>3, MatchFoldExists, Zenon
<1> HIDE DEF base, f
<1> DEFINE n == Len(q)
           V == SUBSET Matches(claims, lists)
           done(s) == {q[i] : i \in s}
           T == {s \in SUBSET (1..n) : f[s] \in V /\ \A r \in f[s] : Answers(r, done(s))}
<1>6. n \in Nat /\ DOMAIN q = 1..n /\ \A i \in 1..n : q[i] \in claims
  BY <1>2
<1>7. \A s \in SUBSET (1..n) : f[s] = MatchedAt(f, node, lists, base, q, s)
  BY <1>5, <1>6 DEF IsMatchFold
<1> HIDE DEF n, V
<1>8. ASSUME NEW s \in SUBSET (1..n), \A x \in s : s \ {x} \in T PROVE s \in T
  <2>1. CASE s = {}
    <3>1. f[s] = base
      BY <1>7, <2>1 DEF MatchedAt
    <3>2. \A r : Answers(r, done(s))
      BY <2>1 DEF Answers
    <3>3. QED
      BY <1>3, <3>1, <3>2 DEF V
  <2>2. CASE s # {}
    <3>1. IsFiniteSet(1..n) /\ s \in SUBSET Int
      BY <1>6, FS_Interval
    <3>2. PICK k : k = Max(s) /\ k \in s
      <4>1. IsFiniteSet(s)
        BY <3>1, FS_Subset
      <4>2. QED
        BY <2>2, <3>1, <4>1, MaxOf
    <3>3. f[s \ {k}] \in V /\ \A r \in f[s \ {k}] : Answers(r, done(s \ {k}))
      BY <1>8, <3>2
    <3>4. f[s] = AllExtended(f[s \ {k}], q[k], node, lists)
      BY <1>7, <2>2, <3>2 DEF MatchedAt
    <3>5. q[k] \in claims
      BY <1>6, <3>2
    <3>6. f[s] \in V
      <4>1. PICK rs : rs = f[s \ {k}]
        OBVIOUS
      <4>2. rs \in SUBSET Matches(claims, lists)
        BY <3>3, <4>1 DEF V
      <4>3. AllExtended(rs, q[k], node, lists) \in SUBSET Matches(claims, lists)
        BY <3>5, <4>2, AllExtendedType
      <4>4. QED
        BY <3>4, <4>1, <4>3 DEF V
    <3>7. done(s) = done(s \ {k}) \cup {q[k]}
      BY <3>2
    <3> HIDE DEF done
    <3>8. ASSUME NEW r \in f[s] PROVE Answers(r, done(s))
      <4>1. PICK acc \in f[s \ {k}] : r \in Extended(acc, q[k], node, lists)
        BY <3>4 DEF AllExtended
      <4>2. acc \in Matches(claims, lists) /\ Answers(acc, done(s \ {k}))
        BY <3>3 DEF V
      <4>3. QED
        BY <3>7, <4>1, <4>2, ExtendedAnswers
    <3>9. QED
      BY <3>6, <3>8
  <2>3. QED
    BY <2>1, <2>2
<1>9. SUBSET (1..n) \subseteq T
  <2>1. IsFiniteSet(1..n)
    BY <1>6, FS_Interval
  <2>2. \A s \in SUBSET (1..n) : (\A x \in s : s \ {x} \in T) => s \in T
    BY <1>8
  <2> HIDE DEF T
  <2>3. PICK D, U : D = 1..n /\ U = T
    OBVIOUS
  <2>4. IsFiniteSet(D) /\ \A s \in SUBSET D : (\A x \in s : s \ {x} \in U) => s \in U
    BY <2>1, <2>2, <2>3
  <2>5. SUBSET D \subseteq U
    BY <2>4, SubsetsUpTo
  <2>6. QED
    BY <2>3, <2>5
<1>10. f[1..n] \in V /\ \A r \in f[1..n] : Answers(r, done(1..n))
  BY <1>9
<1>11. claims \subseteq done(1..n)
  BY <1>2, <1>6
<1>12. m \in f[1..n]
  BY <1>1, <1>4, <1>6
<1>13. QED
  BY <1>10, <1>11, <1>12 DEF V, Answers

-----------------------------------------------------------------------------
(* Following is kept when what is followed gets newer, and is transitive.  *)
Moved(old, new) == new = old \/ new.version > old.version

LEMMA VolumeFollowsMoved ==
    ASSUME NEW o \in VolumeObjects, NEW a \in VolumeObjects, NEW b \in VolumeObjects,
           VolumeFollows(o, a), Moved(a, b)
    PROVE  VolumeFollows(o, b)
<1>1. o.version \in Nat /\ a.version \in Nat /\ b.version \in Nat
  BY DEF VolumeObjects
<1>2. CASE b = a
  BY <1>2
<1>3. CASE b.version > a.version
  BY <1>1, <1>3 DEF VolumeFollows
<1>4. QED
  BY <1>2, <1>3 DEF Moved

LEMMA ClaimFollowsMoved ==
    ASSUME NEW o \in ClaimObjects, NEW a \in ClaimObjects, NEW b \in ClaimObjects,
           ClaimFollows(o, a), Moved(a, b)
    PROVE  ClaimFollows(o, b)
<1>1. o.version \in Nat /\ a.version \in Nat /\ b.version \in Nat
  BY DEF ClaimObjects
<1>2. CASE b = a
  BY <1>2
<1>3. CASE b.version > a.version
  BY <1>1, <1>3 DEF ClaimFollows
<1>4. QED
  BY <1>2, <1>3 DEF Moved

LEMMA VolumeFollowsThrough ==
    ASSUME NEW o \in VolumeObjects, NEW a \in VolumeObjects, NEW b \in VolumeObjects,
           VolumeFollows(o, a), VolumeFollows(a, b)
    PROVE  VolumeFollows(o, b)
<1>1. o.version \in Nat /\ a.version \in Nat /\ b.version \in Nat
  BY DEF VolumeObjects
<1>2. o.version <= b.version
  BY <1>1 DEF VolumeFollows
<1>3. ASSUME o.version = b.version PROVE b.claim \in {Nil, o.claim} /\ (b.full => o.full)
  <2>1. o.version = a.version /\ a.version = b.version
    BY <1>1, <1>3 DEF VolumeFollows
  <2>2. QED
    BY <2>1 DEF VolumeFollows
<1>4. QED
  BY <1>2, <1>3 DEF VolumeFollows

LEMMA FollowsSelf ==
    /\ \A o \in VolumeObjects : VolumeFollows(o, o)
    /\ \A o \in ClaimObjects : ClaimFollows(o, o)
  BY DEF VolumeFollows, ClaimFollows, VolumeObjects, ClaimObjects

-----------------------------------------------------------------------------
(* The fields of what the caches hold.                                     *)
LEMMA CachedVolume ==
    ASSUME TypesOK, NEW v \in DOMAIN pvCache
    PROVE  /\ v \in DOMAIN pvs /\ v \in Volumes /\ pvs[v] \in VolumeObjects
           /\ pvCache[v] \in Cached(VolumeObjects)
           /\ pvCache[v].latest \in VolumeObjects /\ pvCache[v].api \in VolumeObjects
<1>1. pvCache[v] \in Cached(VolumeObjects)
  BY DEF TypesOK
<1>2. QED
  BY <1>1 DEF TypesOK, Cached

LEMMA CachedClaim ==
    ASSUME TypesOK, NEW c \in DOMAIN pvcCache
    PROVE  /\ c \in Claims /\ pvcCache[c] \in Cached(ClaimObjects)
           /\ pvcCache[c].latest \in ClaimObjects /\ pvcCache[c].api \in ClaimObjects
<1>1. pvcCache[c] \in Cached(ClaimObjects)
  BY DEF TypesOK
<1>2. QED
  BY <1>1 DEF TypesOK, Cached

-----------------------------------------------------------------------------
(* What stays of the parts of the invariant when only newer objects come.  *)
VolumesMove ==
    \A v \in DOMAIN pvs : v \in DOMAIN pvs' /\ Moved(pvs[v], pvs'[v])

ApisMove ==
    /\ \A v \in DOMAIN pvCache : v \in DOMAIN pvCache' /\ Moved(pvCache[v].api, pvCache'[v].api)
    /\ \A c \in DOMAIN pvcCache' : c \in DOMAIN pvcCache /\ Moved(pvcCache[c].api, pvcCache'[c].api)

DecisionsShrink ==
    \A p \in DOMAIN decisions' :
        /\ p \in DOMAIN decisions
        /\ \A n \in DOMAIN decisions'[p] :
              n \in DOMAIN decisions[p] /\ decisions'[p][n] = decisions[p][n]

(* A decision, a goroutine and the caches when newer objects are shown or  *)
(* written.                                                                *)
LEMMA DecisionStays ==
    ASSUME TypesOK, TypesOK', ApisMove, NEW d, NEW n, DecisionFollows(d, n)
    PROVE  DecisionFollows(d, n)'
<1>1. ASSUME NEW i \in DOMAIN d.bindings PROVE BindingFollows(d.bindings[i])'
  <2> DEFINE b == d.bindings[i]
  <2>1. /\ b \in Bindings /\ b.name \in DOMAIN pvCache /\ b.obj.claim \in {Nil, b.claim}
        /\ VolumeFollows(b.obj, pvCache[b.name].api)
    BY DEF DecisionFollows, BindingFollows
  <2>2. b.obj \in VolumeObjects
    BY <2>1 DEF Bindings
  <2> HIDE DEF b
  <2>3. b.name \in DOMAIN pvCache' /\ Moved(pvCache[b.name].api, pvCache'[b.name].api)
    BY <2>1 DEF ApisMove
  <2>4. pvCache[b.name].api \in VolumeObjects /\ pvCache'[b.name].api \in VolumeObjects
    <3>1. pvCache[b.name] \in Cached(VolumeObjects) /\ pvCache'[b.name] \in Cached(VolumeObjects)
      BY <2>1, <2>3 DEF TypesOK
    <3>2. QED
      BY <3>1 DEF Cached
  <2>5. VolumeFollows(b.obj, pvCache'[b.name].api)
    BY <2>1, <2>2, <2>3, <2>4, VolumeFollowsMoved
  <2>6. BindingFollows(b)'
    BY <2>1, <2>3, <2>5 DEF BindingFollows
  <2>7. QED
    BY <2>6 DEF b
<1>2. ASSUME NEW i \in DOMAIN d.provisionings PROVE ProvisioningFollows(d.provisionings[i], n)'
  <2> DEFINE c == d.provisionings[i]
  <2>1. c \in Provisionings /\ ProvisioningFollows(c, n)
    BY DEF DecisionFollows
  <2>2. c.obj \in ClaimObjects
    BY <2>1 DEF Provisionings
  <2> HIDE DEF c
  <2>3. ASSUME c.name \in DOMAIN pvcCache' PROVE ClaimFollows(c.obj, pvcCache'[c.name].api)
    <3>1. c.name \in DOMAIN pvcCache /\ Moved(pvcCache[c.name].api, pvcCache'[c.name].api)
      BY <2>3 DEF ApisMove
    <3>2. pvcCache[c.name].api \in ClaimObjects /\ pvcCache'[c.name].api \in ClaimObjects
      <4>1. pvcCache[c.name] \in Cached(ClaimObjects) /\ pvcCache'[c.name] \in Cached(ClaimObjects)
        BY <2>3, <3>1 DEF TypesOK
      <4>2. QED
        BY <4>1 DEF Cached
    <3>3. ClaimFollows(c.obj, pvcCache[c.name].api)
      BY <2>1, <3>1 DEF ProvisioningFollows
    <3>4. QED
      BY <2>2, <3>1, <3>2, <3>3, ClaimFollowsMoved
  <2>4. ProvisioningFollows(c, n)'
    BY <2>1, <2>3 DEF ProvisioningFollows
  <2>5. QED
    BY <2>4 DEF c
<1>3. QED
  BY <1>1, <1>2, Zenon DEF DecisionFollows

LEMMA DecisionsStay ==
    ASSUME TypesOK, TypesOK', DecisionsFollow, ApisMove, DecisionsShrink
    PROVE  DecisionsFollow'
<1>1. ASSUME NEW p \in DOMAIN decisions', NEW n \in DOMAIN decisions'[p]
      PROVE  DecisionFollows(decisions[p][n], n)'
  <2>1. p \in DOMAIN decisions /\ n \in DOMAIN decisions[p] /\ decisions'[p][n] = decisions[p][n]
    BY DEF DecisionsShrink
  <2>2. PICK d : d = decisions[p][n]
    OBVIOUS
  <2>3. DecisionFollows(d, n)
    BY <2>1, <2>2 DEF DecisionsFollow
  <2>4. DecisionFollows(d, n)'
    BY <2>3, DecisionStays
  <2>5. decisions'[p][n] = d
    BY <2>1, <2>2
  <2>6. QED
    BY <2>4, <2>5, Zenon DEF DecisionFollows, BindingFollows, ProvisioningFollows
<1>2. DOMAIN decisions' \subseteq Pods
  BY DEF DecisionsShrink, DecisionsFollow
<1>3. QED
  BY <1>1, <1>2, Zenon DEF DecisionsFollow

LEMMA BindersStay ==
    ASSUME TypesOK, TypesOK', BindersFollow, VolumesMove,
           \A p \in Pods : bind'[p] = bind[p] \/ bind'[p].stage # "update"
    PROVE  BindersFollow'
<1>1. ASSUME NEW p \in Pods, bind'[p].stage = "update", NEW i \in DOMAIN bind'[p].bindings
      PROVE  /\ bind'[p].bindings[i].name \in DOMAIN pvs'
             /\ VolumeFollows(bind'[p].bindings[i].obj, pvs'[bind'[p].bindings[i].name])
  <2> DEFINE b == bind[p].bindings[i]
  <2>1. bind'[p] = bind[p] /\ bind[p].stage = "update" /\ i \in DOMAIN bind[p].bindings
    BY <1>1
  <2>2. b.name \in DOMAIN pvs /\ VolumeFollows(b.obj, pvs[b.name])
    BY <2>1 DEF BindersFollow
  <2>3. b.obj \in VolumeObjects
    <3>1. bind[p] \in Binders
      BY DEF TypesOK
    <3>2. bind[p].bindings \in Seq(Bindings)
      BY <2>1, <3>1 DEF Binders, None
    <3>3. b \in Bindings
      BY <2>1, <3>2
    <3>4. QED
      BY <3>3 DEF Bindings
  <2> HIDE DEF b
  <2>4. b.name \in DOMAIN pvs' /\ Moved(pvs[b.name], pvs'[b.name])
    BY <2>2 DEF VolumesMove
  <2>5. pvs[b.name] \in VolumeObjects /\ pvs'[b.name] \in VolumeObjects
    BY <2>2, <2>4 DEF TypesOK
  <2>6. VolumeFollows(b.obj, pvs'[b.name])
    BY <2>2, <2>3, <2>4, <2>5, VolumeFollowsMoved
  <2>7. QED
    BY <2>1, <2>4, <2>6 DEF b
<1>2. QED
  BY <1>1, Zenon DEF BindersFollow

LEMMA CachesStay ==
    ASSUME TypesOK, TypesOK', CachesFollow, VolumesMove, UNCHANGED caches
    PROVE  CachesFollow'
<1>1. ASSUME NEW v \in DOMAIN pvCache PROVE VolumeFollows(pvCache[v].api, pvs'[v])
  <2>1. VolumeFollows(pvCache[v].api, pvs[v]) /\ Moved(pvs[v], pvs'[v]) /\ v \in DOMAIN pvs'
    BY CachedVolume DEF CachesFollow, VolumesMove
  <2>2. pvs'[v] \in VolumeObjects
    BY <2>1 DEF TypesOK
  <2>3. QED
    BY <2>1, <2>2, CachedVolume, VolumeFollowsMoved
<1>2. pvCache' = pvCache /\ pvcCache' = pvcCache
  BY DEF caches
<1>3. QED
  BY <1>1, <1>2 DEF CachesFollow

-----------------------------------------------------------------------------
(* Steps that leave the caches, or set what is assumed only.               *)
LEMMA SpentShrinks ==
    ASSUME NEW p, decisions' = Spent(p)
    PROVE  DecisionsShrink
<1>1. CASE p \in DOMAIN decisions
  <2>1. decisions' = [decisions EXCEPT ![p] = <<>>]
    BY <1>1 DEF Spent
  <2>2. DOMAIN decisions' = DOMAIN decisions /\ decisions'[p] = <<>>
    BY <1>1, <2>1
  <2>3. \A q \in DOMAIN decisions : q # p => decisions'[q] = decisions[q]
    BY <2>1
  <2>4. \A n : n \notin DOMAIN <<>>
    OBVIOUS
  <2>5. QED
    BY <2>2, <2>3, <2>4, Zenon DEF DecisionsShrink
<1>2. CASE p \notin DOMAIN decisions
  BY <1>2 DEF Spent, DecisionsShrink
<1>3. QED
  BY <1>1, <1>2

LEMMA SameShrinks ==
    ASSUME UNCHANGED decisions
    PROVE  DecisionsShrink
  BY DEF DecisionsShrink

LEMMA SameMove ==
    /\ UNCHANGED pvs => VolumesMove
    /\ UNCHANGED caches => ApisMove
  BY DEF VolumesMove, ApisMove, Moved, caches

(* The caches stay, and the volumes move at most.                          *)
LEMMA CachesLeft ==
    ASSUME BInv, TypesOK', UNCHANGED caches, VolumesMove, DecisionsShrink,
           \A p \in Pods : bind'[p] = bind[p] \/ bind'[p].stage # "update"
    PROVE  BInv'
  BY CachesStay, DecisionsStay, BindersStay, SameMove DEF BInv

LEMMA NoneType ==
    /\ None \in Binders /\ None.stage # "update"
    /\ Idle \in [pod : Pods \cup {Nil}, left : SUBSET Nodes, fit : SUBSET Nodes]
  BY DEF Binders, None, Idle

LEMMA UpdatingBinder ==
    ASSUME NEW x \in Binders, x.stage = "update"
    PROVE  x \in [stage : {"update"}, node : Nodes, bindings : Seq(Bindings),
                  claims : Seq(Provisionings), volumesDone : Nat, claimsDone : Nat]
  BY DEF Binders, None

LEMMA BindNone ==
    ASSUME TypesOK, NEW p \in Pods, bind' = [bind EXCEPT ![p] = None]
    PROVE  /\ bind' \in [Pods -> Binders]
           /\ \A q \in Pods : bind'[q] = bind[q] \/ bind'[q].stage # "update"
<1>1. bind \in [Pods -> Binders]
  BY DEF TypesOK
<1>2. QED
  BY <1>1, NoneType

(* Steps that change neither the objects nor the caches.                   *)
LEMMA TakePodKeeps ==
    ASSUME BInv, NEW p \in Pods, TakePod(p)
    PROVE  BInv'
<1>1. /\ UNCHANGED <<uses, pvs, pvcs, decisions, bind, process>> /\ UNCHANGED caches
      /\ UNCHANGED <<pvCache, pvcCache>>
      /\ loop' = [pod |-> p, left |-> Nodes, fit |-> {}]
  BY DEF TakePod, api, caches
<1>2. TypesOK'
  BY <1>1 DEF BInv, TypesOK
<1>3. QED
  BY <1>1, <1>2, CachesLeft, SameShrinks, SameMove

LEMMA FindsNoneKeeps ==
    ASSUME BInv, FindsNone
    PROVE  BInv'
<1>1. /\ UNCHANGED <<uses, pvs, pvcs, bind, process>> /\ UNCHANGED caches
      /\ UNCHANGED <<pvCache, pvcCache>> /\ loop' = Idle /\ DecisionsShrink
  BY SpentShrinks DEF FindsNone, api, caches
<1>2. TypesOK'
  BY <1>1, NoneType DEF BInv, TypesOK
<1>3. QED
  BY <1>1, <1>2, CachesLeft, SameMove

LEMMA PollEnds ==
    ASSUME BInv, NEW p \in Pods, PollSucceeds(p) \/ PollFails(p)
    PROVE  BInv'
<1>1. /\ UNCHANGED <<uses, pvs, pvcs, decisions, loop, process>> /\ UNCHANGED caches
      /\ UNCHANGED <<pvCache, pvcCache>> /\ bind' = [bind EXCEPT ![p] = None]
  BY DEF PollSucceeds, PollFails, api, caches
<1>2. TypesOK'
  BY <1>1, BindNone DEF BInv, TypesOK
<1>3. QED
  BY <1>1, <1>2, CachesLeft, SameShrinks, SameMove, BindNone DEF BInv

LEMMA DeletePodKeeps ==
    ASSUME BInv, NEW p \in Pods, DeletePod(p)
    PROVE  BInv'
<1>1. /\ UNCHANGED <<uses, pvs, pvcs, loop, bind, process>> /\ UNCHANGED caches
      /\ UNCHANGED <<pvCache, pvcCache>>
      /\ decisions' = Restrict(decisions, DOMAIN decisions \ {p})
  BY DEF DeletePod, DeleteBindings, api, caches
<1>2. TypesOK'
  BY <1>1 DEF BInv, TypesOK
<1>3. DecisionsShrink
  BY <1>1 DEF DecisionsShrink, Restrict
<1>4. QED
  BY <1>1, <1>2, <1>3, CachesLeft, SameMove

(* The API server: an object that changes gets a new version.              *)
LEMMA ObjectsChanged ==
    /\ \A o \in VolumeObjects : /\ Bumped(o) \in VolumeObjects /\ Bumped(o).version > o.version
                                /\ Bumped(o).claim = o.claim
    /\ \A o \in ClaimObjects : Bumped(o) \in ClaimObjects
  BY DEF VolumeObjects, ClaimObjects, Bumped

LEMMA VolumeEdits ==
    ASSUME NEW o \in VolumeObjects
    PROVE  /\ o.claim # Nil => [o EXCEPT !.full = TRUE, !.phase = "Bound"] \in VolumeObjects
           /\ [o EXCEPT !.claim = Nil, !.full = FALSE, !.ours = FALSE] \in VolumeObjects
           /\ [o EXCEPT !.full = FALSE] \in VolumeObjects
           /\ [o EXCEPT !.phase = "Released"] \in VolumeObjects
           /\ \A c \in Claims : c # Nil =>
                 [o EXCEPT !.claim = c, !.full = TRUE, !.ours = TRUE,
                           !.phase = "Bound"] \in VolumeObjects
  BY DEF VolumeObjects

LEMMA EditsKeepVersion ==
    ASSUME NEW o \in VolumeObjects
    PROVE  /\ [o EXCEPT !.full = TRUE, !.phase = "Bound"].version = o.version
           /\ [o EXCEPT !.claim = Nil, !.full = FALSE, !.ours = FALSE].version = o.version
           /\ [o EXCEPT !.full = FALSE].version = o.version
           /\ [o EXCEPT !.phase = "Released"].version = o.version
  BY DEF VolumeObjects

LEMMA ClaimEdits ==
    ASSUME NEW o \in ClaimObjects
    PROVE  /\ \A v \in Volumes : [o EXCEPT !.volume = v, !.completed = TRUE] \in ClaimObjects
           /\ [o EXCEPT !.selected = Nil] \in ClaimObjects
           /\ \A n \in Nodes : [o EXCEPT !.selected = n] \in ClaimObjects
  BY DEF ClaimObjects

LEMMA NewObjects == NewVolume \in VolumeObjects /\ NewClaim \in ClaimObjects
  BY DEF NewVolume, NewClaim, VolumeObjects, ClaimObjects

LEMMA VolumeWritten ==
    ASSUME TypesOK, NEW v \in DOMAIN pvs, NEW o \in VolumeObjects,
           o.version > pvs[v].version, pvs' = [pvs EXCEPT ![v] = o]
    PROVE  /\ VolumesMove /\ DOMAIN pvs' = DOMAIN pvs
           /\ \A w \in DOMAIN pvs : pvs'[w] \in VolumeObjects
<1>1. DOMAIN pvs' = DOMAIN pvs /\ pvs'[v] = o /\ \A w \in DOMAIN pvs : w # v => pvs'[w] = pvs[w]
  OBVIOUS
<1>2. QED
  BY <1>1 DEF VolumesMove, Moved, TypesOK

(* The PV controller, a provisioner and users.                             *)
LEMMA ControllerKeeps ==
    ASSUME BInv, NEW v \in Volumes,
           \/ ControllerTakesVolume(v) \/ ControllerBindsClaim(v) \/ ControllerUnbinds(v)
    PROVE  BInv'
<1>1. /\ UNCHANGED <<uses, decisions, loop, bind, process>> /\ UNCHANGED caches
      /\ UNCHANGED <<pvCache, pvcCache>> /\ v \in DOMAIN pvs
  BY DEF ControllerTakesVolume, ControllerBindsClaim, ControllerUnbinds, caches
<1>2. pvs[v] \in VolumeObjects
  BY <1>1 DEF BInv, TypesOK
<1> DEFINE vol == pvs[v]
<1>3. /\ VolumesMove /\ DOMAIN pvs' = DOMAIN pvs
      /\ \A w \in DOMAIN pvs : pvs'[w] \in VolumeObjects
  <2>1. CASE ControllerTakesVolume(v)
    <3>1. pvs' = [pvs EXCEPT ![v] = [Bumped(vol) EXCEPT !.full = TRUE, !.phase = "Bound"]]
      BY <2>1 DEF ControllerTakesVolume
    <3>2. vol.claim # Nil
      BY <2>1, VolumeAssumption DEF ControllerTakesVolume, BInv, TypesOK
    <3> DEFINE o == [Bumped(vol) EXCEPT !.full = TRUE, !.phase = "Bound"]
    <3>3. o \in VolumeObjects /\ o.version > vol.version
      <4> DEFINE b == Bumped(vol)
      <4>1. b \in VolumeObjects /\ b.version > vol.version /\ b.claim # Nil
        BY <1>2, <3>2, ObjectsChanged
      <4> HIDE DEF b
      <4>2. o = [b EXCEPT !.full = TRUE, !.phase = "Bound"]
        BY DEF b
      <4> HIDE DEF o
      <4>3. QED
        BY <4>1, <4>2, VolumeEdits, EditsKeepVersion
    <3> HIDE DEF o
    <3>4. QED
      BY <1>1, <3>1, <3>3, VolumeWritten DEF BInv, o
  <2>2. CASE ControllerBindsClaim(v)
    BY <2>2, SameMove DEF ControllerBindsClaim, BInv, TypesOK
  <2>3. CASE ControllerUnbinds(v)
    <3>1. PICK o \in {[Bumped(vol) EXCEPT !.claim = Nil, !.full = FALSE, !.ours = FALSE],
                      [Bumped(vol) EXCEPT !.full = FALSE],
                      [Bumped(vol) EXCEPT !.phase = "Released"]} :
             pvs' = [pvs EXCEPT ![v] = o]
      BY <2>3 DEF ControllerUnbinds
    <3>2. o \in VolumeObjects /\ o.version > vol.version
      <4> DEFINE b == Bumped(vol)
      <4>1. b \in VolumeObjects /\ b.version > vol.version
        BY <1>2, ObjectsChanged
      <4>2. o \in {[b EXCEPT !.claim = Nil, !.full = FALSE, !.ours = FALSE],
                   [b EXCEPT !.full = FALSE], [b EXCEPT !.phase = "Released"]}
        BY <3>1
      <4> HIDE DEF b
      <4>3. QED
        BY <4>1, <4>2, VolumeEdits, EditsKeepVersion
    <3>3. QED
      BY <1>1, <3>1, <3>2, VolumeWritten DEF BInv
  <2>4. QED
    BY <2>1, <2>2, <2>3
<1>4. DOMAIN pvcs' = DOMAIN pvcs /\ \A c \in DOMAIN pvcs : pvcs'[c] \in ClaimObjects
  <2>1. CASE UNCHANGED pvcs
    BY <2>1 DEF BInv, TypesOK
  <2>2. CASE ControllerBindsClaim(v)
    <3> DEFINE c == pvs[v].claim
    <3>1. pvcs' = [pvcs EXCEPT ![c] = [Bumped(pvcs[c]) EXCEPT !.volume = v, !.completed = TRUE]]
      BY <2>2 DEF ControllerBindsClaim
    <3>2. [Bumped(pvcs[c]) EXCEPT !.volume = v, !.completed = TRUE] \in ClaimObjects
      <4> DEFINE b == Bumped(pvcs[c])
      <4>1. b \in ClaimObjects
        BY <2>2, ObjectsChanged DEF ControllerBindsClaim, BInv, TypesOK
      <4> HIDE DEF b
      <4>2. [b EXCEPT !.volume = v, !.completed = TRUE] \in ClaimObjects
        BY <4>1, ClaimEdits
      <4>3. QED
        BY <4>2 DEF b
    <3> HIDE DEF c
    <3>3. QED
      BY <3>1, <3>2 DEF BInv, TypesOK
  <2>3. QED
    BY <2>1, <2>2 DEF ControllerTakesVolume, ControllerUnbinds
<1>5. TypesOK'
  BY <1>1, <1>3, <1>4 DEF BInv, TypesOK
<1>6. QED
  BY <1>1, <1>3, <1>5, CachesLeft, SameShrinks

LEMMA ProvisionKeeps ==
    ASSUME BInv, NEW c \in Claims, NEW v \in Volumes, Provision(c, v)
    PROVE  BInv'
<1> DEFINE o == [NewVolume EXCEPT !.claim = c, !.full = TRUE, !.ours = TRUE, !.phase = "Bound"]
<1>1. /\ UNCHANGED <<uses, pvcs, decisions, loop, bind, process>> /\ UNCHANGED caches
      /\ UNCHANGED <<pvCache, pvcCache>> /\ v \notin DOMAIN pvs /\ pvs' = Put(pvs, v, o)
  BY DEF Provision, caches
<1>2. o \in VolumeObjects
  <2>1. c # Nil
    BY VolumeAssumption
  <2>2. QED
    BY <2>1, NewObjects, VolumeEdits
<1> HIDE DEF o
<1>3. DOMAIN pvs' = DOMAIN pvs \cup {v} /\ pvs'[v] = o /\ \A w \in DOMAIN pvs : pvs'[w] = pvs[w]
  BY <1>1 DEF Put
<1>4. TypesOK'
  BY <1>1, <1>2, <1>3 DEF BInv, TypesOK
<1>5. VolumesMove
  BY <1>3 DEF VolumesMove, Moved
<1>6. QED
  BY <1>1, <1>4, <1>5, CachesLeft, SameShrinks

LEMMA ClaimEnds ==
    ASSUME BInv, NEW c \in Claims, ProvisioningFails(c) \/ DeleteClaim(c)
    PROVE  BInv'
<1>1. /\ UNCHANGED <<uses, pvs, decisions, loop, bind, process>> /\ UNCHANGED caches
      /\ UNCHANGED <<pvCache, pvcCache>>
  BY DEF ProvisioningFails, DeleteClaim, caches
<1>2. DOMAIN pvcs' \subseteq DOMAIN pvcs /\ \A x \in DOMAIN pvcs' : pvcs'[x] \in ClaimObjects
  <2>1. CASE ProvisioningFails(c)
    <3>1. /\ c \in DOMAIN pvcs
          /\ pvcs' = [pvcs EXCEPT ![c] = [Bumped(pvcs[c]) EXCEPT !.selected = Nil]]
      BY <2>1 DEF ProvisioningFails
    <3>2. [Bumped(pvcs[c]) EXCEPT !.selected = Nil] \in ClaimObjects
      <4> DEFINE b == Bumped(pvcs[c])
      <4>1. b \in ClaimObjects
        BY <3>1, ObjectsChanged DEF BInv, TypesOK
      <4> HIDE DEF b
      <4>2. [b EXCEPT !.selected = Nil] \in ClaimObjects
        BY <4>1, ClaimEdits
      <4>3. QED
        BY <4>2 DEF b
    <3>3. QED
      BY <3>1, <3>2 DEF BInv, TypesOK
  <2>2. CASE DeleteClaim(c)
    BY <2>2 DEF DeleteClaim, Restrict, BInv, TypesOK
  <2>3. QED
    BY <2>1, <2>2
<1>3. TypesOK'
  BY <1>1, <1>2 DEF BInv, TypesOK
<1>4. QED
  BY <1>1, <1>3, CachesLeft, SameShrinks, SameMove

-----------------------------------------------------------------------------
(* Steps that change the caches: what is assumed follows what is shown.    *)
VolumesShow(cache) ==
    /\ cache \in [DOMAIN pvCache -> Cached(VolumeObjects)]
    /\ \A v \in DOMAIN pvCache :
          /\ cache[v].api = pvCache[v].api
          /\ VolumeFollows(cache[v].latest, pvCache[v].api)
          /\ cache[v].latest.version = pvCache[v].api.version

ClaimsShow(cache) ==
    /\ cache \in [DOMAIN pvcCache -> Cached(ClaimObjects)]
    /\ \A c \in DOMAIN pvcCache :
          /\ cache[c].api = pvcCache[c].api
          /\ ClaimFollows(cache[c].latest, pvcCache[c].api)
          /\ cache[c].latest.version = pvcCache[c].api.version

LEMMA ShownKept ==
    ASSUME BInv, UNCHANGED pvs, VolumesShow(pvCache'), ClaimsShow(pvcCache')
    PROVE  CachesFollow' /\ ApisMove
<1>1. DOMAIN pvCache' = DOMAIN pvCache /\ DOMAIN pvcCache' = DOMAIN pvcCache
  BY DEF VolumesShow, ClaimsShow
<1>2. CachesFollow'
  BY <1>1 DEF VolumesShow, ClaimsShow, BInv, CachesFollow
<1>3. ApisMove
  BY <1>1 DEF VolumesShow, ClaimsShow, ApisMove, Moved
<1>4. QED
  BY <1>2, <1>3

LEMMA ShowsNow == BInv => VolumesShow(pvCache) /\ ClaimsShow(pvcCache)
  BY DEF BInv, TypesOK, CachesFollow, VolumesShow, ClaimsShow

(* Restore keeps what is shown.                                            *)
LEMMA RestoreShows ==
    ASSUME BInv, NEW names
    PROVE  /\ \A cache : VolumesShow(cache) => VolumesShow(CacheRestore(cache, names))
           /\ \A cache : ClaimsShow(cache) => ClaimsShow(CacheRestore(cache, names))
<1>1. ASSUME NEW cache, VolumesShow(cache) PROVE VolumesShow(CacheRestore(cache, names))
  <2> DEFINE new == CacheRestore(cache, names)
  <2>1. DOMAIN cache = DOMAIN pvCache
    BY <1>1 DEF VolumesShow
  <2>2. new = [v \in DOMAIN pvCache |-> IF v \in names THEN Both(cache[v].api) ELSE cache[v]]
    BY <2>1 DEF CacheRestore
  <2>3. ASSUME NEW v \in DOMAIN pvCache
        PROVE  /\ new[v] \in Cached(VolumeObjects) /\ new[v].api = pvCache[v].api
               /\ VolumeFollows(new[v].latest, pvCache[v].api)
               /\ new[v].latest.version = pvCache[v].api.version
    <3>1. pvCache[v].api \in VolumeObjects
      BY CachedVolume DEF BInv
    <3>2. CASE v \in names
      <4>1. new[v] = [latest |-> pvCache[v].api, api |-> pvCache[v].api]
        BY <1>1, <2>2, <3>2 DEF Both, VolumesShow
      <4>2. QED
        BY <3>1, <4>1, FollowsSelf DEF Cached
    <3>3. CASE v \notin names
      BY <1>1, <2>2, <3>3 DEF VolumesShow
    <3>4. QED
      BY <3>2, <3>3
  <2>4. QED
    BY <2>2, <2>3 DEF VolumesShow
<1>2. ASSUME NEW cache, ClaimsShow(cache) PROVE ClaimsShow(CacheRestore(cache, names))
  <2> DEFINE new == CacheRestore(cache, names)
  <2>1. DOMAIN cache = DOMAIN pvcCache
    BY <1>2 DEF ClaimsShow
  <2>2. new = [c \in DOMAIN pvcCache |-> IF c \in names THEN Both(cache[c].api) ELSE cache[c]]
    BY <2>1 DEF CacheRestore
  <2>3. ASSUME NEW c \in DOMAIN pvcCache
        PROVE  /\ new[c] \in Cached(ClaimObjects) /\ new[c].api = pvcCache[c].api
               /\ ClaimFollows(new[c].latest, pvcCache[c].api)
               /\ new[c].latest.version = pvcCache[c].api.version
    <3>1. pvcCache[c].api \in ClaimObjects
      BY CachedClaim DEF BInv
    <3>2. CASE c \in names
      <4>1. new[c] = [latest |-> pvcCache[c].api, api |-> pvcCache[c].api]
        BY <1>2, <2>2, <3>2 DEF Both, ClaimsShow
      <4>2. QED
        BY <3>1, <4>1, FollowsSelf DEF Cached
    <3>3. CASE c \notin names
      BY <1>2, <2>2, <3>3 DEF ClaimsShow
    <3>4. QED
      BY <3>2, <3>3
  <2>4. QED
    BY <2>2, <2>3 DEF ClaimsShow
<1>3. QED
  BY <1>1, <1>2

LEMMA UpdateFailsKeeps ==
    ASSUME BInv, NEW p \in Pods, UpdateFails(p)
    PROVE  BInv'
<1>1. /\ UNCHANGED <<uses, pvs, pvcs, decisions, loop, process>>
      /\ bind' = [bind EXCEPT ![p] = None] /\ Revert(p)
  BY DEF UpdateFails, api
<1>2. VolumesShow(pvCache') /\ ClaimsShow(pvcCache')
  BY <1>1, ShowsNow, RestoreShows DEF Revert
<1>3. CachesFollow' /\ ApisMove
  BY <1>1, <1>2, ShownKept
<1>4. TypesOK'
  <2>1. DOMAIN pvCache' = DOMAIN pvCache /\ DOMAIN pvcCache' = DOMAIN pvcCache
    BY <1>2 DEF VolumesShow, ClaimsShow
  <2>2. bind' \in [Pods -> Binders]
    BY <1>1, BindNone DEF BInv
  <2>3. QED
    BY <1>1, <1>2, <2>1, <2>2 DEF BInv, TypesOK, VolumesShow, ClaimsShow
<1>5. \A q \in Pods : bind'[q] = bind[q] \/ bind'[q].stage # "update"
  BY <1>1, BindNone DEF BInv
<1>6. QED
  BY <1>1, <1>3, <1>4, <1>5, DecisionsStay, SameShrinks, BindersStay, SameMove DEF BInv

(* What an informer adds.                                                  *)
LEMMA ShowVolumeFacts ==
    ASSUME BInv, NEW v \in Volumes, ShowVolume(v)
    PROVE  /\ UNCHANGED <<uses, pvs, pvcs, pvcCache, decisions, loop, bind, process>>
           /\ v \in DOMAIN pvs /\ pvCache' = Put(pvCache, v, Both(pvs[v]))
           /\ v \in DOMAIN pvCache => pvs[v].version > pvCache[v].api.version
<1>1. /\ UNCHANGED <<uses, pvs, pvcs, pvcCache, decisions, loop, bind, process>>
      /\ v \in DOMAIN pvs /\ pvCache' = CacheAdd(pvCache, v, pvs[v]) /\ pvCache' # pvCache
  BY DEF ShowVolume, api
<1>2. ~(Known(pvCache, v) /\ pvs[v].version <= pvCache[v].latest.version)
  BY <1>1 DEF CacheAdd
<1>3. v \in DOMAIN pvCache => pvs[v].version > pvCache[v].api.version
  <2> SUFFICES ASSUME v \in DOMAIN pvCache PROVE pvs[v].version > pvCache[v].api.version
    OBVIOUS
  <2>1. pvCache[v].latest.version = pvCache[v].api.version
    BY DEF BInv, CachesFollow
  <2>2. pvs[v].version \in Nat /\ pvCache[v].api.version \in Nat
    BY CachedVolume DEF BInv, VolumeObjects
  <2>3. QED
    BY <1>2, <2>1, <2>2 DEF Known
<1>4. QED
  BY <1>1, <1>2, <1>3 DEF CacheAdd

LEMMA ShowVolumeKeeps ==
    ASSUME BInv, NEW v \in Volumes, ShowVolume(v)
    PROVE  BInv'
<1>1. /\ UNCHANGED <<uses, pvs, pvcs, pvcCache, decisions, loop, bind, process>>
      /\ v \in DOMAIN pvs /\ pvCache' = Put(pvCache, v, Both(pvs[v]))
      /\ v \in DOMAIN pvCache => pvs[v].version > pvCache[v].api.version
  BY ShowVolumeFacts
<1>2. pvs[v] \in VolumeObjects
  BY <1>1 DEF BInv, TypesOK
<1>3. /\ DOMAIN pvCache' = DOMAIN pvCache \cup {v}
      /\ pvCache'[v] = Both(pvs[v])
      /\ \A w \in DOMAIN pvCache : w # v => pvCache'[w] = pvCache[w]
      /\ pvCache' \in [DOMAIN pvCache' -> Cached(VolumeObjects)]
  <2>1. Both(pvs[v]) \in Cached(VolumeObjects)
    BY <1>2 DEF Both, Cached
  <2>2. \A w \in DOMAIN pvCache : pvCache[w] \in Cached(VolumeObjects)
    BY CachedVolume DEF BInv
  <2>3. QED
    BY <1>1, <2>1, <2>2 DEF Put
<1>4. TypesOK'
  BY <1>1, <1>3 DEF BInv, TypesOK
<1>5. CachesFollow'
  <2>1. ASSUME NEW w \in DOMAIN pvCache'
        PROVE  /\ VolumeFollows(pvCache'[w].api, pvs[w])
               /\ VolumeFollows(pvCache'[w].latest, pvCache'[w].api)
               /\ pvCache'[w].latest.version = pvCache'[w].api.version
    <3>1. CASE w = v
      BY <1>2, <1>3, <3>1, FollowsSelf DEF Both
    <3>2. CASE w # v
      BY <1>3, <3>2 DEF BInv, CachesFollow
    <3>3. QED
      BY <3>1, <3>2
  <2>2. QED
    BY <1>1, <2>1 DEF BInv, CachesFollow
<1>6. ApisMove
  BY <1>1, <1>3 DEF ApisMove, Moved, Both
<1>7. QED
  BY <1>1, <1>4, <1>5, <1>6, DecisionsStay, SameShrinks, BindersStay, SameMove DEF BInv

LEMMA ShowClaimFacts ==
    ASSUME BInv, NEW c \in Claims, ShowClaim(c)
    PROVE  /\ UNCHANGED <<uses, pvs, pvcs, pvCache, decisions, loop, bind, process>>
           /\ \/ /\ c \in DOMAIN pvcs /\ c \in DOMAIN pvcCache
                 /\ pvcCache' = Put(pvcCache, c, Both(pvcs[c]))
                 /\ pvcs[c].version > pvcCache[c].api.version
              \/ /\ c \notin DOMAIN pvcs
                 /\ pvcCache' = Restrict(pvcCache, DOMAIN pvcCache \ {c})
<1>1. /\ UNCHANGED <<uses, pvs, pvcs, pvCache, decisions, loop, bind, process>>
      /\ c \in DOMAIN pvcs => pvcCache' = CacheAdd(pvcCache, c, pvcs[c])
      /\ c \notin DOMAIN pvcs => pvcCache' = CacheDelete(pvcCache, c)
      /\ pvcCache' # pvcCache
  BY DEF ShowClaim, api
<1>2. CASE c \in DOMAIN pvcs
  <2>1. c \in DOMAIN pvcCache /\ pvcs[c] \in ClaimObjects
    BY <1>2 DEF BInv, TypesOK
  <2>2. ~(pvcs[c].version <= pvcCache[c].latest.version)
    BY <1>1, <1>2, <2>1 DEF CacheAdd, Known
  <2>3. pvcCache[c].latest.version = pvcCache[c].api.version
    BY <2>1 DEF BInv, CachesFollow
  <2>4. pvcs[c].version \in Nat /\ pvcCache[c].api.version \in Nat
    BY <2>1, CachedClaim DEF BInv, ClaimObjects
  <2>5. QED
    BY <1>1, <1>2, <2>1, <2>2, <2>3, <2>4 DEF CacheAdd, Known
<1>3. CASE c \notin DOMAIN pvcs
  BY <1>1, <1>3 DEF CacheDelete
<1>4. QED
  BY <1>2, <1>3

LEMMA ShowClaimKeeps ==
    ASSUME BInv, NEW c \in Claims, ShowClaim(c)
    PROVE  BInv'
<1>1. UNCHANGED <<uses, pvs, pvcs, pvCache, decisions, loop, bind, process>>
  BY ShowClaimFacts
<1>2. /\ DOMAIN pvcCache' \subseteq DOMAIN pvcCache /\ DOMAIN pvcs \subseteq DOMAIN pvcCache'
      /\ pvcCache' \in [DOMAIN pvcCache' -> Cached(ClaimObjects)]
      /\ \A x \in DOMAIN pvcCache' :
            \/ pvcCache'[x] = pvcCache[x]
            \/ /\ pvcCache'[x].latest = pvcCache'[x].api
               /\ pvcCache'[x].api.version > pvcCache[x].api.version
  <2>0. \A x \in DOMAIN pvcCache : pvcCache[x] \in Cached(ClaimObjects)
    BY CachedClaim DEF BInv
  <2>1. CASE c \notin DOMAIN pvcs
    <3>1. pvcCache' = Restrict(pvcCache, DOMAIN pvcCache \ {c})
      BY <2>1, ShowClaimFacts
    <3>2. QED
      BY <2>0, <2>1, <3>1 DEF Restrict, BInv, TypesOK
  <2>2. CASE c \in DOMAIN pvcs
    <3>1. /\ c \in DOMAIN pvcCache /\ pvcCache' = Put(pvcCache, c, Both(pvcs[c]))
          /\ pvcs[c].version > pvcCache[c].api.version
      BY <2>2, ShowClaimFacts
    <3>2. Both(pvcs[c]) \in Cached(ClaimObjects)
      BY <2>2 DEF BInv, TypesOK, Both, Cached
    <3>3. /\ DOMAIN pvcCache' = DOMAIN pvcCache /\ pvcCache'[c] = Both(pvcs[c])
          /\ \A x \in DOMAIN pvcCache : x # c => pvcCache'[x] = pvcCache[x]
          /\ pvcCache' \in [DOMAIN pvcCache -> Cached(ClaimObjects)]
      BY <2>0, <3>1, <3>2 DEF Put
    <3>4. QED
      BY <3>1, <3>3 DEF BInv, TypesOK, Both
  <2>3. QED
    BY <2>1, <2>2
<1>3. TypesOK'
  BY <1>1, <1>2 DEF BInv, TypesOK
<1>4. CachesFollow'
  <2>1. ASSUME NEW x \in DOMAIN pvcCache'
        PROVE  /\ ClaimFollows(pvcCache'[x].latest, pvcCache'[x].api)
               /\ pvcCache'[x].latest.version = pvcCache'[x].api.version
    <3>1. pvcCache'[x].api \in ClaimObjects
      BY <1>3, <2>1 DEF TypesOK, Cached
    <3>2. CASE pvcCache'[x] = pvcCache[x]
      BY <1>2, <3>2 DEF BInv, CachesFollow
    <3>3. CASE pvcCache'[x].latest = pvcCache'[x].api
      BY <3>1, <3>3, FollowsSelf
    <3>4. QED
      BY <1>2, <3>2, <3>3
  <2>2. QED
    BY <1>1, <2>1 DEF BInv, CachesFollow
<1>5. ApisMove
  BY <1>1, <1>2 DEF ApisMove, Moved
<1>6. QED
  BY <1>1, <1>3, <1>4, <1>5, DecisionsStay, SameShrinks, BindersStay, SameMove DEF BInv

LEMMA ListedShows ==
    ASSUME BInv
    PROVE  /\ Listed(pvs) \in [DOMAIN pvs -> Cached(VolumeObjects)]
           /\ Listed(pvcs) \in [DOMAIN pvcs -> Cached(ClaimObjects)]
           /\ \A v \in DOMAIN pvs : Listed(pvs)[v] = Both(pvs[v])
           /\ \A c \in DOMAIN pvcs : Listed(pvcs)[c] = Both(pvcs[c])
  BY DEF BInv, TypesOK, Listed, Both, Cached

LEMMA RestartKeeps ==
    ASSUME BInv, Restart
    PROVE  BInv'
<1>1. /\ UNCHANGED <<uses, pvs, pvcs>> /\ pvCache' = Listed(pvs) /\ pvcCache' = Listed(pvcs)
      /\ decisions' = <<>> /\ loop' = Idle /\ bind' = [p \in Pods |-> None]
      /\ process' = process + 1
  BY DEF Restart, api
<1>2. /\ bind' \in [Pods -> Binders] /\ \A p \in Pods : bind'[p].stage # "update"
      /\ loop' \in [pod : Pods \cup {Nil}, left : SUBSET Nodes, fit : SUBSET Nodes]
  BY <1>1, NoneType
<1>3. DOMAIN pvCache' = DOMAIN pvs /\ DOMAIN pvcCache' = DOMAIN pvcs
  BY <1>1 DEF Listed
<1>4. TypesOK'
  BY <1>1, <1>2, <1>3, ListedShows DEF BInv, TypesOK
<1>5. CachesFollow'
  <2>1. \A v \in DOMAIN pvs : pvCache'[v].api = pvs[v] /\ pvCache'[v].latest = pvs[v]
    BY <1>1, ListedShows DEF Both
  <2>2. \A c \in DOMAIN pvcs : pvcCache'[c].api = pvcs[c] /\ pvcCache'[c].latest = pvcs[c]
    BY <1>1, ListedShows DEF Both
  <2>3. QED
    BY <1>1, <1>3, <2>1, <2>2, FollowsSelf DEF BInv, TypesOK, CachesFollow
<1>6. DecisionsFollow'
  <2>1. DOMAIN decisions' = {}
    BY <1>1
  <2>2. QED
    BY <2>1, Zenon DEF DecisionsFollow
<1>7. BindersFollow'
  BY <1>2, Zenon DEF BindersFollow
<1>8. QED
  BY <1>4, <1>5, <1>6, <1>7 DEF BInv

(* A goroutine begins with the decision that was assumed.                  *)
LEMMA BindPodVolumesKeeps ==
    ASSUME BInv, NEW p \in Pods, BindPodVolumes(p)
    PROVE  BInv'
<1> DEFINE n == bind[p].node
           new == IF HasDecision(p, n)
                  THEN [stage |-> "update", node |-> n, bindings |-> decisions[p][n].bindings,
                        claims |-> decisions[p][n].provisionings,
                        volumesDone |-> 0, claimsDone |-> 0]
                  ELSE None
<1>1. /\ UNCHANGED <<uses, pvs, pvcs, loop, process>> /\ UNCHANGED caches
      /\ UNCHANGED <<pvCache, pvcCache>> /\ DecisionsShrink
      /\ bind[p].stage = "assumed" /\ bind' = [bind EXCEPT ![p] = new]
  BY SpentShrinks DEF BindPodVolumes, api, caches
<1>2. bind \in [Pods -> Binders] /\ n \in Nodes
  <2>1. bind \in [Pods -> Binders] /\ bind[p] \in Binders
    BY DEF BInv, TypesOK
  <2>2. QED
    BY <1>1, <2>1 DEF Binders, None
<1>3. ASSUME HasDecision(p, n)
      PROVE  DecisionFollows(decisions[p][n], n)
  BY <1>3 DEF HasDecision, BInv, DecisionsFollow
<1>4. new \in Binders
  <2>1. CASE HasDecision(p, n)
    <3>1. /\ decisions[p][n].bindings \in Seq(Bindings)
          /\ decisions[p][n].provisionings \in Seq(Provisionings)
      BY <1>3, <2>1 DEF DecisionFollows
    <3>2. QED
      BY <1>2, <2>1, <3>1 DEF Binders
  <2>2. CASE ~HasDecision(p, n)
    BY <2>2, NoneType
  <2>3. QED
    BY <2>1, <2>2
<1>5. ASSUME new.stage = "update", NEW i \in DOMAIN new.bindings
      PROVE  /\ new.bindings[i].name \in DOMAIN pvs
             /\ VolumeFollows(new.bindings[i].obj, pvs[new.bindings[i].name])
  <2>1. HasDecision(p, n) /\ new.bindings = decisions[p][n].bindings
    BY <1>5, NoneType
  <2> DEFINE b == decisions[p][n].bindings[i]
  <2>2. b \in Bindings /\ BindingFollows(b)
    BY <1>3, <1>5, <2>1 DEF DecisionFollows
  <2>3. /\ b.obj \in VolumeObjects /\ b.name \in DOMAIN pvCache
        /\ VolumeFollows(b.obj, pvCache[b.name].api)
    BY <2>2 DEF Bindings, BindingFollows
  <2>4. new.bindings[i] = b
    BY <2>1
  <2> HIDE DEF b, new
  <2>5. VolumeFollows(b.obj, pvs[b.name]) /\ b.name \in DOMAIN pvs
    BY <2>3, CachedVolume, VolumeFollowsThrough DEF BInv, CachesFollow
  <2>6. QED
    BY <2>4, <2>5
<1> HIDE DEF new, n
<1>6. bind' \in [Pods -> Binders] /\ bind'[p] = new /\ \A q \in Pods : q # p => bind'[q] = bind[q]
  BY <1>1, <1>2, <1>4
<1>7. TypesOK'
  BY <1>1, <1>6 DEF BInv, TypesOK
<1>8. BindersFollow'
  <2>1. ASSUME NEW q \in Pods, bind'[q].stage = "update", NEW i \in DOMAIN bind'[q].bindings
        PROVE  /\ bind'[q].bindings[i].name \in DOMAIN pvs
               /\ VolumeFollows(bind'[q].bindings[i].obj, pvs[bind'[q].bindings[i].name])
    <3>1. CASE q = p
      BY <1>5, <1>6, <2>1, <3>1
    <3>2. CASE q # p
      BY <1>6, <2>1, <3>2 DEF BInv, BindersFollow
    <3>3. QED
      BY <3>1, <3>2
  <2>2. QED
    BY <1>1, <2>1 DEF BindersFollow
<1>9. QED
  BY <1>1, <1>7, <1>8, CachesStay, DecisionsStay, SameMove DEF BInv

(* A write of a goroutine replaces the version its object has.             *)
LEMMA UpdateVolumeFacts ==
    ASSUME BInv, NEW p \in Pods, UpdateVolume(p)
    PROVE  LET i == bind[p].volumesDone + 1
               b == bind[p].bindings[i]
               w == Written(pvs, b.name, b.obj)
           IN  /\ UNCHANGED <<uses, pvcs, decisions, loop, process>> /\ UNCHANGED caches
               /\ UNCHANGED <<pvCache, pvcCache>>
               /\ bind[p].stage = "update" /\ bind[p] \in Binders /\ i \in DOMAIN bind[p].bindings
               /\ bind[p].bindings \in Seq(Bindings) /\ b \in Bindings
               /\ b.name \in DOMAIN pvs /\ b.obj \in VolumeObjects
               /\ pvs[b.name].claim \in {Nil, b.obj.claim} /\ w.claim = b.obj.claim
               /\ w \in VolumeObjects /\ (w = pvs[b.name] \/ w.version > pvs[b.name].version)
               /\ pvs' = [pvs EXCEPT ![b.name] = w]
               /\ bind' = [bind EXCEPT ![p].bindings[i].obj = w, ![p].volumesDone = i]
<1> DEFINE i == bind[p].volumesDone + 1
           b == bind[p].bindings[i]
           w == Written(pvs, b.name, b.obj)
<1>0. bind[p].stage = "update" /\ bind[p].volumesDone < Len(bind[p].bindings)
  BY DEF UpdateVolume, UpdatesVolume
<1>1. /\ UNCHANGED <<uses, pvcs, decisions, loop, process>> /\ UNCHANGED caches
      /\ UNCHANGED <<pvCache, pvcCache>>
      /\ bind[p].stage = "update" /\ bind[p].volumesDone < Len(bind[p].bindings)
      /\ Current(pvs, b.name, b.obj)
      /\ pvs' = [pvs EXCEPT ![b.name] = w]
      /\ bind' = [bind EXCEPT ![p].bindings[i].obj = w, ![p].volumesDone = i]
  BY DEF UpdateVolume, UpdatesVolume, caches
<1>2. bind[p] \in Binders
  BY DEF BInv, TypesOK
<1>3. bind[p].bindings \in Seq(Bindings) /\ bind[p].volumesDone \in Nat
  BY <1>0, <1>2, UpdatingBinder
<1>4. i \in DOMAIN bind[p].bindings
  BY <1>0, <1>3
<1>5. b \in Bindings
  BY <1>3, <1>4
<1>6. b.name \in DOMAIN pvs /\ VolumeFollows(b.obj, pvs[b.name])
  BY <1>1, <1>4 DEF BInv, BindersFollow
<1>7. b.obj \in VolumeObjects
  BY <1>5 DEF Bindings
<1> HIDE DEF b
<1>8. b.obj.version = pvs[b.name].version
  BY <1>1 DEF Current
<1>9. pvs[b.name].claim \in {Nil, b.obj.claim}
  BY <1>6, <1>8 DEF VolumeFollows
<1>10. /\ w \in VolumeObjects /\ (w = pvs[b.name] \/ w.version > pvs[b.name].version)
       /\ w.claim = b.obj.claim
  <2>1. CASE pvs[b.name] = b.obj
    BY <1>7, <2>1 DEF Written
  <2>2. CASE pvs[b.name] # b.obj
    <3>1. w = Bumped(b.obj)
      BY <2>2 DEF Written, Bumped
    <3>2. QED
      BY <1>7, <1>8, <3>1, ObjectsChanged
  <2>3. QED
    BY <2>1, <2>2
<1>11. QED
  BY <1>1, <1>2, <1>3, <1>4, <1>5, <1>6, <1>7, <1>9, <1>10, Zenon DEF b

LEMMA UpdateVolumeKeeps ==
    ASSUME BInv, NEW p \in Pods, UpdateVolume(p)
    PROVE  BInv'
<1> DEFINE i == bind[p].volumesDone + 1
           b == bind[p].bindings[i]
           w == Written(pvs, b.name, b.obj)
<1>1. /\ UNCHANGED <<uses, pvcs, decisions, loop, process>> /\ UNCHANGED caches
      /\ UNCHANGED <<pvCache, pvcCache>>
      /\ bind[p].stage = "update" /\ bind[p] \in Binders /\ i \in DOMAIN bind[p].bindings
      /\ bind[p].bindings \in Seq(Bindings) /\ b \in Bindings
      /\ b.name \in DOMAIN pvs /\ b.obj \in VolumeObjects
      /\ w \in VolumeObjects /\ (w = pvs[b.name] \/ w.version > pvs[b.name].version)
      /\ pvs' = [pvs EXCEPT ![b.name] = w]
      /\ bind' = [bind EXCEPT ![p].bindings[i].obj = w, ![p].volumesDone = i]
  BY UpdateVolumeFacts
<1>2. /\ bind[p] \in [stage : {"update"}, node : Nodes, bindings : Seq(Bindings),
                      claims : Seq(Provisionings), volumesDone : Nat, claimsDone : Nat]
      /\ bind \in [Pods -> Binders] /\ i \in Nat
  <2>1. bind[p] \in [stage : {"update"}, node : Nodes, bindings : Seq(Bindings),
                     claims : Seq(Provisionings), volumesDone : Nat, claimsDone : Nat]
    BY <1>1, UpdatingBinder
  <2>2. QED
    BY <2>1 DEF BInv, TypesOK
<1>3. [b EXCEPT !.obj = w] \in Bindings /\ [b EXCEPT !.obj = w].name = b.name
      /\ [b EXCEPT !.obj = w].obj = w
  BY <1>1 DEF Bindings
<1> DEFINE list == [bind[p].bindings EXCEPT ![i] = [b EXCEPT !.obj = w]]
<1> HIDE DEF w
<1>4. /\ list \in Seq(Bindings) /\ DOMAIN list = DOMAIN bind[p].bindings
      /\ list[i] = [b EXCEPT !.obj = w]
      /\ \A j \in DOMAIN list : j # i => list[j] = bind[p].bindings[j]
  <2> HIDE DEF i
  <2>1. PICK e : e = [b EXCEPT !.obj = w]
    OBVIOUS
  <2>2. e \in Bindings /\ list = [bind[p].bindings EXCEPT ![i] = e]
    BY <1>3, <2>1
  <2> HIDE DEF b
  <2>3. QED
    BY <1>1, <2>1, <2>2
<1>5. bind' = [bind EXCEPT ![p] = [bind[p] EXCEPT !.bindings = list, !.volumesDone = i]]
  BY <1>1, <1>2
<1> HIDE DEF list
<1>6. /\ bind'[p] = [bind[p] EXCEPT !.bindings = list, !.volumesDone = i]
      /\ \A q \in Pods : q # p => bind'[q] = bind[q]
      /\ DOMAIN bind' = Pods /\ bind' \in [Pods -> Binders]
  <2> DEFINE new == [bind[p] EXCEPT !.bindings = list, !.volumesDone = i]
  <2>1. new \in [stage : {"update"}, node : Nodes, bindings : Seq(Bindings),
                 claims : Seq(Provisionings), volumesDone : Nat, claimsDone : Nat]
    BY <1>2, <1>4
  <2>2. new \in Binders
    BY <2>1 DEF Binders
  <2> HIDE DEF new
  <2>3. bind' = [bind EXCEPT ![p] = new]
    BY <1>5 DEF new
  <2>4. QED
    BY <1>2, <2>2, <2>3 DEF new
<1>7. bind'[p].bindings = list
  BY <1>2, <1>6
<1> HIDE DEF b, i
<1>8. /\ VolumesMove /\ DOMAIN pvs' = DOMAIN pvs /\ pvs'[b.name] = w
      /\ \A v \in DOMAIN pvs : pvs'[v] \in VolumeObjects
  <2>1. /\ DOMAIN pvs' = DOMAIN pvs /\ pvs'[b.name] = w
        /\ \A v \in DOMAIN pvs : v # b.name => pvs'[v] = pvs[v]
    BY <1>1
  <2>2. QED
    BY <1>1, <2>1 DEF VolumesMove, Moved, BInv, TypesOK
<1>9. TypesOK'
  BY <1>1, <1>6, <1>8 DEF BInv, TypesOK
<1>10. BindersFollow'
  <2>1. ASSUME NEW q \in Pods, bind[q].stage = "update", NEW j \in DOMAIN bind[q].bindings
        PROVE  /\ bind[q].bindings[j].name \in DOMAIN pvs
               /\ VolumeFollows(bind[q].bindings[j].obj, pvs'[bind[q].bindings[j].name])
    <3> DEFINE o == bind[q].bindings[j]
    <3>1. o.name \in DOMAIN pvs /\ VolumeFollows(o.obj, pvs[o.name])
      BY <2>1 DEF BInv, BindersFollow
    <3>2. o.obj \in VolumeObjects
      <4>1. bind[q] \in Binders
        BY <1>2
      <4>2. bind[q].bindings \in Seq(Bindings)
        BY <2>1, <4>1 DEF Binders, None
      <4>3. o \in Bindings
        BY <2>1, <4>2
      <4>4. QED
        BY <4>3 DEF Bindings
    <3> HIDE DEF o
    <3>3. /\ Moved(pvs[o.name], pvs'[o.name])
          /\ pvs[o.name] \in VolumeObjects /\ pvs'[o.name] \in VolumeObjects
      BY <1>8, <3>1 DEF VolumesMove, BInv, TypesOK
    <3>4. VolumeFollows(o.obj, pvs'[o.name])
      BY <3>1, <3>2, <3>3, VolumeFollowsMoved
    <3>5. QED
      BY <3>1, <3>4 DEF o
  <2>2. ASSUME NEW q \in Pods, bind'[q].stage = "update", NEW j \in DOMAIN bind'[q].bindings
        PROVE  /\ bind'[q].bindings[j].name \in DOMAIN pvs'
               /\ VolumeFollows(bind'[q].bindings[j].obj, pvs'[bind'[q].bindings[j].name])
    <3>1. CASE q # p
      BY <1>6, <1>8, <2>1, <2>2, <3>1
    <3>2. CASE q = p /\ j # i
      <4>1. j \in DOMAIN bind[p].bindings /\ list[j] = bind[p].bindings[j]
        BY <1>4, <1>7, <2>2, <3>2
      <4>2. QED
        BY <1>1, <1>7, <1>8, <2>1, <3>2, <4>1
    <3>3. CASE q = p /\ j = i
      <4>1. bind'[q].bindings[j].name = b.name /\ bind'[q].bindings[j].obj = w
        BY <1>3, <1>4, <1>7, <3>3
      <4>2. QED
        BY <1>1, <1>8, <4>1, FollowsSelf
    <3>4. QED
      BY <3>1, <3>2, <3>3
  <2>3. QED
    BY <2>2 DEF BindersFollow
<1>11. QED
  BY <1>1, <1>8, <1>9, <1>10, CachesStay, DecisionsStay, SameShrinks, SameMove DEF BInv

LEMMA UpdateClaimKeeps ==
    ASSUME BInv, NEW p \in Pods, UpdateClaim(p)
    PROVE  BInv'
<1> DEFINE i == bind[p].claimsDone + 1
           c == bind[p].claims[i]
           w == Written(pvcs, c.name, c.obj)
<1>1. /\ UNCHANGED <<uses, pvs, decisions, loop, process>> /\ UNCHANGED caches
      /\ UNCHANGED <<pvCache, pvcCache>>
      /\ bind[p].stage = "update" /\ bind[p].claimsDone < Len(bind[p].claims)
      /\ c.name \in DOMAIN pvcs
      /\ pvcs' = [pvcs EXCEPT ![c.name] = w]
      /\ bind' = [bind EXCEPT ![p].claims[i].obj = w, ![p].claimsDone = i]
  BY DEF UpdateClaim, UpdatesClaim, Current, caches
<1>2. /\ bind[p] \in [stage : {"update"}, node : Nodes, bindings : Seq(Bindings),
                      claims : Seq(Provisionings), volumesDone : Nat, claimsDone : Nat]
      /\ bind \in [Pods -> Binders]
  <2>1. bind[p] \in Binders /\ bind \in [Pods -> Binders]
    BY DEF BInv, TypesOK
  <2>2. QED
    BY <1>1, <2>1, UpdatingBinder
<1>3. i \in DOMAIN bind[p].claims /\ i \in Nat /\ bind[p].claims \in Seq(Provisionings)
  BY <1>1, <1>2
<1>4. c \in Provisionings /\ c.obj \in ClaimObjects
  <2>1. c \in Provisionings
    BY <1>3
  <2>2. QED
    BY <2>1 DEF Provisionings
<1>5. w \in ClaimObjects
  <2> HIDE DEF c
  <2>1. CASE pvcs[c.name] = c.obj
    BY <1>4, <2>1 DEF Written
  <2>2. CASE pvcs[c.name] # c.obj
    <3>1. w = Bumped(c.obj)
      BY <2>2 DEF Written, Bumped
    <3>2. QED
      BY <1>4, <3>1, ObjectsChanged
  <2>3. QED
    BY <2>1, <2>2
<1>6. [c EXCEPT !.obj = w] \in Provisionings
  BY <1>4, <1>5 DEF Provisionings
<1> DEFINE list == [bind[p].claims EXCEPT ![i] = [c EXCEPT !.obj = w]]
<1> HIDE DEF w
<1>7. list \in Seq(Provisionings)
  <2> HIDE DEF i
  <2>1. PICK e : e = [c EXCEPT !.obj = w]
    OBVIOUS
  <2>2. e \in Provisionings /\ list = [bind[p].claims EXCEPT ![i] = e]
    BY <1>6, <2>1
  <2> HIDE DEF c
  <2>3. QED
    BY <1>3, <2>2
<1>8. bind' = [bind EXCEPT ![p] = [bind[p] EXCEPT !.claims = list, !.claimsDone = i]]
  BY <1>1, <1>2
<1> HIDE DEF list
<1>9. /\ bind' \in [Pods -> Binders] /\ bind'[p].bindings = bind[p].bindings
      /\ bind'[p].stage = "update"
      /\ \A q \in Pods : q # p => bind'[q] = bind[q]
  <2> DEFINE new == [bind[p] EXCEPT !.claims = list, !.claimsDone = i]
  <2>1. new \in [stage : {"update"}, node : Nodes, bindings : Seq(Bindings),
                 claims : Seq(Provisionings), volumesDone : Nat, claimsDone : Nat]
    BY <1>2, <1>3, <1>7
  <2>2. new \in Binders /\ new.bindings = bind[p].bindings /\ new.stage = "update"
    BY <1>2, <2>1 DEF Binders
  <2> HIDE DEF new
  <2>3. bind' = [bind EXCEPT ![p] = new]
    BY <1>8 DEF new
  <2>4. QED
    BY <1>2, <2>2, <2>3
<1> HIDE DEF c, i
<1>10. TypesOK'
  BY <1>1, <1>5, <1>9 DEF BInv, TypesOK
<1>11. BindersFollow'
  <2>1. \A q \in Pods : bind'[q].stage = bind[q].stage
    BY <1>1, <1>9
  <2>2. \A q \in Pods : bind'[q].bindings = bind[q].bindings
    BY <1>9
  <2>3. QED
    BY <1>1, <2>1, <2>2 DEF BInv, BindersFollow
<1>12. QED
  BY <1>1, <1>10, <1>11, CachesStay, DecisionsStay, SameShrinks, SameMove DEF BInv

-----------------------------------------------------------------------------
(* What FindPodVolumes decides.                                            *)
LEMMA ElementsInSeq ==
    ASSUME NEW S, IsFiniteSet(S)
    PROVE  SetToSeq(S) \in Seq(S)
<1>1. Cardinality(S) \in Nat /\ ExistsBijection(1..Cardinality(S), S)
  BY FS_CardinalityType
<1>2. PICK f \in Bijection(1..Cardinality(S), S) : TRUE
  BY <1>1 DEF ExistsBijection
<1>3. f \in [1..Cardinality(S) -> S] /\ IsInjective(f)
  BY <1>2 DEF Bijection, Injection, IsInjective
<1>4. SetToSeq(S) \in [1..Cardinality(S) -> S]
  BY <1>3 DEF SetToSeq
<1>5. QED
  BY <1>1, <1>4

LEMMA SeqWider ==
    ASSUME NEW S, NEW T, S \subseteq T, NEW q \in Seq(S)
    PROVE  q \in Seq(T) /\ \A i \in DOMAIN q : q[i] \in S
<1>1. q \in [1..Len(q) -> S] /\ Len(q) \in Nat
  OBVIOUS
<1>2. QED
  BY <1>1

Found(r, claims, n) ==
    /\ {"bindings", "provisionings"} \subseteq DOMAIN r
    /\ r.bindings \in Seq([claim : Claims, volume : Volumes])
    /\ \A i \in DOMAIN r.bindings :
          /\ r.bindings[i].claim \in claims /\ r.bindings[i].volume \in DOMAIN pvCache
          /\ LatestVolume(r.bindings[i].volume).claim \in {Nil, r.bindings[i].claim}
    /\ r.provisionings \in Seq(DOMAIN pvcCache)
    /\ \A i \in DOMAIN r.provisionings :
          /\ r.provisionings[i] \in claims
          /\ LatestClaim(r.provisionings[i]).selected \in {Nil, n}

LEMMA NothingFound ==
    ASSUME NEW claims, NEW n, NEW code
    PROVE  Found(Nothing(code), claims, n)
<1>1. /\ Nothing(code).bindings = <<>> /\ Nothing(code).provisionings = <<>>
      /\ {"bindings", "provisionings"} \subseteq DOMAIN Nothing(code)
  BY DEF Nothing
<1>2. \A S : <<>> \in Seq(S)
  OBVIOUS
<1>3. \A i : i \notin DOMAIN <<>>
  OBVIOUS
<1>4. QED
  BY <1>1, <1>2, <1>3, Zenon DEF Found

(* What is found for the claims that have no volume yet.                   *)
LEMMA FoundForUnbound ==
    ASSUME TypesOK, NEW claims \in SUBSET (DOMAIN pvcCache), NEW n,
           NEW r \in FindForUnbound(claims, n)
    PROVE  Found(r, claims, n)
<1> DEFINE chosen == Selected(claims)
           rest == claims \ chosen
           lists == ListsFor(claims)
           Provision2(m) == SetToSeq(chosen) \o m.unbound
<1>0. IsFiniteSet(claims) /\ IsFiniteSet(chosen) /\ IsFiniteSet(rest)
  BY FS_Subset, VolumeAssumption DEF TypesOK, Selected
<1>1. ASSUME \E c \in chosen : LatestClaim(c).selected # n
      PROVE  Found(r, claims, n)
  <2>1. r = Nothing("no")
    BY <1>1 DEF FindForUnbound
  <2>2. QED
    BY <2>1, NothingFound
<1>2. ASSUME ~\E c \in chosen : LatestClaim(c).selected # n
      PROVE  Found(r, claims, n)
  <2>1. PICK m \in FindMatchingVolumes(rest, n, lists) :
           /\ {"bindings", "provisionings"} \subseteq DOMAIN r
           /\ r.bindings = m.bindings
           /\ r.provisionings = Provision2(m) \/ r.provisionings = <<>>
    <3>1. r \in {WithProvisions(m, claims, n) : m \in FindMatchingVolumes(rest, n, lists)}
      BY <1>2 DEF FindForUnbound
    <3>2. PICK m \in FindMatchingVolumes(rest, n, lists) : r = WithProvisions(m, claims, n)
      BY <3>1
    <3>3. QED
      BY <3>2 DEF WithProvisions
  <2>2. \A c \in claims : lists[ClaimSpec(c).class] = ListPVs(ClaimSpec(c).class)
    BY DEF ListsFor
  <2>3. \A k : /\ DOMAIN ListPVs(k) \subseteq DOMAIN pvCache
               /\ \A v \in DOMAIN ListPVs(k) : ListPVs(k)[v] = LatestVolume(v)
    BY DEF ListPVs
  <2>4. ListsVolumes(rest, lists)
    BY <2>2, <2>3 DEF ListsVolumes, TypesOK
  <2> HIDE DEF lists, rest
  <2>5. m \in Matches(rest, lists)
    BY <1>0, <2>1, <2>4, MatchesAnswer
  <2>6. m.bindings \in Seq(Pairs(rest, lists)) /\ m.unbound \in Seq(rest)
    BY <2>5 DEF Matches
  <2>7. ASSUME NEW b \in Pairs(rest, lists)
        PROVE  /\ b \in [claim : Claims, volume : Volumes] /\ b.volume \in DOMAIN pvCache
               /\ b.claim \in claims
               /\ LatestVolume(b.volume).claim \in {Nil, b.claim}
    <3>1. /\ b.claim \in rest /\ b.volume \in Volumes /\ Pair(b, lists)
          /\ b \in [claim : rest, volume : Volumes]
      BY DEF Pairs
    <3>2. lists[ClaimSpec(b.claim).class] = ListPVs(ClaimSpec(b.claim).class)
      BY <2>2, <3>1 DEF rest
    <3>3. b.volume \in DOMAIN pvCache /\ LatestVolume(b.volume).claim \in {Nil, b.claim}
      BY <2>3, <3>1, <3>2 DEF Pair
    <3>4. QED
      BY <3>1, <3>3 DEF rest, TypesOK
  <2>8. /\ m.bindings \in Seq([claim : Claims, volume : Volumes])
        /\ \A i \in DOMAIN m.bindings : m.bindings[i] \in Pairs(rest, lists)
    <3>1. Pairs(rest, lists) \subseteq [claim : Claims, volume : Volumes]
      BY <2>7
    <3>2. m.bindings \in Seq([claim : Claims, volume : Volumes])
      BY <2>6, <3>1, SeqWider
    <3>3. \A i \in DOMAIN m.bindings : m.bindings[i] \in Pairs(rest, lists)
      BY <2>6, <3>1, SeqWider, Zenon
    <3>4. QED
      BY <3>2, <3>3
  <2>9. SetToSeq(chosen) \in Seq(chosen)
    BY <1>0, ElementsInSeq
  <2>10. Provision2(m) \in Seq(claims)
    <3>1. SetToSeq(chosen) \in Seq(claims) /\ m.unbound \in Seq(claims)
      <4>1. rest \subseteq claims /\ chosen \subseteq claims
        BY DEF rest, Selected
      <4> HIDE DEF chosen
      <4>2. QED
        BY <2>6, <2>9, <4>1, SeqWider
    <3> HIDE DEF chosen
    <3>2. QED
      BY <3>1
  <2>11. \A c \in claims : LatestClaim(c).selected \in {Nil, n}
    BY <1>2 DEF Selected
  <2> HIDE DEF Provision2, chosen
  <2>12. /\ r.provisionings \in Seq(DOMAIN pvcCache)
         /\ \A i \in DOMAIN r.provisionings :
               /\ r.provisionings[i] \in claims
               /\ LatestClaim(r.provisionings[i]).selected \in {Nil, n}
    <3>1. r.provisionings \in Seq(claims)
      <4>1. <<>> \in Seq(claims)
        OBVIOUS
      <4>2. QED
        BY <2>1, <2>10, <4>1
    <3>2. r.provisionings \in Seq(DOMAIN pvcCache)
      BY <3>1, SeqWider
    <3>3. \A i \in DOMAIN r.provisionings : r.provisionings[i] \in claims
      BY <3>1
    <3>4. QED
      BY <2>11, <3>2, <3>3
  <2>13. QED
    BY <2>1, <2>7, <2>8, <2>12 DEF Found
<1>3. QED
  BY <1>1, <1>2

(* The decision of a pod for a node is replaced.                           *)
LEMMA NewDecision ==
    ASSUME TypesOK, DecisionsFollow, UNCHANGED <<pvCache, pvcCache>>, NEW p \in Pods, NEW n, NEW d,
           DecisionFollows(d, n), decisions' = Put(decisions, p, Put(GetDecisions(p), n, d))
    PROVE  DecisionsFollow'
<1>1. /\ DOMAIN decisions' = DOMAIN decisions \cup {p}
      /\ \A q \in DOMAIN decisions : q # p => decisions'[q] = decisions[q]
      /\ decisions'[p] = Put(GetDecisions(p), n, d)
  BY DEF Put
<1>2. ASSUME NEW m \in DOMAIN decisions'[p]
      PROVE  DecisionFollows(decisions'[p][m], m)
  <2>1. CASE m = n
    <3>1. decisions'[p][n] = d
      BY <1>1 DEF Put
    <3>2. QED
      BY <2>1, <3>1
  <2>2. CASE m # n
    <3>1. m \in DOMAIN GetDecisions(p) /\ decisions'[p][m] = GetDecisions(p)[m]
      BY <1>1, <2>2 DEF Put
    <3>2. DOMAIN <<>> = {}
      OBVIOUS
    <3>3. p \in DOMAIN decisions /\ GetDecisions(p) = decisions[p]
      BY <3>1, <3>2 DEF GetDecisions
    <3>4. QED
      BY <3>1, <3>3 DEF DecisionsFollow
  <2>3. QED
    BY <2>1, <2>2
<1>3. \A q \in DOMAIN decisions' : \A m \in DOMAIN decisions'[q] :
          DecisionFollows(decisions'[q][m], m)
  <2>1. ASSUME NEW q \in DOMAIN decisions', NEW m \in DOMAIN decisions'[q], q # p
        PROVE  DecisionFollows(decisions'[q][m], m)
    <3>1. q \in DOMAIN decisions /\ decisions'[q] = decisions[q]
      BY <1>1, <2>1
    <3>2. QED
      BY <2>1, <3>1, Zenon DEF DecisionsFollow
  <2>2. QED
    BY <1>2, <2>1, Zenon
<1>4. \A o, m : DecisionFollows(o, m)' <=> DecisionFollows(o, m)
  BY DEF DecisionFollows, BindingFollows, ProvisioningFollows
<1>5. DOMAIN decisions' \subseteq Pods
  BY <1>1 DEF DecisionsFollow
<1>6. QED
  BY <1>3, <1>4, <1>5 DEF DecisionsFollow

LEMMA FoundResults ==
    ASSUME BInv, NEW p \in Pods, NEW n, NEW r \in FindResults(p, n)
    PROVE  Found(r, uses[p], n)
<1> DEFINE v == PodVolumes(p)
           reachable == CheckBoundClaims(v.bound, n)
<1>1. CASE \E code : r = Nothing(code)
  BY <1>1, NothingFound
<1>2. CASE ~\E code : r = Nothing(code)
  <2>1. /\ uses[p] \subseteq DOMAIN pvcCache
        /\ r \in {[r0 EXCEPT !.code = IF @ = "yes" THEN reachable ELSE @] :
                     r0 \in FindForUnbound(v.toBind, n)}
    BY <1>2 DEF FindResults
  <2>2. PICK r0 \in FindForUnbound(v.toBind, n) :
           r = [r0 EXCEPT !.code = IF @ = "yes" THEN reachable ELSE @]
    BY <2>1
  <2>3. v.toBind \subseteq uses[p]
    BY DEF PodVolumes
  <2>4. Found(r0, v.toBind, n)
    BY <2>1, <2>2, <2>3, FoundForUnbound DEF BInv
  <2> HIDE DEF reachable
  <2>5. PICK code : r = [r0 EXCEPT !.code = code]
    BY <2>2
  <2>6. /\ {"bindings", "provisionings"} \subseteq DOMAIN r
        /\ r.bindings = r0.bindings /\ r.provisionings = r0.provisionings
    BY <2>4, <2>5 DEF Found
  <2>7. QED
    BY <2>3, <2>4, <2>6, Zenon DEF Found
<1>3. QED
  BY <1>1, <1>2

LEMMA SeqMade ==
    ASSUME NEW S, NEW q \in Seq(S), NEW T, NEW g, DOMAIN g = DOMAIN q,
           g = [i \in DOMAIN q |-> g[i]], \A i \in DOMAIN q : g[i] \in T
    PROVE  g \in Seq(T)
<1>1. DOMAIN q = 1..Len(q) /\ Len(q) \in Nat
  OBVIOUS
<1>2. g \in [1..Len(q) -> T]
  BY <1>1
<1>3. QED
  BY <1>1, <1>2

(* The decision made of what was found follows the cache it was read from. *)
LEMMA FoundFollows ==
    ASSUME BInv, NEW claims, NEW n, NEW r, Found(r, claims, n)
    PROVE  DecisionFollows([bindings |-> WithObjects(r).bindings,
                            provisionings |-> WithObjects(r).provisionings], n)
<1> DEFINE bs == WithObjects(r).bindings
           cs == WithObjects(r).provisionings
<1>1. /\ bs = [i \in DOMAIN r.bindings |->
                 [claim |-> r.bindings[i].claim, name |-> r.bindings[i].volume,
                  obj |-> LatestVolume(r.bindings[i].volume)]]
      /\ cs = [i \in DOMAIN r.provisionings |->
                 [name |-> r.provisionings[i], obj |-> LatestClaim(r.provisionings[i])]]
  BY DEF WithObjects
<1> HIDE DEF bs, cs
<1>2. ASSUME NEW i \in DOMAIN r.bindings
      PROVE  bs[i] \in Bindings /\ BindingFollows(bs[i])
  <2> DEFINE b == r.bindings[i]
             o == LatestVolume(b.volume)
  <2>1. /\ b \in [claim : Claims, volume : Volumes] /\ b.volume \in DOMAIN pvCache
        /\ o.claim \in {Nil, b.claim}
    <3>1. r.bindings \in Seq([claim : Claims, volume : Volumes])
      BY DEF Found
    <3>2. b \in [claim : Claims, volume : Volumes]
      BY <3>1, SeqWider, Zenon
    <3>3. QED
      BY <3>2 DEF Found
  <2>2. bs[i] = [claim |-> b.claim, name |-> b.volume, obj |-> o]
    BY <1>1
  <2> HIDE DEF b
  <2>3. o \in VolumeObjects /\ VolumeFollows(o, pvCache[b.volume].api)
    BY <2>1, CachedVolume DEF BInv, CachesFollow, LatestVolume, GetLatest
  <2> HIDE DEF o
  <2>4. bs[i] \in Bindings
    BY <2>1, <2>2, <2>3 DEF Bindings
  <2>5. bs[i].name = b.volume /\ bs[i].obj = o /\ bs[i].claim = b.claim
    BY <2>2
  <2>6. QED
    BY <2>1, <2>3, <2>4, <2>5 DEF BindingFollows
<1>3. ASSUME NEW i \in DOMAIN r.provisionings
      PROVE  cs[i] \in Provisionings /\ ProvisioningFollows(cs[i], n)
  <2> DEFINE c == r.provisionings[i]
             o == LatestClaim(c)
  <2>1. c \in DOMAIN pvcCache /\ o.selected \in {Nil, n}
    BY DEF Found
  <2>2. cs[i] = [name |-> c, obj |-> o]
    BY <1>1
  <2> HIDE DEF c
  <2>3. c \in Claims /\ o \in ClaimObjects /\ ClaimFollows(o, pvcCache[c].api)
    BY <2>1, CachedClaim DEF BInv, CachesFollow, LatestClaim, GetLatest
  <2> HIDE DEF o
  <2>4. cs[i] \in Provisionings
    BY <2>2, <2>3 DEF Provisionings
  <2>5. cs[i].name = c /\ cs[i].obj = o
    BY <2>2
  <2>6. QED
    BY <2>1, <2>3, <2>4, <2>5 DEF ProvisioningFollows
<1>4. bs \in Seq(Bindings) /\ DOMAIN bs = DOMAIN r.bindings
  <2>1. PICK S : r.bindings \in Seq(S)
    BY DEF Found
  <2>2. DOMAIN bs = DOMAIN r.bindings /\ bs = [i \in DOMAIN r.bindings |-> bs[i]]
    BY <1>1
  <2>3. QED
    BY <1>2, <2>1, <2>2, SeqMade, Zenon
<1>5. cs \in Seq(Provisionings) /\ DOMAIN cs = DOMAIN r.provisionings
  <2>1. r.provisionings \in Seq(DOMAIN pvcCache)
    BY DEF Found
  <2>2. DOMAIN cs = DOMAIN r.provisionings /\ cs = [i \in DOMAIN r.provisionings |-> cs[i]]
    BY <1>1
  <2>3. QED
    BY <1>3, <2>1, <2>2, SeqMade, Zenon
<1>6. QED
  BY <1>2, <1>3, <1>4, <1>5 DEF DecisionFollows, bs, cs

LEMMA FindPodVolumesKeeps ==
    ASSUME BInv, NEW n \in Nodes, FindPodVolumes(n)
    PROVE  BInv'
<1> DEFINE p == loop.pod
<1>1. /\ UNCHANGED <<uses, pvs, pvcs, bind, process>> /\ UNCHANGED caches
      /\ UNCHANGED <<pvCache, pvcCache>> /\ loop.pod # Nil
  BY DEF FindPodVolumes, api, caches
<1>2. loop \in [pod : Pods \cup {Nil}, left : SUBSET Nodes, fit : SUBSET Nodes] /\ p \in Pods
  BY <1>1 DEF BInv, TypesOK
<1>3. PICK r \in FindResults(p, n) :
         /\ loop' = [loop EXCEPT !.left = @ \ {n}, !.fit = IF r.code = "yes" THEN @ \cup {n} ELSE @]
         /\ \/ ClearBindings(p, n)
            \/ UpdateBindings(p, n, WithObjects(r).bindings, WithObjects(r).provisionings)
  BY DEF FindPodVolumes
<1>4. loop' \in [pod : Pods \cup {Nil}, left : SUBSET Nodes, fit : SUBSET Nodes]
  <2>1. CASE r.code = "yes"
    BY <1>2, <1>3, <2>1
  <2>2. CASE r.code # "yes"
    BY <1>2, <1>3, <2>2
  <2>3. QED
    BY <2>1, <2>2
<1>5. TypesOK'
  BY <1>1, <1>4 DEF BInv, TypesOK
<1>6. CASE ClearBindings(p, n)
  <2>1. DecisionsShrink
    BY <1>6 DEF ClearBindings, DecisionsShrink, Restrict
  <2>2. QED
    BY <1>1, <1>5, <2>1, CachesLeft, SameMove
<1>7. CASE UpdateBindings(p, n, WithObjects(r).bindings, WithObjects(r).provisionings)
  <2> DEFINE d == [bindings |-> WithObjects(r).bindings,
                   provisionings |-> WithObjects(r).provisionings]
  <2>1. DecisionFollows(d, n)
    BY <1>2, <1>3, FoundResults, FoundFollows
  <2>2. decisions' = Put(decisions, p, Put(GetDecisions(p), n, d))
    BY <1>7 DEF UpdateBindings
  <2> HIDE DEF d
  <2>3. DecisionsFollow'
    BY <1>1, <1>2, <2>1, <2>2, NewDecision DEF BInv
  <2>4. QED
    BY <1>1, <1>5, <2>3, CachesStay, BindersStay, SameMove DEF BInv
<1>8. QED
  BY <1>3, <1>6, <1>7

-----------------------------------------------------------------------------
(* What AssumePodVolumes assumes.                                          *)
AssumedBindings == [claim : Claims, name : Volumes, obj : VolumeObjects, dirty : BOOLEAN]
AssumedClaims   == [name : Claims, obj : ClaimObjects, dirty : BOOLEAN]

(* A volume given to the claim it was chosen for; it is dirty only when it *)
(* is not the one shown.                                                   *)
LEMMA BoundForClaim ==
    ASSUME BInv, NEW b \in Bindings, BindingFollows(b)
    PROVE  LET new == GetBindVolumeToClaim(b.obj, b.claim)
               shown == pvCache[b.name].api
           IN  /\ new \in VolumeObjects /\ new.claim = b.claim
               /\ VolumeFollows(new, shown)
               /\ new # b.obj => new # shown
<1> DEFINE o == b.obj
           c == b.claim
           new == GetBindVolumeToClaim(o, c)
           shown == pvCache[b.name].api
<1>1. o \in VolumeObjects /\ c \in Claims /\ c # Nil
  <2>1. o \in VolumeObjects /\ c \in Claims
    BY DEF Bindings
  <2>2. QED
    BY <2>1, VolumeAssumption
<1>2. b.name \in DOMAIN pvCache /\ VolumeFollows(o, shown) /\ o.claim \in {Nil, c}
  BY DEF BindingFollows
<1>3. shown \in VolumeObjects
  BY <1>2, CachedVolume DEF BInv
<1> HIDE DEF o, c, shown
<1>4. new = [o EXCEPT !.claim = c, !.full = TRUE, !.ours = o.ours \/ ~(o.claim = c)]
  BY DEF GetBindVolumeToClaim, IsVolumeBoundToClaim
<1> HIDE DEF new
<1>5. new \in VolumeObjects /\ new.claim = c /\ new.full = TRUE /\ new.version = o.version
  BY <1>1, <1>4 DEF VolumeObjects
<1>6. VolumeFollows(new, shown)
  BY <1>2, <1>5 DEF VolumeFollows
<1>7. ASSUME new = shown PROVE new = o
  <2>1. o.version = shown.version /\ shown.full = TRUE /\ shown.claim = c
    BY <1>5, <1>7
  <2>2. o.full = TRUE /\ o.claim = c
    BY <1>1, <1>2, <2>1 DEF VolumeFollows, VolumeObjects
  <2>3. o.ours \in BOOLEAN
    BY <1>1 DEF VolumeObjects
  <2>4. new = [o EXCEPT !.claim = o.claim, !.full = o.full, !.ours = o.ours]
    BY <1>4, <2>2, <2>3
  <2>5. QED
    BY <1>1, <2>4 DEF VolumeObjects
<1>8. QED
  BY <1>5, <1>6, <1>7 DEF new, o, c, shown

LEMMA NewBindingsFacts ==
    ASSUME BInv, NEW p \in Pods, NEW n
    PROVE  LET bs == NewBindings(p, n)
           IN  /\ bs \in Seq(AssumedBindings)
               /\ \A i \in DOMAIN bs :
                     /\ bs[i] \in AssumedBindings /\ BindingFollows(bs[i])
                     /\ bs[i].dirty => bs[i].obj # pvCache[bs[i].name].api
<1> DEFINE bs == NewBindings(p, n)
<1>1. CASE ~HasDecision(p, n)
  <2>1. bs = <<>>
    BY <1>1 DEF NewBindings
  <2>2. <<>> \in Seq(AssumedBindings) /\ DOMAIN <<>> = {}
    OBVIOUS
  <2>3. QED
    BY <2>1, <2>2
<1>2. CASE HasDecision(p, n)
  <2> DEFINE old == decisions[p][n].bindings
             New(b) == GetBindVolumeToClaim(b.obj, b.claim)
  <2>1. bs = [i \in DOMAIN old |-> [claim |-> old[i].claim, name |-> old[i].name,
                                    obj |-> New(old[i]), dirty |-> New(old[i]) # old[i].obj]]
    BY <1>2 DEF NewBindings
  <2>2. DecisionFollows(decisions[p][n], n)
    BY <1>2 DEF BInv, DecisionsFollow, HasDecision
  <2>3. old \in Seq(Bindings) /\ \A i \in DOMAIN old : BindingFollows(old[i])
    BY <2>2 DEF DecisionFollows
  <2> HIDE DEF old, bs
  <2>4. ASSUME NEW i \in DOMAIN old
        PROVE  /\ bs[i] \in AssumedBindings /\ BindingFollows(bs[i])
               /\ bs[i].dirty => bs[i].obj # pvCache[bs[i].name].api
    <3> DEFINE b == old[i]
               new == New(b)
    <3>1. b \in Bindings /\ BindingFollows(b)
      BY <2>3, SeqWider, Zenon
    <3>2. bs[i] = [claim |-> b.claim, name |-> b.name, obj |-> new, dirty |-> new # b.obj]
      BY <2>1
    <3> HIDE DEF b, New
    <3>3. /\ new \in VolumeObjects /\ new.claim = b.claim
          /\ VolumeFollows(new, pvCache[b.name].api)
          /\ new # b.obj => new # pvCache[b.name].api
      BY <3>1, BoundForClaim DEF New
    <3> HIDE DEF new
    <3>4. b.claim \in Claims /\ b.name \in Volumes /\ b.name \in DOMAIN pvCache
      BY <3>1 DEF Bindings, BindingFollows
    <3>5. /\ bs[i].claim = b.claim /\ bs[i].name = b.name /\ bs[i].obj = new
          /\ bs[i].dirty = (new # b.obj)
      BY <3>2
    <3>6. bs[i] \in AssumedBindings
      <4>1. PICK z \in BOOLEAN : z = (new # b.obj)
        OBVIOUS
      <4>2. bs[i] = [claim |-> b.claim, name |-> b.name, obj |-> new, dirty |-> z]
        BY <3>2, <4>1
      <4>3. QED
        BY <3>3, <3>4, <4>2 DEF AssumedBindings
    <3>7. BindingFollows(bs[i])
      BY <3>3, <3>4, <3>5 DEF BindingFollows
    <3>8. QED
      BY <3>3, <3>5, <3>6, <3>7
  <2>5. DOMAIN bs = DOMAIN old /\ bs = [i \in DOMAIN old |-> bs[i]]
    BY <2>1
  <2>6. bs \in Seq(AssumedBindings)
    BY <2>3, <2>4, <2>5, SeqMade, Zenon
  <2>7. QED
    BY <2>4, <2>5, <2>6 DEF bs
<1>3. QED
  BY <1>1, <1>2

LEMMA NewClaimsFacts ==
    ASSUME BInv, NEW p \in Pods, NEW n \in Nodes
    PROVE  LET cs == NewProvisionedPVCs(p, n)
           IN  /\ cs \in Seq(AssumedClaims)
               /\ \A i \in DOMAIN cs :
                     /\ cs[i] \in AssumedClaims /\ cs[i].obj.selected = n
                     /\ ProvisioningFollows(cs[i], n)
<1> DEFINE cs == NewProvisionedPVCs(p, n)
<1>1. CASE ~HasDecision(p, n)
  <2>1. cs = <<>>
    BY <1>1 DEF NewProvisionedPVCs
  <2>2. <<>> \in Seq(AssumedClaims) /\ DOMAIN <<>> = {}
    OBVIOUS
  <2>3. QED
    BY <2>1, <2>2
<1>2. CASE HasDecision(p, n)
  <2> DEFINE old == decisions[p][n].provisionings
  <2>1. cs = [i \in DOMAIN old |-> [name |-> old[i].name,
                                    obj |-> [old[i].obj EXCEPT !.selected = n], dirty |-> TRUE]]
    BY <1>2 DEF NewProvisionedPVCs
  <2>2. DecisionFollows(decisions[p][n], n)
    BY <1>2 DEF BInv, DecisionsFollow, HasDecision
  <2>3. old \in Seq(Provisionings) /\ \A i \in DOMAIN old : ProvisioningFollows(old[i], n)
    BY <2>2 DEF DecisionFollows
  <2> HIDE DEF old, cs
  <2>4. ASSUME NEW i \in DOMAIN old
        PROVE  cs[i] \in AssumedClaims /\ cs[i].obj.selected = n /\ ProvisioningFollows(cs[i], n)
    <3> DEFINE c == old[i]
               new == [c.obj EXCEPT !.selected = n]
    <3>1. c \in Provisionings /\ ProvisioningFollows(c, n)
      BY <2>3, SeqWider, Zenon
    <3>2. cs[i] = [name |-> c.name, obj |-> new, dirty |-> TRUE]
      BY <2>1
    <3> HIDE DEF c
    <3>3. c.obj \in ClaimObjects /\ c.name \in Claims
      BY <3>1 DEF Provisionings
    <3>4. /\ new \in ClaimObjects /\ new.selected = n /\ new.version = c.obj.version
          /\ new.volume = c.obj.volume /\ new.completed = c.obj.completed
      BY <3>3 DEF ClaimObjects
    <3> HIDE DEF new
    <3>5. cs[i].name = c.name /\ cs[i].obj = new
      BY <3>2
    <3>6. cs[i] \in AssumedClaims
      BY <3>2, <3>3, <3>4 DEF AssumedClaims
    <3>7. ProvisioningFollows(cs[i], n)
      BY <3>1, <3>4, <3>5 DEF ProvisioningFollows, ClaimFollows
    <3>8. QED
      BY <3>4, <3>5, <3>6, <3>7
  <2>5. DOMAIN cs = DOMAIN old /\ cs = [i \in DOMAIN old |-> cs[i]]
    BY <2>1
  <2>6. cs \in Seq(AssumedClaims)
    BY <2>3, <2>4, <2>5, SeqMade, Zenon
  <2>7. QED
    BY <2>4, <2>5, <2>6 DEF cs
<1>3. QED
  BY <1>1, <1>2

(* What is restored after a failure is all that was assumed before it.     *)
LEMMA RestoredAfter ==
    ASSUME NEW old, NEW new, NEW items, NEW k, Kept(new, old, items, k), DOMAIN new = DOMAIN old,
           NEW names, \A i \in 1..k : items[i].name \in names
    PROVE  AssumedNames(CacheRestore(new, names)) \subseteq AssumedNames(old)
<1> DEFINE r == CacheRestore(new, names)
<1>1. r = [x \in DOMAIN new |-> IF x \in names THEN Both(new[x].api) ELSE new[x]]
  BY DEF CacheRestore
<1> HIDE DEF r
<1>2. ASSUME NEW x \in DOMAIN r, r[x].latest # r[x].api
      PROVE  x \in DOMAIN old /\ old[x].latest # old[x].api
  <2>1. x \notin names
    BY <1>1, <1>2 DEF Both
  <2>2. r[x] = new[x] /\ x \in DOMAIN old
    BY <1>1, <2>1
  <2>3. new[x].latest = old[x].latest
    BY <2>1, <2>2 DEF Kept, AssumedFrom
  <2>4. QED
    BY <1>2, <2>2, <2>3 DEF Kept
<1>3. QED
  BY <1>2 DEF AssumedNames, r

LEMMA NamesBefore ==
    ASSUME NEW S, NEW items \in Seq(S), NEW k \in 0..Len(items)
    PROVE  \A i \in 1..k : items[i].name \in NamesIn(SubSeq(items, 1, k))
<1>1. /\ DOMAIN SubSeq(items, 1, k) = 1..k
      /\ \A i \in 1..k : SubSeq(items, 1, k)[i] = items[i]
  OBVIOUS
<1>2. QED
  BY <1>1 DEF NamesIn

(* Assuming all of the items, of volumes and of claims: no version changes, *)
(* and what was assumed before stays assumed.                              *)
LEMMA VolumesAssumed ==
    ASSUME BInv, NEW p \in Pods, NEW n
    PROVE  LET bs == NewBindings(p, n)
               vs == AssumeAll(pvCache, bs)
           IN  /\ vs.failed \in 0..Len(bs) /\ VolumesShow(vs.cache)
               /\ Kept(vs.cache, pvCache, bs, IF vs.failed = 0 THEN Len(bs) ELSE vs.failed - 1)
               /\ AssumedNames(pvCache) \subseteq AssumedNames(vs.cache)
<1> DEFINE bs == NewBindings(p, n)
           vs == AssumeAll(pvCache, bs)
           k == IF vs.failed = 0 THEN Len(bs) ELSE vs.failed - 1
<1>1. /\ bs \in Seq(AssumedBindings)
      /\ \A i \in DOMAIN bs :
            /\ bs[i] \in AssumedBindings /\ BindingFollows(bs[i])
            /\ bs[i].dirty => bs[i].obj # pvCache[bs[i].name].api
  BY NewBindingsFacts
<1> HIDE DEF bs
<1>2. Len(bs) \in Nat /\ DOMAIN bs = 1..Len(bs)
  BY <1>1
<1>3. \A i \in 1..Len(bs) : bs[i].obj \in VolumeObjects /\ bs[i].dirty \in BOOLEAN
  BY <1>1, <1>2 DEF AssumedBindings
<1>4. Versioned(VolumeObjects)
  BY DEF Versioned, VolumeObjects
<1>5. NoNewer(pvCache, bs)
  <2>1. ASSUME NEW i \in 1..Len(bs)
        PROVE  bs[i].obj.version <= pvCache[bs[i].name].latest.version
    BY <1>1, <1>2 DEF BindingFollows, VolumeFollows, BInv, CachesFollow
  <2>2. QED
    BY <2>1 DEF NoNewer
<1>6. pvCache \in [DOMAIN pvCache -> Cached(VolumeObjects)]
  BY DEF BInv, TypesOK
<1>7. /\ vs.failed \in 0..Len(bs) /\ vs.cache \in [DOMAIN pvCache -> Cached(VolumeObjects)]
      /\ Kept(vs.cache, pvCache, bs, k)
  <2>1. Assumable(bs, VolumeObjects)
    BY <1>3 DEF Assumable
  <2>2. QED
    BY <1>2, <1>4, <1>5, <1>6, <2>1, AssumeAllFacts
<1> HIDE DEF vs
<1>8. k \in 0..Len(bs)
  BY <1>2, <1>7
<1> HIDE DEF k
<1>9. ASSUME NEW v \in DOMAIN pvCache
      PROVE  /\ vs.cache[v].api = pvCache[v].api
             /\ VolumeFollows(vs.cache[v].latest, pvCache[v].api)
             /\ vs.cache[v].latest.version = pvCache[v].api.version
             /\ pvCache[v].latest # pvCache[v].api => vs.cache[v].latest # pvCache[v].api
  <2>1. /\ vs.cache[v].api = pvCache[v].api
        /\ vs.cache[v].latest.version = pvCache[v].api.version
    BY <1>7 DEF Kept, BInv, CachesFollow
  <2>2. CASE vs.cache[v].latest = pvCache[v].latest
    BY <2>1, <2>2 DEF BInv, CachesFollow
  <2>3. CASE vs.cache[v].latest # pvCache[v].latest
    <3>1. PICK i \in 1..k : AssumedFrom(bs, i, v, vs.cache[v].latest)
      BY <1>7, <2>3 DEF Kept
    <3>2. i \in DOMAIN bs
      BY <1>2, <1>8
    <3>3. BindingFollows(bs[i]) /\ bs[i].obj # pvCache[bs[i].name].api
      BY <1>1, <3>1, <3>2 DEF AssumedFrom
    <3>4. QED
      BY <2>1, <3>1, <3>3 DEF AssumedFrom, BindingFollows
  <2>4. QED
    BY <2>2, <2>3
<1>10. VolumesShow(vs.cache)
  BY <1>7, <1>9 DEF VolumesShow
<1>11. AssumedNames(pvCache) \subseteq AssumedNames(vs.cache)
  BY <1>7, <1>9 DEF AssumedNames
<1>12. QED
  BY <1>7, <1>10, <1>11 DEF bs, vs, k

LEMMA ClaimsAssumed ==
    ASSUME BInv, NEW p \in Pods, NEW n \in Nodes
    PROVE  LET cs == NewProvisionedPVCs(p, n)
               r == AssumeAll(pvcCache, cs)
           IN  /\ r.failed \in 0..Len(cs) /\ ClaimsShow(r.cache)
               /\ Kept(r.cache, pvcCache, cs, IF r.failed = 0 THEN Len(cs) ELSE r.failed - 1)
               /\ AssumedNames(pvcCache) \subseteq AssumedNames(r.cache)
<1> DEFINE cs == NewProvisionedPVCs(p, n)
           r == AssumeAll(pvcCache, cs)
           k == IF r.failed = 0 THEN Len(cs) ELSE r.failed - 1
<1>1. /\ cs \in Seq(AssumedClaims)
      /\ \A i \in DOMAIN cs :
            cs[i] \in AssumedClaims /\ cs[i].obj.selected = n /\ ProvisioningFollows(cs[i], n)
  BY NewClaimsFacts
<1> HIDE DEF cs
<1>2. Len(cs) \in Nat /\ DOMAIN cs = 1..Len(cs)
  BY <1>1
<1>3. \A i \in 1..Len(cs) : cs[i].obj \in ClaimObjects /\ cs[i].dirty \in BOOLEAN
  BY <1>1, <1>2 DEF AssumedClaims
<1>4. Versioned(ClaimObjects)
  BY DEF Versioned, ClaimObjects
<1>5. NoNewer(pvcCache, cs)
  <2>1. ASSUME NEW i \in 1..Len(cs), cs[i].name \in DOMAIN pvcCache
        PROVE  cs[i].obj.version <= pvcCache[cs[i].name].latest.version
    BY <1>1, <1>2, <2>1 DEF ProvisioningFollows, ClaimFollows, BInv, CachesFollow
  <2>2. QED
    BY <2>1 DEF NoNewer
<1>6. pvcCache \in [DOMAIN pvcCache -> Cached(ClaimObjects)]
  BY DEF BInv, TypesOK
<1>7. /\ r.failed \in 0..Len(cs) /\ r.cache \in [DOMAIN pvcCache -> Cached(ClaimObjects)]
      /\ Kept(r.cache, pvcCache, cs, k)
  <2>1. Assumable(cs, ClaimObjects)
    BY <1>3 DEF Assumable
  <2>2. QED
    BY <1>2, <1>4, <1>5, <1>6, <2>1, AssumeAllFacts
<1> HIDE DEF r
<1>8. k \in 0..Len(cs)
  BY <1>2, <1>7
<1> HIDE DEF k
<1>9. ASSUME NEW c \in DOMAIN pvcCache
      PROVE  /\ r.cache[c].api = pvcCache[c].api
             /\ ClaimFollows(r.cache[c].latest, pvcCache[c].api)
             /\ r.cache[c].latest.version = pvcCache[c].api.version
             /\ pvcCache[c].latest # pvcCache[c].api => r.cache[c].latest # pvcCache[c].api
  <2> DEFINE shown == pvcCache[c].api
             old == pvcCache[c].latest
             new == r.cache[c].latest
  <2>1. r.cache[c].api = shown /\ new.version = shown.version
    BY <1>7 DEF Kept, BInv, CachesFollow
  <2>2. old \in ClaimObjects /\ shown \in ClaimObjects
    BY CachedClaim DEF BInv
  <2>3. ClaimFollows(old, shown) /\ old.version = shown.version
    BY DEF BInv, CachesFollow
  <2>4. CASE new = old
    BY <2>1, <2>3, <2>4
  <2>5. CASE new # old
    <3>1. PICK i \in 1..k : AssumedFrom(cs, i, c, new)
      BY <1>7, <2>5 DEF Kept
    <3>2. i \in DOMAIN cs
      BY <1>2, <1>8
    <3>3. ProvisioningFollows(cs[i], n) /\ new.selected = n
      BY <1>1, <3>1, <3>2 DEF AssumedFrom
    <3>4. ClaimFollows(new, shown)
      BY <3>1, <3>3 DEF AssumedFrom, ProvisioningFollows
    <3> HIDE DEF old, shown, new
    <3>5. ASSUME new = shown PROVE old = shown
      <4>1. shown.selected = n /\ n # Nil
        BY <3>3, <3>5, VolumeAssumption
      <4>2. /\ old.volume = shown.volume /\ old.completed = shown.completed
            /\ old.selected = shown.selected
        BY <2>3, <4>1 DEF ClaimFollows
      <4>3. QED
        BY <2>2, <2>3, <4>2 DEF ClaimObjects
    <3>6. QED
      BY <2>1, <3>4, <3>5 DEF old, shown, new
  <2>6. QED
    BY <2>4, <2>5
<1>10. ClaimsShow(r.cache)
  BY <1>7, <1>9 DEF ClaimsShow
<1>11. AssumedNames(pvcCache) \subseteq AssumedNames(r.cache)
  BY <1>7, <1>9 DEF AssumedNames
<1>12. QED
  BY <1>7, <1>10, <1>11 DEF cs, r, k

(* Both caches show what they did; all or nothing more is assumed.         *)
LEMMA AssumeBothFacts ==
    ASSUME BInv, NEW p \in Pods, NEW n \in Nodes
    PROVE  LET after == AssumeBoth(NewBindings(p, n), NewProvisionedPVCs(p, n))
           IN  /\ VolumesShow(after.pvCache) /\ ClaimsShow(after.pvcCache)
               /\ \/ /\ after.ok = TRUE
                     /\ AssumedNames(pvCache) \subseteq AssumedNames(after.pvCache)
                     /\ AssumedNames(pvcCache) \subseteq AssumedNames(after.pvcCache)
                  \/ /\ after.ok = FALSE
                     /\ AssumedNames(after.pvCache) \subseteq AssumedNames(pvCache)
                     /\ AssumedNames(after.pvcCache) \subseteq AssumedNames(pvcCache)
<1> DEFINE bs == NewBindings(p, n)
           cs == NewProvisionedPVCs(p, n)
           vs == AssumeAll(pvCache, bs)
           r == AssumeAll(pvcCache, cs)
           after == AssumeBoth(bs, cs)
<1>1. bs \in Seq(AssumedBindings) /\ cs \in Seq(AssumedClaims)
  BY NewBindingsFacts, NewClaimsFacts
<1>2. /\ vs.failed \in 0..Len(bs) /\ VolumesShow(vs.cache)
      /\ Kept(vs.cache, pvCache, bs, IF vs.failed = 0 THEN Len(bs) ELSE vs.failed - 1)
      /\ AssumedNames(pvCache) \subseteq AssumedNames(vs.cache)
  BY VolumesAssumed
<1>3. /\ r.failed \in 0..Len(cs) /\ ClaimsShow(r.cache)
      /\ Kept(r.cache, pvcCache, cs, IF r.failed = 0 THEN Len(cs) ELSE r.failed - 1)
      /\ AssumedNames(pvcCache) \subseteq AssumedNames(r.cache)
  BY ClaimsAssumed
<1>4. Len(bs) \in Nat /\ Len(cs) \in Nat
  BY <1>1
<1>5. after = IF vs.failed # 0
              THEN [ok |-> FALSE, pvcCache |-> pvcCache,
                    pvCache |-> CacheRestore(vs.cache, NamesIn(SubSeq(bs, 1, vs.failed - 1)))]
              ELSE IF r.failed # 0
              THEN [ok |-> FALSE, pvCache |-> CacheRestore(vs.cache, NamesIn(bs)),
                    pvcCache |-> CacheRestore(r.cache, NamesIn(SubSeq(cs, 1, r.failed - 1)))]
              ELSE [ok |-> TRUE, pvCache |-> vs.cache, pvcCache |-> r.cache]
  BY DEF AssumeBoth
<1>6. DOMAIN vs.cache = DOMAIN pvCache /\ DOMAIN r.cache = DOMAIN pvcCache
  BY <1>2, <1>3 DEF VolumesShow, ClaimsShow
<1>7. VolumesShow(pvCache) /\ ClaimsShow(pvcCache)
  BY ShowsNow
<1> HIDE DEF bs, cs, vs, r, after
<1>8. CASE vs.failed # 0
  <2> DEFINE names == NamesIn(SubSeq(bs, 1, vs.failed - 1))
  <2>1. /\ after.ok = FALSE /\ after.pvcCache = pvcCache
        /\ after.pvCache = CacheRestore(vs.cache, names)
    BY <1>5, <1>8
  <2>2. vs.failed - 1 \in 0..Len(bs)
    BY <1>2, <1>4, <1>8
  <2>3. \A i \in 1..(vs.failed - 1) : bs[i].name \in names
    BY <1>1, <2>2, NamesBefore
  <2> HIDE DEF names
  <2>4. AssumedNames(after.pvCache) \subseteq AssumedNames(pvCache)
    BY <1>2, <1>6, <1>8, <2>1, <2>3, RestoredAfter
  <2>5. VolumesShow(after.pvCache)
    BY <1>2, <2>1, RestoreShows
  <2>6. QED
    BY <1>7, <2>1, <2>4, <2>5 DEF bs, cs, after
<1>9. CASE vs.failed = 0 /\ r.failed # 0
  <2> DEFINE names == NamesIn(SubSeq(cs, 1, r.failed - 1))
             all == NamesIn(bs)
  <2>1. /\ after.ok = FALSE /\ after.pvCache = CacheRestore(vs.cache, all)
        /\ after.pvcCache = CacheRestore(r.cache, names)
    BY <1>5, <1>9
  <2>2. r.failed - 1 \in 0..Len(cs)
    BY <1>3, <1>4, <1>9
  <2>3. \A i \in 1..(r.failed - 1) : cs[i].name \in names
    BY <1>1, <2>2, NamesBefore
  <2>4. \A i \in 1..Len(bs) : bs[i].name \in all
    BY <1>1 DEF NamesIn
  <2> HIDE DEF names, all
  <2>5. AssumedNames(after.pvcCache) \subseteq AssumedNames(pvcCache)
    BY <1>3, <1>6, <1>9, <2>1, <2>3, RestoredAfter
  <2>6. AssumedNames(after.pvCache) \subseteq AssumedNames(pvCache)
    BY <1>2, <1>6, <1>9, <2>1, <2>4, RestoredAfter
  <2>7. VolumesShow(after.pvCache) /\ ClaimsShow(after.pvcCache)
    BY <1>2, <1>3, <2>1, RestoreShows
  <2>8. QED
    BY <2>1, <2>5, <2>6, <2>7 DEF bs, cs, after
<1>10. CASE vs.failed = 0 /\ r.failed = 0
  <2>1. after.ok = TRUE /\ after.pvCache = vs.cache /\ after.pvcCache = r.cache
    BY <1>5, <1>10
  <2>2. QED
    BY <1>2, <1>3, <2>1 DEF bs, cs, after
<1>11. QED
  BY <1>8, <1>9, <1>10

LEMMA AssumePodVolumesFacts ==
    ASSUME BInv, NEW n \in Nodes, AssumePodVolumes(n)
    PROVE  /\ UNCHANGED <<uses, pvs, pvcs, process>> /\ loop' = Idle /\ loop.pod \in Pods
           /\ \/ UNCHANGED <<pvCache, pvcCache, bind>> /\ decisions' = Spent(loop.pod)
              \/ /\ VolumesShow(pvCache') /\ ClaimsShow(pvcCache')
                 /\ \/ /\ decisions' = Put(decisions, loop.pod, Put(<<>>, n,
                               [bindings |-> NewBindings(loop.pod, n),
                                provisionings |-> NewProvisionedPVCs(loop.pod, n)]))
                       /\ bind' = [bind EXCEPT ![loop.pod] = [stage |-> "assumed", node |-> n]]
                       /\ AssumedNames(pvCache) \subseteq AssumedNames(pvCache')
                       /\ AssumedNames(pvcCache) \subseteq AssumedNames(pvcCache')
                    \/ /\ decisions' = Spent(loop.pod) /\ UNCHANGED bind
                       /\ AssumedNames(pvCache') \subseteq AssumedNames(pvCache)
                       /\ AssumedNames(pvcCache') \subseteq AssumedNames(pvcCache)
<1> DEFINE p == loop.pod
           after == AssumeBoth(NewBindings(p, n), NewProvisionedPVCs(p, n))
<1>1. /\ UNCHANGED <<uses, pvs, pvcs, process>> /\ loop' = Idle /\ p # Nil
      /\ \/ UNCHANGED <<pvCache, pvcCache, bind>> /\ decisions' = Spent(p)
         \/ /\ pvCache' = after.pvCache /\ pvcCache' = after.pvcCache
            /\ IF after.ok
               THEN /\ decisions' = Put(decisions, p, Put(<<>>, n,
                               [bindings |-> NewBindings(p, n),
                                provisionings |-> NewProvisionedPVCs(p, n)]))
                    /\ bind' = [bind EXCEPT ![p] = [stage |-> "assumed", node |-> n]]
               ELSE decisions' = Spent(p) /\ UNCHANGED bind
  BY DEF AssumePodVolumes, api, caches
<1>2. p \in Pods
  BY <1>1 DEF BInv, TypesOK
<1>3. /\ VolumesShow(after.pvCache) /\ ClaimsShow(after.pvcCache)
      /\ \/ /\ after.ok = TRUE
            /\ AssumedNames(pvCache) \subseteq AssumedNames(after.pvCache)
            /\ AssumedNames(pvcCache) \subseteq AssumedNames(after.pvcCache)
         \/ /\ after.ok = FALSE
            /\ AssumedNames(after.pvCache) \subseteq AssumedNames(pvCache)
            /\ AssumedNames(after.pvcCache) \subseteq AssumedNames(pvcCache)
  BY <1>2, AssumeBothFacts
<1> HIDE DEF after
<1>4. QED
  BY <1>1, <1>2, <1>3

LEMMA AssumePodVolumesKeeps ==
    ASSUME BInv, NEW n \in Nodes, AssumePodVolumes(n)
    PROVE  BInv'
<1> DEFINE p == loop.pod
           bs == NewBindings(p, n)
           cs == NewProvisionedPVCs(p, n)
           d == [bindings |-> bs, provisionings |-> cs]
<1>1. UNCHANGED <<uses, pvs, pvcs, process>> /\ loop' = Idle /\ p \in Pods
  BY AssumePodVolumesFacts
<1>2. CASE UNCHANGED <<pvCache, pvcCache, bind>> /\ decisions' = Spent(p)
  <2>1. TypesOK'
    BY <1>1, <1>2, NoneType DEF BInv, TypesOK
  <2>2. DecisionsShrink
    BY <1>2, SpentShrinks
  <2>3. UNCHANGED caches
    BY <1>2 DEF caches
  <2>4. QED
    BY <1>1, <1>2, <2>1, <2>2, <2>3, CachesLeft, SameMove
<1>3. CASE /\ VolumesShow(pvCache') /\ ClaimsShow(pvcCache')
           /\ \/ /\ decisions' = Put(decisions, p, Put(<<>>, n, d))
                 /\ bind' = [bind EXCEPT ![p] = [stage |-> "assumed", node |-> n]]
              \/ decisions' = Spent(p) /\ UNCHANGED bind
  <2>1. CachesFollow' /\ ApisMove
    BY <1>1, <1>3, ShownKept
  <2>2. bind \in [Pods -> Binders]
    BY DEF BInv, TypesOK
  <2>3. /\ bind' \in [Pods -> Binders]
        /\ \A q \in Pods : bind'[q] = bind[q] \/ bind'[q].stage # "update"
    <3>1. [stage |-> "assumed", node |-> n] \in Binders
      BY DEF Binders
    <3>2. QED
      BY <1>1, <1>3, <2>2, <3>1
  <2>4. TypesOK'
    <3>1. DOMAIN pvCache' = DOMAIN pvCache /\ DOMAIN pvcCache' = DOMAIN pvcCache
      BY <1>3 DEF VolumesShow, ClaimsShow
    <3>2. QED
      BY <1>1, <1>3, <2>3, <3>1, NoneType DEF BInv, TypesOK, VolumesShow, ClaimsShow
  <2>5. BindersFollow'
    BY <1>1, <2>3, <2>4, BindersStay, SameMove DEF BInv
  <2>6. DecisionsFollow'
    <3>1. CASE decisions' = Spent(p)
      BY <2>1, <2>4, <3>1, SpentShrinks, DecisionsStay DEF BInv
    <3>2. CASE decisions' = Put(decisions, p, Put(<<>>, n, d))
      <4>1. DecisionFollows(d, n)
        <5>1. /\ bs \in Seq(AssumedBindings) /\ \A i \in DOMAIN bs : BindingFollows(bs[i])
              /\ cs \in Seq(AssumedClaims) /\ \A i \in DOMAIN cs : ProvisioningFollows(cs[i], n)
          BY <1>1, NewBindingsFacts, NewClaimsFacts
        <5>2. AssumedBindings \subseteq Bindings /\ AssumedClaims \subseteq Provisionings
          BY DEF AssumedBindings, AssumedClaims, Bindings, Provisionings
        <5>3. bs \in Seq(Bindings) /\ cs \in Seq(Provisionings)
          BY <5>1, <5>2, SeqWider, Zenon
        <5>4. d.bindings = bs /\ d.provisionings = cs
          OBVIOUS
        <5> HIDE DEF bs, cs, d
        <5>5. QED
          BY <5>1, <5>3, <5>4, Zenon DEF DecisionFollows
      <4>2. PICK e : e = d
        OBVIOUS
      <4>3. DecisionFollows(e, n)'
        BY <2>1, <2>4, <4>1, <4>2, DecisionStays DEF BInv
      <4> HIDE DEF d
      <4>4. /\ DOMAIN decisions' = DOMAIN decisions \cup {p}
            /\ \A q \in DOMAIN decisions : q # p => decisions'[q] = decisions[q]
            /\ decisions'[p] = Put(<<>>, n, e)
        BY <3>2, <4>2 DEF Put
      <4>5. DOMAIN decisions'[p] = {n} /\ decisions'[p][n] = e
        BY <4>4 DEF Put
      <4>6. ASSUME NEW q \in DOMAIN decisions', NEW m \in DOMAIN decisions'[q]
            PROVE  DecisionFollows(decisions[q][m], m)'
        <5>1. CASE q = p
          <6>1. m = n /\ decisions'[q][m] = e
            BY <4>5, <4>6, <5>1
          <6>2. QED
            BY <4>3, <6>1, Zenon DEF DecisionFollows, BindingFollows, ProvisioningFollows
        <5>2. CASE q # p
          <6>1. PICK o : o = decisions[q][m]
            OBVIOUS
          <6>2. q \in DOMAIN decisions /\ decisions'[q] = decisions[q]
            BY <4>4, <5>2
          <6>3. DecisionFollows(o, m)
            BY <4>6, <6>1, <6>2, Zenon DEF BInv, DecisionsFollow
          <6>4. DecisionFollows(o, m)'
            BY <2>1, <2>4, <6>3, DecisionStays DEF BInv
          <6>5. decisions'[q][m] = o
            BY <6>1, <6>2
          <6>6. QED
            BY <6>4, <6>5, Zenon DEF DecisionFollows, BindingFollows, ProvisioningFollows
        <5>3. QED
          BY <5>1, <5>2
      <4>7. DOMAIN decisions' \subseteq Pods
        BY <1>1, <4>4 DEF BInv, DecisionsFollow
      <4>8. QED
        BY <4>6, <4>7, Zenon DEF DecisionsFollow
    <3>3. QED
      BY <1>3, <3>1, <3>2
  <2>7. QED
    BY <2>1, <2>4, <2>5, <2>6 DEF BInv
<1>4. QED
  <2>1. \/ UNCHANGED <<pvCache, pvcCache, bind>> /\ decisions' = Spent(p)
        \/ /\ VolumesShow(pvCache') /\ ClaimsShow(pvcCache')
           /\ \/ /\ decisions' = Put(decisions, p, Put(<<>>, n, d))
                 /\ bind' = [bind EXCEPT ![p] = [stage |-> "assumed", node |-> n]]
              \/ decisions' = Spent(p) /\ UNCHANGED bind
    BY AssumePodVolumesFacts, Zenon
  <2>2. QED
    BY <1>2, <1>3, <2>1

-----------------------------------------------------------------------------
LEMMA InitHolds == Init => BInv
<1> SUFFICES ASSUME Init PROVE BInv
  OBVIOUS
<1>1. PICK w \in Worlds :
         /\ uses = w.uses
         /\ pvs = [v \in w.existing |->
                     [NewVolume EXCEPT !.claim =
                         IF v \in DOMAIN w.prebound THEN w.prebound[v] ELSE Nil]]
         /\ pvcs = [c \in UNION {w.uses[p] : p \in Pods} |-> NewClaim]
  BY DEF Init
<1>2. /\ w.uses \in [Pods -> SUBSET Claims] /\ w.existing \subseteq Volumes
      /\ \A v \in DOMAIN w.prebound : w.prebound[v] \in Claims
  BY VolumeAssumption
<1>3. /\ DOMAIN pvs \subseteq Volumes /\ DOMAIN pvcs \subseteq Claims
      /\ \A c \in DOMAIN pvcs : pvcs[c] \in ClaimObjects
  BY <1>1, <1>2, NewObjects
<1>4. ASSUME NEW v \in DOMAIN pvs PROVE pvs[v] \in VolumeObjects
  <2>1. PICK c \in Claims \cup {Nil} : pvs[v] = [NewVolume EXCEPT !.claim = c]
    BY <1>1, <1>2
  <2>2. PICK o \in VolumeObjects : o = NewVolume /\ ~o.full
    BY NewObjects DEF NewVolume
  <2>3. [o EXCEPT !.claim = c] \in VolumeObjects
    BY <2>2 DEF VolumeObjects
  <2>4. QED
    BY <2>1, <2>2, <2>3
<1>5. /\ pvCache = [v \in DOMAIN pvs |-> [latest |-> pvs[v], api |-> pvs[v]]]
      /\ pvcCache = [c \in DOMAIN pvcs |-> [latest |-> pvcs[c], api |-> pvcs[c]]]
      /\ decisions = <<>> /\ loop = Idle /\ bind = [p \in Pods |-> None] /\ process = 0
  BY DEF Init, Listed, Both
<1>6. TypesOK
  <2>1. pvCache \in [DOMAIN pvCache -> Cached(VolumeObjects)]
    BY <1>4, <1>5 DEF Cached
  <2>2. pvcCache \in [DOMAIN pvcCache -> Cached(ClaimObjects)]
    BY <1>3, <1>5 DEF Cached
  <2>3. bind \in [Pods -> Binders]
    BY <1>5, NoneType
  <2>4. QED
    BY <1>1, <1>2, <1>3, <1>4, <1>5, <2>1, <2>2, <2>3, NoneType DEF TypesOK
<1>7. CachesFollow
  BY <1>3, <1>4, <1>5, FollowsSelf DEF CachesFollow
<1>8. DecisionsFollow
  <2>1. DOMAIN decisions = {}
    BY <1>5
  <2>2. QED
    BY <2>1 DEF DecisionsFollow
<1>9. BindersFollow
  BY <1>5, NoneType DEF BindersFollow
<1>10. QED
  BY <1>6, <1>7, <1>8, <1>9 DEF BInv

LEMMA StepHolds == BInv /\ [Next]_vars => BInv'
<1> SUFFICES ASSUME BInv, [Next]_vars PROVE BInv'
  OBVIOUS
<1>1. ASSUME NEW p \in Pods, TakePod(p) PROVE BInv'
  BY <1>1, TakePodKeeps
<1>2. ASSUME NEW p \in Pods, BindPodVolumes(p) PROVE BInv'
  BY <1>2, BindPodVolumesKeeps
<1>3. ASSUME NEW p \in Pods, UpdateVolume(p) PROVE BInv'
  BY <1>3, UpdateVolumeKeeps
<1>4. ASSUME NEW p \in Pods, UpdateClaim(p) PROVE BInv'
  BY <1>4, UpdateClaimKeeps
<1>5. ASSUME NEW p \in Pods, UpdateFails(p) PROVE BInv'
  BY <1>5, UpdateFailsKeeps
<1>6. ASSUME NEW p \in Pods, PollSucceeds(p) \/ PollFails(p) PROVE BInv'
  BY <1>6, PollEnds
<1>7. ASSUME NEW p \in Pods, DeletePod(p) PROVE BInv'
  BY <1>7, DeletePodKeeps
<1>8. ASSUME NEW n \in Nodes, FindPodVolumes(n) PROVE BInv'
  BY <1>8, FindPodVolumesKeeps
<1>9. ASSUME NEW n \in Nodes, AssumePodVolumes(n) PROVE BInv'
  BY <1>9, AssumePodVolumesKeeps
<1>10. ASSUME FindsNone \/ Restart PROVE BInv'
  BY <1>10, FindsNoneKeeps, RestartKeeps
<1>11. ASSUME NEW v \in Volumes, ShowVolume(v) PROVE BInv'
  BY <1>11, ShowVolumeKeeps
<1>12. ASSUME NEW v \in Volumes,
              ControllerTakesVolume(v) \/ ControllerBindsClaim(v) \/ ControllerUnbinds(v)
       PROVE  BInv'
  BY <1>12, ControllerKeeps
<1>13. ASSUME NEW c \in Claims, ShowClaim(c) PROVE BInv'
  BY <1>13, ShowClaimKeeps
<1>14. ASSUME NEW c \in Claims, ProvisioningFails(c) \/ DeleteClaim(c) PROVE BInv'
  BY <1>14, ClaimEnds
<1>15. ASSUME NEW c \in Claims, NEW v \in Volumes, Provision(c, v) PROVE BInv'
  BY <1>15, ProvisionKeeps
<1>16. CASE UNCHANGED vars
  <2>1. /\ UNCHANGED <<uses, pvs, pvcs, pvCache, pvcCache, decisions, loop, bind, process>>
        /\ UNCHANGED caches
    BY <1>16 DEF vars, api, caches
  <2>2. TypesOK'
    BY <2>1 DEF BInv, TypesOK
  <2>3. QED
    BY <2>1, <2>2, CachesLeft, SameShrinks, SameMove
<1>17. QED
  BY <1>1, <1>2, <1>3, <1>4, <1>5, <1>6, <1>7, <1>8, <1>9, <1>10, <1>11, <1>12, <1>13, <1>14,
     <1>15, <1>16 DEF Next

(* What the cache, the decisions and the goroutines hold of a volume is an *)
(* older version of it, or this version with a claimRef added at most.     *)
THEOREM CopiesFollow == Spec => []BInv
  BY InitHolds, StepHolds, PTL DEF Spec

-----------------------------------------------------------------------------
(* Only a write of BindPodVolumes and the PV controller change a claimRef: *)
(* the write is of the version that was read, and no other pod's claim was *)
(* there then; the controller takes it away.                               *)
ClaimRefStays ==
    \A v \in DOMAIN pvs : v \in DOMAIN pvs' /\ pvs[v].claim # Nil
                             => pvs'[v].claim \in {pvs[v].claim, Nil}

LEMMA ControllerClaimRefs ==
    ASSUME BInv, NEW v \in Volumes, ControllerTakesVolume(v) \/ ControllerUnbinds(v)
    PROVE  ClaimRefStays
<1> DEFINE b == Bumped(pvs[v])
<1>1. v \in DOMAIN pvs
  BY DEF ControllerTakesVolume, ControllerUnbinds
<1>2. b \in VolumeObjects /\ b.claim = pvs[v].claim
  BY <1>1, ObjectsChanged DEF BInv, TypesOK
<1>3. PICK o \in {[b EXCEPT !.full = TRUE, !.phase = "Bound"],
                  [b EXCEPT !.claim = Nil, !.full = FALSE, !.ours = FALSE],
                  [b EXCEPT !.full = FALSE], [b EXCEPT !.phase = "Released"]} :
         pvs' = [pvs EXCEPT ![v] = o]
  BY DEF ControllerTakesVolume, ControllerUnbinds
<1> HIDE DEF b
<1>4. o.claim \in {pvs[v].claim, Nil}
  BY <1>2, <1>3 DEF VolumeObjects
<1>5. QED
  BY <1>1, <1>3, <1>4 DEF ClaimRefStays

LEMMA StepKeepsClaimRefs == BInv /\ [Next]_vars => ClaimRefStays
<1> SUFFICES ASSUME BInv, [Next]_vars PROVE ClaimRefStays
  OBVIOUS
<1>1. CASE UNCHANGED pvs
  BY <1>1 DEF ClaimRefStays
<1>2. ASSUME NEW p \in Pods, UpdateVolume(p) PROVE ClaimRefStays
  <2> DEFINE b == bind[p].bindings[bind[p].volumesDone + 1]
             w == Written(pvs, b.name, b.obj)
  <2>1. /\ b.name \in DOMAIN pvs /\ pvs[b.name].claim \in {Nil, b.obj.claim}
        /\ w.claim = b.obj.claim /\ pvs' = [pvs EXCEPT ![b.name] = w]
    BY <1>2, UpdateVolumeFacts
  <2> HIDE DEF b, w
  <2>2. QED
    BY <2>1 DEF ClaimRefStays
<1>3. ASSUME NEW c \in Claims, NEW v \in Volumes, Provision(c, v) PROVE ClaimRefStays
  <2>1. v \notin DOMAIN pvs /\ \A w \in DOMAIN pvs : pvs'[w] = pvs[w]
    BY <1>3 DEF Provision, Put
  <2>2. QED
    BY <2>1 DEF ClaimRefStays
<1>4. ASSUME NEW v \in Volumes, ControllerTakesVolume(v) \/ ControllerUnbinds(v)
      PROVE  ClaimRefStays
  BY <1>4, ControllerClaimRefs
<1>5. ASSUME NEW p \in Pods,
             \/ TakePod(p) \/ BindPodVolumes(p) \/ UpdateClaim(p) \/ UpdateFails(p)
             \/ PollSucceeds(p) \/ PollFails(p) \/ DeletePod(p)
      PROVE  UNCHANGED pvs
  BY <1>5 DEF TakePod, BindPodVolumes, UpdateClaim, UpdateFails, PollSucceeds, PollFails,
              DeletePod, api
<1>6. ASSUME NEW n \in Nodes, FindPodVolumes(n) \/ AssumePodVolumes(n) PROVE UNCHANGED pvs
  BY <1>6 DEF FindPodVolumes, AssumePodVolumes, api
<1>7. ASSUME \/ FindsNone \/ Restart \/ UNCHANGED vars
             \/ \E v \in Volumes : ShowVolume(v) \/ ControllerBindsClaim(v)
             \/ \E c \in Claims : ShowClaim(c) \/ ProvisioningFails(c) \/ DeleteClaim(c)
      PROVE  UNCHANGED pvs
  BY <1>7 DEF FindsNone, Restart, vars, ShowVolume, ControllerBindsClaim, ShowClaim,
              ProvisioningFails, DeleteClaim, api
<1>8. QED
  BY <1>1, <1>2, <1>3, <1>4, <1>5, <1>6, <1>7 DEF Next

(* No step gives a volume that refers to a claim to another one, with any  *)
(* number of pods, goroutines and faults.                                  *)
THEOREM ClaimRefsNeverStolen == Spec => ClaimRefsNotStolen
<1>1. ClaimRefStays <=> \A v \in DOMAIN pvs : v \in DOMAIN pvs' /\ pvs[v].claim # Nil
                             => pvs'[v].claim \in {pvs[v].claim, Nil}
  BY DEF ClaimRefStays
<1>2. BInv /\ [Next]_vars => ClaimRefStays
  BY StepKeepsClaimRefs
<1>3. QED
  BY <1>1, <1>2, CopiesFollow, PTL DEF Spec, ClaimRefsNotStolen

-----------------------------------------------------------------------------
(* The caches implement AssumedView.                                       *)
Shown   == [x \in Volumes \cup Claims |-> ShownVersion(x)]
Assumed == AssumedNames(pvCache) \cup AssumedNames(pvcCache)

LEMMA ShownVersions ==
    /\ \A v \in Volumes :
          ShownVersion(v) = IF v \in DOMAIN pvCache THEN pvCache[v].api.version ELSE 0
    /\ \A c \in Claims :
          ShownVersion(c) = IF c \in DOMAIN pvcCache THEN pvcCache[c].api.version ELSE 0
<1>1. \A c \in Claims : c \notin Volumes
  BY VolumeAssumption
<1>2. QED
  BY <1>1 DEF ShownVersion, Known, GetAPIObj

LEMMA ViewTypes ==
    ASSUME TypesOK
    PROVE  /\ Shown \in [Volumes \cup Claims -> Nat]
           /\ AssumedNames(pvCache) \subseteq DOMAIN pvCache /\ DOMAIN pvCache \subseteq Volumes
           /\ AssumedNames(pvcCache) \subseteq DOMAIN pvcCache /\ DOMAIN pvcCache \subseteq Claims
           /\ \A x \in DOMAIN pvCache \cup DOMAIN pvcCache : Shown[x] > 0
<1>1. \A v \in DOMAIN pvCache : pvCache[v].api.version \in Nat \ {0}
  BY CachedVolume DEF VolumeObjects
<1>2. \A c \in DOMAIN pvcCache : pvcCache[c].api.version \in Nat \ {0}
  BY CachedClaim DEF ClaimObjects
<1>3. DOMAIN pvCache \subseteq Volumes /\ DOMAIN pvcCache \subseteq Claims
  BY DEF TypesOK
<1>4. \A x \in Volumes \cup Claims : ShownVersion(x) \in Nat
  BY <1>1, <1>2, ShownVersions
<1>5. \A x \in DOMAIN pvCache \cup DOMAIN pvcCache : ShownVersion(x) > 0
  BY <1>1, <1>2, <1>3, ShownVersions
<1>6. QED
  BY <1>3, <1>4, <1>5 DEF Shown, AssumedNames

(* A step that shows nothing new.                                          *)
LEMMA SameShown ==
    ASSUME BInv, VolumesShow(pvCache'), ClaimsShow(pvcCache')
    PROVE  Shown' = Shown
<1>1. ASSUME NEW x \in Volumes \cup Claims PROVE ShownVersion(x)' = ShownVersion(x)
  BY DEF VolumesShow, ClaimsShow, ShownVersion, Known, GetAPIObj
<1>2. QED
  BY <1>1 DEF Shown

LEMMA RestoreShrinks ==
    ASSUME NEW cache, NEW names
    PROVE  AssumedNames(CacheRestore(cache, names)) \subseteq AssumedNames(cache)
  BY DEF AssumedNames, CacheRestore, Both

LEMMA ShowVolumeView ==
    ASSUME BInv, NEW v \in Volumes, ShowVolume(v)
    PROVE  /\ Shown'[v] > Shown[v] /\ Shown' = [Shown EXCEPT ![v] = Shown'[v]]
           /\ Assumed' = Assumed \ {v} /\ process' = process
<1>1. /\ UNCHANGED <<pvcCache, process>>
      /\ v \in DOMAIN pvs /\ pvCache' = Put(pvCache, v, Both(pvs[v]))
      /\ v \in DOMAIN pvCache => pvs[v].version > pvCache[v].api.version
  BY ShowVolumeFacts
<1>2. /\ DOMAIN pvCache' = DOMAIN pvCache \cup {v} /\ pvCache'[v] = Both(pvs[v])
      /\ \A w \in DOMAIN pvCache : w # v => pvCache'[w] = pvCache[w]
  BY <1>1 DEF Put
<1>3. \A x \in Volumes \cup Claims : x # v => ShownVersion(x)' = ShownVersion(x)
  BY <1>1, <1>2 DEF ShownVersion, Known, GetAPIObj
<1>4. pvs[v].version \in Nat \ {0}
  BY <1>1 DEF BInv, TypesOK, VolumeObjects
<1>5. ShownVersion(v)' > ShownVersion(v)
  <2>1. ShownVersion(v)' = pvs[v].version
    BY <1>2 DEF ShownVersion, Known, GetAPIObj, Both
  <2>2. QED
    BY <1>1, <1>4, <2>1, ShownVersions
<1>6. AssumedNames(pvCache') = AssumedNames(pvCache) \ {v}
  BY <1>2 DEF AssumedNames, Both
<1>7. v \notin AssumedNames(pvcCache)
  BY ViewTypes, VolumeAssumption DEF BInv
<1>8. Assumed' = Assumed \ {v}
  BY <1>1, <1>6, <1>7 DEF Assumed
<1>9. QED
  BY <1>1, <1>3, <1>5, <1>8 DEF Shown

LEMMA ShowClaimView ==
    ASSUME BInv, NEW c \in Claims, ShowClaim(c)
    PROVE  /\ Assumed' = Assumed \ {c} /\ process' = process
           /\ \/ Shown'[c] > Shown[c] /\ Shown' = [Shown EXCEPT ![c] = Shown'[c]]
              \/ Shown' = [Shown EXCEPT ![c] = 0]
<1>1. UNCHANGED <<pvCache, process>>
  BY ShowClaimFacts
<1>2. c \notin AssumedNames(pvCache) /\ c \notin Volumes
  BY ViewTypes, VolumeAssumption DEF BInv
<1>3. CASE /\ c \in DOMAIN pvcs /\ c \in DOMAIN pvcCache
           /\ pvcCache' = Put(pvcCache, c, Both(pvcs[c]))
           /\ pvcs[c].version > pvcCache[c].api.version
  <2>1. /\ DOMAIN pvcCache' = DOMAIN pvcCache /\ pvcCache'[c] = Both(pvcs[c])
        /\ \A x \in DOMAIN pvcCache : x # c => pvcCache'[x] = pvcCache[x]
    BY <1>3 DEF Put
  <2>2. \A x \in Volumes \cup Claims : x # c => ShownVersion(x)' = ShownVersion(x)
    BY <1>1, <2>1 DEF ShownVersion, Known, GetAPIObj
  <2>3. ShownVersion(c)' > ShownVersion(c)
    BY <1>2, <1>3, <2>1 DEF ShownVersion, Known, GetAPIObj, Both
  <2>4. AssumedNames(pvcCache') = AssumedNames(pvcCache) \ {c}
    BY <2>1 DEF AssumedNames, Both
  <2>5. QED
    BY <1>1, <1>2, <2>2, <2>3, <2>4 DEF Shown, Assumed
<1>4. CASE /\ c \notin DOMAIN pvcs
           /\ pvcCache' = Restrict(pvcCache, DOMAIN pvcCache \ {c})
  <2>1. /\ DOMAIN pvcCache' = DOMAIN pvcCache \ {c}
        /\ \A x \in DOMAIN pvcCache' : pvcCache'[x] = pvcCache[x]
    BY <1>4 DEF Restrict
  <2>2. \A x \in Volumes \cup Claims : x # c => ShownVersion(x)' = ShownVersion(x)
    BY <1>1, <2>1 DEF ShownVersion, Known, GetAPIObj
  <2>3. ShownVersion(c)' = 0
    BY <1>2, <2>1 DEF ShownVersion, Known
  <2>4. AssumedNames(pvcCache') = AssumedNames(pvcCache) \ {c}
    BY <2>1 DEF AssumedNames
  <2>5. QED
    BY <1>1, <1>2, <2>2, <2>3, <2>4 DEF Shown, Assumed
<1>5. QED
  BY <1>3, <1>4, ShowClaimFacts

LEMMA ViewInit == Init => View!Init
<1> SUFFICES ASSUME Init PROVE View!Init
  OBVIOUS
<1>1. TypesOK
  BY InitHolds DEF BInv
<1>2. /\ pvCache = [v \in DOMAIN pvs |-> [latest |-> pvs[v], api |-> pvs[v]]]
      /\ pvcCache = [c \in DOMAIN pvcs |-> [latest |-> pvcs[c], api |-> pvcs[c]]]
      /\ process = 0
  BY DEF Init, Listed, Both
<1>3. Assumed = {}
  BY <1>2 DEF Assumed, AssumedNames
<1>4. QED
  BY <1>1, <1>2, <1>3, ViewTypes DEF View!Init, Shown, Assumed

LEMMA ViewStep == BInv /\ BInv' /\ [Next]_vars => [View!Next]_View!vars
<1> SUFFICES ASSUME BInv, BInv', [Next]_vars PROVE View!Next \/ UNCHANGED View!vars
  OBVIOUS
<1>0. /\ View!vars = <<process, Shown, Assumed>>
      /\ UNCHANGED View!vars <=> process' = process /\ Shown' = Shown /\ Assumed' = Assumed
  BY DEF View!vars, Shown, Assumed
<1>1. ASSUME UNCHANGED <<pvCache, pvcCache, process>> PROVE UNCHANGED View!vars
  BY <1>0, <1>1 DEF Shown, Assumed, ShownVersion, AssumedNames
<1>2. ASSUME NEW v \in Volumes, ShowVolume(v) PROVE View!Next
  <2>1. View!Show(v)
    BY <1>2, ShowVolumeView DEF View!Show, Shown, Assumed
  <2>2. QED
    BY <2>1 DEF View!Next
<1>3. ASSUME NEW c \in Claims, ShowClaim(c) PROVE View!Next
  <2>1. View!Show(c) \/ View!Forget(c)
    BY <1>3, ShowClaimView DEF View!Show, View!Forget, Shown, Assumed
  <2>2. QED
    BY <2>1 DEF View!Next
<1>4. ASSUME NEW p \in Pods, UpdateFails(p) PROVE View!Next
  <2>1. process' = process /\ Revert(p)
    BY <1>4 DEF UpdateFails
  <2>2. VolumesShow(pvCache') /\ ClaimsShow(pvcCache')
    BY <2>1, ShowsNow, RestoreShows DEF Revert
  <2>3. Shown' = Shown
    BY <2>2, SameShown
  <2>4. Assumed' \subseteq Assumed
    BY <2>1, RestoreShrinks DEF Revert, Assumed
  <2>5. View!Restore
    BY <2>1, <2>3, <2>4 DEF View!Restore, Shown, Assumed
  <2>6. QED
    BY <2>5 DEF View!Next
<1>5. ASSUME NEW n \in Nodes, AssumePodVolumes(n) PROVE View!Next \/ UNCHANGED View!vars
  <2>1. process' = process
    BY <1>5, AssumePodVolumesFacts
  <2>2. CASE UNCHANGED <<pvCache, pvcCache>>
    BY <1>1, <2>1, <2>2
  <2>3. CASE VolumesShow(pvCache') /\ ClaimsShow(pvcCache')
    <3>1. Shown' = Shown
      BY <2>3, SameShown
    <3>2. CASE Assumed \subseteq Assumed'
      <4>1. /\ Assumed' \subseteq Volumes \cup Claims
            /\ \A x \in Assumed' : Shown[x] > 0
        <5>1. TypesOK'
          BY DEF BInv
        <5>2. /\ Assumed' \subseteq DOMAIN pvCache' \cup DOMAIN pvcCache'
              /\ DOMAIN pvCache' \subseteq Volumes /\ DOMAIN pvcCache' \subseteq Claims
          BY <5>1 DEF TypesOK, Assumed, AssumedNames
        <5>3. DOMAIN pvCache' = DOMAIN pvCache /\ DOMAIN pvcCache' = DOMAIN pvcCache
          BY <2>3 DEF VolumesShow, ClaimsShow
        <5>4. \A x \in DOMAIN pvCache \cup DOMAIN pvcCache : Shown[x] > 0
          BY ViewTypes DEF BInv
        <5>5. QED
          BY <5>2, <5>3, <5>4
      <4>2. View!Assume
        BY <2>1, <3>1, <3>2, <4>1 DEF View!Assume, Shown, Assumed
      <4>3. QED
        BY <4>2 DEF View!Next
    <3>3. CASE Assumed' \subseteq Assumed
      <4>1. View!Restore
        BY <2>1, <3>1, <3>3 DEF View!Restore, Shown, Assumed
      <4>2. QED
        BY <4>1 DEF View!Next
    <3>4. \/ UNCHANGED <<pvCache, pvcCache>>
          \/ Assumed \subseteq Assumed' \/ Assumed' \subseteq Assumed
      BY <1>5, AssumePodVolumesFacts DEF Assumed
    <3>5. QED
      BY <2>2, <3>2, <3>3, <3>4
  <2>4. QED
    BY <1>5, <2>2, <2>3, AssumePodVolumesFacts
<1>6. ASSUME Restart PROVE View!Next
  <2>1. /\ process' = process + 1 /\ pvCache' = Listed(pvs) /\ pvcCache' = Listed(pvcs)
    BY <1>6 DEF Restart
  <2>2. Assumed' = {}
    BY <2>1 DEF Assumed, AssumedNames, Listed, Both
  <2>3. Shown' \in [Volumes \cup Claims -> Nat]
    <3>1. TypesOK'
      BY DEF BInv
    <3>2. (TypesOK => Shown \in [Volumes \cup Claims -> Nat])'
      BY ViewTypes, PTL
    <3>3. QED
      BY <3>1, <3>2
  <2>4. View!Restart
    BY <2>1, <2>2, <2>3 DEF View!Restart, Shown, Assumed
  <2>5. QED
    BY <2>4 DEF View!Next
<1>7. ASSUME NEW p \in Pods,
             \/ TakePod(p) \/ BindPodVolumes(p) \/ UpdateVolume(p) \/ UpdateClaim(p)
             \/ PollSucceeds(p) \/ PollFails(p) \/ DeletePod(p)
      PROVE  UNCHANGED <<pvCache, pvcCache, process>>
  BY <1>7 DEF TakePod, BindPodVolumes, UpdateVolume, UpdateClaim, PollSucceeds, PollFails,
              DeletePod, caches
<1>8. ASSUME \/ FindsNone \/ UNCHANGED vars
             \/ \E n \in Nodes : FindPodVolumes(n)
             \/ \E v \in Volumes : \/ ControllerTakesVolume(v) \/ ControllerBindsClaim(v)
                                   \/ ControllerUnbinds(v)
             \/ \E c \in Claims : \/ ProvisioningFails(c) \/ DeleteClaim(c)
                                  \/ \E v \in Volumes : Provision(c, v)
      PROVE  UNCHANGED <<pvCache, pvcCache, process>>
  BY <1>8 DEF FindsNone, vars, FindPodVolumes, ControllerTakesVolume, ControllerBindsClaim,
              ControllerUnbinds, ProvisioningFails, DeleteClaim, Provision, caches
<1>9. QED
  BY <1>1, <1>2, <1>3, <1>4, <1>5, <1>6, <1>7, <1>8 DEF Next

(* Whatever the informers show and the binder assumes or restores, in any  *)
(* order, both caches are as the comment on assumeCache says (AssumedView). *)
THEOREM CachesImplementView == Spec => CachesShowAssumedView
  BY ViewInit, ViewStep, CopiesFollow, PTL DEF Spec, CachesShowAssumedView, View!Spec

-----------------------------------------------------------------------------
(* What is assumed and what is in flight.  An object of the informer that  *)
(* has the version of the API server's is that one; one that refers to its *)
(* claim completely is never assumed, as there is nothing to add to it.    *)
ApiTrue ==
    /\ \A v \in DOMAIN pvCache :
          pvCache[v].api.version = pvs[v].version => pvCache[v].api = pvs[v]
    /\ \A c \in DOMAIN pvcCache \cap DOMAIN pvcs :
          /\ pvcCache[c].api.version <= pvcs[c].version
          /\ pvcCache[c].api.version = pvcs[c].version => pvcCache[c].api = pvcs[c]

CacheFinal ==
    \A v \in DOMAIN pvCache : pvCache[v].api.full => pvCache[v].latest = pvCache[v].api

BindingFinal(b) ==
    LET shown == pvCache[b.name].api
    IN  shown.full /\ b.obj.version = shown.version => b.obj = shown

DecisionsFinal ==
    \A p \in DOMAIN decisions : \A n \in DOMAIN decisions[p] :
        \A i \in DOMAIN decisions[p][n].bindings : BindingFinal(decisions[p][n].bindings[i])

FullIsFinal == CacheFinal /\ DecisionsFinal

(* The pod the loop is at has no goroutine.                                *)
LoopAlone == loop.pod # Nil => bind[loop.pod] = None

(* A pod's decisions are about its own claims.                             *)
OwnClaims(d, p) ==
    /\ \A i \in DOMAIN d.bindings : d.bindings[i].claim \in uses[p]
    /\ \A i \in DOMAIN d.provisionings : d.provisionings[i].name \in uses[p]

DecisionsOwn ==
    \A p \in DOMAIN decisions : \A n \in DOMAIN decisions[p] : OwnClaims(decisions[p][n], p)

(* What is to be written of the volumes and the claims of one decision.    *)
Complete(bindings, claims) ==
    /\ \A i \in DOMAIN bindings : bindings[i].obj.full /\ bindings[i].obj.claim = bindings[i].claim
    /\ \A i \in DOMAIN claims : claims[i].obj.selected # Nil

WorkOf(p) ==
    /\ bind[p].stage = "assumed" /\ HasDecision(p, bind[p].node) =>
          LET d == decisions[p][bind[p].node] IN Complete(d.bindings, d.provisionings)
    /\ bind[p].stage = "update" =>
          /\ Complete(bind[p].bindings, bind[p].claims)
          /\ bind[p].volumesDone <= Len(bind[p].bindings)
          /\ bind[p].claimsDone <= Len(bind[p].claims)

WorkComplete == \A p \in Pods : WorkOf(p)

(* Why something is assumed: a pod that it is assumed for has yet to write *)
(* it, it has been written, or the pod was deleted.                        *)
VolumeExcused(v) ==
    \/ \E p \in Pods : v \in InFlight(p) /\ LatestVolume(v).claim \in uses[p]
    \/ pvs[v].version > GetAPIObj(pvCache, v).version
    \/ \E p \in revoked : LatestVolume(v).claim \in uses[p]

ClaimExcused(c) ==
    \/ \E p \in Pods : c \in InFlight(p) /\ c \in uses[p]
    \/ c \notin DOMAIN pvcs
    \/ pvcs[c].version > GetAPIObj(pvcCache, c).version
    \/ \E p \in revoked : c \in uses[p]

Excused ==
    /\ \A v \in AssumedNames(pvCache) : VolumeExcused(v)
    /\ \A c \in AssumedNames(pvcCache) : ClaimExcused(c)

LInv ==
    /\ BInv /\ ApiTrue /\ FullIsFinal /\ LoopAlone /\ DecisionsOwn /\ WorkComplete
    /\ Excused

-----------------------------------------------------------------------------
(* What every step does to the objects and to what the informers show.     *)
ClaimsMove ==
    \A c \in DOMAIN pvcs' : c \in DOMAIN pvcs /\ Moved(pvcs[c], pvcs'[c])

ShownAsIs ==
    /\ DOMAIN pvCache \subseteq DOMAIN pvCache'
    /\ \A v \in DOMAIN pvCache' :
          \/ v \in DOMAIN pvCache /\ pvCache'[v].api = pvCache[v].api
          \/ v \in DOMAIN pvs' /\ pvCache'[v].api = pvs'[v]
    /\ \A c \in DOMAIN pvcCache' :
          \/ c \in DOMAIN pvcCache /\ pvcCache'[c].api = pvcCache[c].api
          \/ c \in DOMAIN pvcs' /\ pvcCache'[c].api = pvcs'[c]

LEMMA SameAsIs == UNCHANGED <<pvCache, pvcCache>> => ShownAsIs
  BY DEF ShownAsIs

LEMMA ApiStaysTrue ==
    ASSUME BInv, BInv', ApiTrue, VolumesMove, ClaimsMove, ShownAsIs
    PROVE  ApiTrue'
<1>1. ASSUME NEW v \in DOMAIN pvCache', pvCache'[v].api.version = pvs'[v].version
      PROVE  pvCache'[v].api = pvs'[v]
  <2>1. CASE v \in DOMAIN pvCache /\ pvCache'[v].api = pvCache[v].api
    <3>1. v \in DOMAIN pvs /\ pvs[v] \in VolumeObjects /\ pvCache[v].api \in VolumeObjects
      BY <2>1, CachedVolume DEF BInv
    <3>2. pvCache[v].api.version <= pvs[v].version
      BY <2>1 DEF BInv, CachesFollow, VolumeFollows
    <3>3. Moved(pvs[v], pvs'[v]) /\ v \in DOMAIN pvs'
      BY <3>1 DEF VolumesMove
    <3>4. pvs'[v] = pvs[v]
      BY <1>1, <2>1, <3>1, <3>2, <3>3 DEF Moved, VolumeObjects
    <3>5. QED
      BY <1>1, <2>1, <3>4 DEF ApiTrue
  <2>2. QED
    BY <2>1 DEF ShownAsIs
<1>2. ASSUME NEW c \in DOMAIN pvcCache', c \in DOMAIN pvcs'
      PROVE  /\ pvcCache'[c].api.version <= pvcs'[c].version
             /\ pvcCache'[c].api.version = pvcs'[c].version => pvcCache'[c].api = pvcs'[c]
  <2>1. pvcs'[c] \in ClaimObjects
    BY <1>2 DEF BInv, TypesOK
  <2>2. CASE c \in DOMAIN pvcCache /\ pvcCache'[c].api = pvcCache[c].api
    <3>1. c \in DOMAIN pvcs /\ Moved(pvcs[c], pvcs'[c])
      BY <1>2 DEF ClaimsMove
    <3>2. pvcs[c] \in ClaimObjects /\ pvcCache[c].api \in ClaimObjects
      BY <2>2, <3>1, CachedClaim DEF BInv, TypesOK
    <3>3. /\ pvcCache[c].api.version <= pvcs[c].version
          /\ pvcCache[c].api.version = pvcs[c].version => pvcCache[c].api = pvcs[c]
      BY <2>2, <3>1 DEF ApiTrue
    <3>4. QED
      BY <2>1, <2>2, <3>1, <3>2, <3>3 DEF Moved, ClaimObjects
  <2>3. CASE pvcCache'[c].api = pvcs'[c]
    BY <2>1, <2>3 DEF ClaimObjects
  <2>4. QED
    BY <1>2, <2>2, <2>3 DEF ShownAsIs
<1>3. QED
  BY <1>1, <1>2 DEF ApiTrue

(* The controller, a provisioner and users.                                *)
LEMMA ControllerMoves ==
    ASSUME BInv, NEW v \in Volumes,
           \/ ControllerTakesVolume(v) \/ ControllerBindsClaim(v) \/ ControllerUnbinds(v)
    PROVE  VolumesMove /\ ClaimsMove
<1>1. v \in DOMAIN pvs /\ pvs[v] \in VolumeObjects
  BY DEF ControllerTakesVolume, ControllerBindsClaim, ControllerUnbinds, BInv, TypesOK
<1>2. CASE ControllerTakesVolume(v) \/ ControllerUnbinds(v)
  <2> DEFINE b == Bumped(pvs[v])
  <2>1. b \in VolumeObjects /\ b.version > pvs[v].version
    BY <1>1, ObjectsChanged
  <2>2. PICK o \in {[b EXCEPT !.full = TRUE, !.phase = "Bound"],
                    [b EXCEPT !.claim = Nil, !.full = FALSE, !.ours = FALSE],
                    [b EXCEPT !.full = FALSE], [b EXCEPT !.phase = "Released"]} :
           pvs' = [pvs EXCEPT ![v] = o]
    BY <1>2 DEF ControllerTakesVolume, ControllerUnbinds
  <2> HIDE DEF b
  <2>3. o.version > pvs[v].version
    BY <2>1, <2>2, EditsKeepVersion
  <2>4. VolumesMove
    BY <1>1, <2>2, <2>3 DEF VolumesMove, Moved
  <2>5. UNCHANGED pvcs
    BY <1>2 DEF ControllerTakesVolume, ControllerUnbinds
  <2>6. QED
    BY <2>4, <2>5 DEF ClaimsMove, Moved
<1>3. CASE ControllerBindsClaim(v)
  <2> DEFINE c == pvs[v].claim
             b == Bumped(pvcs[c])
             o == [b EXCEPT !.volume = v, !.completed = TRUE]
  <2>1. c \in DOMAIN pvcs /\ pvcs' = [pvcs EXCEPT ![c] = o] /\ UNCHANGED pvs
    BY <1>3 DEF ControllerBindsClaim
  <2>2. pvcs[c] \in ClaimObjects
    BY <2>1 DEF BInv, TypesOK
  <2>3. o.version > pvcs[c].version
    BY <2>2 DEF ClaimObjects, Bumped
  <2> HIDE DEF o, c
  <2>4. QED
    BY <2>1, <2>3 DEF VolumesMove, ClaimsMove, Moved
<1>4. QED
  BY <1>2, <1>3

LEMMA ClaimEndsMoves ==
    ASSUME BInv, NEW c \in Claims, ProvisioningFails(c) \/ DeleteClaim(c)
    PROVE  VolumesMove /\ ClaimsMove
<1>1. VolumesMove
  BY SameMove DEF ProvisioningFails, DeleteClaim
<1>2. CASE ProvisioningFails(c)
  <2> DEFINE b == Bumped(pvcs[c])
             o == [b EXCEPT !.selected = Nil]
  <2>1. c \in DOMAIN pvcs /\ pvcs' = [pvcs EXCEPT ![c] = o]
    BY <1>2 DEF ProvisioningFails
  <2>2. pvcs[c] \in ClaimObjects
    BY <2>1 DEF BInv, TypesOK
  <2>3. o.version > pvcs[c].version
    BY <2>2 DEF ClaimObjects, Bumped
  <2> HIDE DEF o
  <2>4. QED
    BY <1>1, <2>1, <2>3 DEF ClaimsMove, Moved
<1>3. CASE DeleteClaim(c)
  BY <1>1, <1>3 DEF DeleteClaim, Restrict, ClaimsMove, Moved
<1>4. QED
  BY <1>2, <1>3

(* A claim that a goroutine writes.                                        *)
LEMMA UpdateClaimFacts ==
    ASSUME BInv, NEW p \in Pods, UpdateClaim(p)
    PROVE  LET i == bind[p].claimsDone + 1
               c == bind[p].claims[i]
               w == Written(pvcs, c.name, c.obj)
           IN  /\ UNCHANGED <<uses, pvs, decisions, loop, revoked>>
               /\ UNCHANGED <<pvCache, pvcCache>>
               /\ bind[p].stage = "update" /\ bind[p] \in Binders /\ i \in DOMAIN bind[p].claims
               /\ bind[p].claims \in Seq(Provisionings) /\ c \in Provisionings
               /\ c.name \in DOMAIN pvcs /\ c.obj \in ClaimObjects
               /\ w \in ClaimObjects /\ w.selected = c.obj.selected
               /\ w = pvcs[c.name] \/ w.version > pvcs[c.name].version
               /\ pvcs' = [pvcs EXCEPT ![c.name] = w]
               /\ bind' = [bind EXCEPT ![p].claims[i].obj = w, ![p].claimsDone = i]
<1> DEFINE i == bind[p].claimsDone + 1
           c == bind[p].claims[i]
           w == Written(pvcs, c.name, c.obj)
<1>1. /\ UNCHANGED <<uses, pvs, decisions, loop, revoked>> /\ UNCHANGED <<pvCache, pvcCache>>
      /\ bind[p].stage = "update" /\ bind[p].claimsDone < Len(bind[p].claims)
      /\ c.name \in DOMAIN pvcs /\ pvcs[c.name].version = c.obj.version
      /\ pvcs' = [pvcs EXCEPT ![c.name] = w]
      /\ bind' = [bind EXCEPT ![p].claims[i].obj = w, ![p].claimsDone = i]
  BY DEF UpdateClaim, UpdatesClaim, Current, caches, pods
<1>2. bind[p] \in Binders
  BY DEF BInv, TypesOK
<1>3. bind[p].claims \in Seq(Provisionings) /\ bind[p].claimsDone \in Nat
  BY <1>1, <1>2, UpdatingBinder
<1>4. i \in DOMAIN bind[p].claims
  <2>1. PICK s, k : s = bind[p].claims /\ k = bind[p].claimsDone
    OBVIOUS
  <2>2. s \in Seq(Provisionings) /\ k \in Nat /\ k < Len(s)
    BY <1>1, <1>3, <2>1
  <2>3. k + 1 \in DOMAIN s
    BY <2>2
  <2>4. QED
    BY <2>1, <2>3
<1>5. c \in Provisionings
  BY <1>3, <1>4
<1>6. c.obj \in ClaimObjects
  BY <1>5 DEF Provisionings
<1> HIDE DEF c
<1>7. /\ w \in ClaimObjects /\ w.selected = c.obj.selected
      /\ w = pvcs[c.name] \/ w.version > pvcs[c.name].version
  <2>1. CASE pvcs[c.name] = c.obj
    BY <1>6, <2>1 DEF Written
  <2>2. CASE pvcs[c.name] # c.obj
    <3>1. w = [c.obj EXCEPT !.version = c.obj.version + 1]
      BY <2>2 DEF Written
    <3>2. QED
      BY <1>1, <1>6, <3>1 DEF ClaimObjects
  <2>3. QED
    BY <2>1, <2>2
<1>8. QED
  BY <1>1, <1>2, <1>3, <1>4, <1>5, <1>6, <1>7, Zenon DEF c

-----------------------------------------------------------------------------
(* Every step.                                                             *)
Moves == VolumesMove /\ ClaimsMove /\ ShownAsIs /\ uses' = uses /\ revoked \subseteq revoked'

LEMMA SameMoves ==
    UNCHANGED <<uses, pvs, pvcs, revoked>> => VolumesMove /\ ClaimsMove
  BY SameMove DEF ClaimsMove, Moved

LEMMA UpdatesMove ==
    ASSUME BInv, NEW p \in Pods, UpdateVolume(p) \/ UpdateClaim(p)
    PROVE  Moves
<1>1. CASE UpdateVolume(p)
  <2> DEFINE b == bind[p].bindings[bind[p].volumesDone + 1]
             w == Written(pvs, b.name, b.obj)
  <2>1. /\ UNCHANGED <<uses, pvcs>> /\ UNCHANGED <<pvCache, pvcCache>>
        /\ b.name \in DOMAIN pvs /\ pvs' = [pvs EXCEPT ![b.name] = w]
        /\ w = pvs[b.name] \/ w.version > pvs[b.name].version
    BY <1>1, UpdateVolumeFacts
  <2>2. UNCHANGED revoked
    BY <1>1 DEF UpdateVolume
  <2> HIDE DEF b, w
  <2>3. VolumesMove /\ ClaimsMove
    BY <2>1 DEF VolumesMove, ClaimsMove, Moved
  <2>4. QED
    BY <2>1, <2>2, <2>3, SameAsIs DEF Moves
<1>2. CASE UpdateClaim(p)
  <2> DEFINE c == bind[p].claims[bind[p].claimsDone + 1]
             w == Written(pvcs, c.name, c.obj)
  <2>1. /\ UNCHANGED <<uses, pvs, revoked>> /\ UNCHANGED <<pvCache, pvcCache>>
        /\ c.name \in DOMAIN pvcs /\ pvcs' = [pvcs EXCEPT ![c.name] = w]
        /\ w = pvcs[c.name] \/ w.version > pvcs[c.name].version
    BY <1>2, UpdateClaimFacts
  <2> HIDE DEF c, w
  <2>2. VolumesMove /\ ClaimsMove
    BY <2>1 DEF VolumesMove, ClaimsMove, Moved
  <2>3. QED
    BY <2>1, <2>2, SameAsIs DEF Moves
<1>3. QED
  BY <1>1, <1>2

LEMMA CacheStepsMove ==
    ASSUME BInv,
           \/ Restart
           \/ \E p \in Pods : UpdateFails(p)
           \/ \E n \in Nodes : AssumePodVolumes(n)
           \/ \E v \in Volumes : ShowVolume(v)
           \/ \E c \in Claims : ShowClaim(c)
    PROVE  Moves
<1>1. /\ UNCHANGED <<uses, pvs, pvcs, revoked>>
  BY DEF Restart, UpdateFails, AssumePodVolumes, ShowVolume, ShowClaim, api, pods
<1>2. ShownAsIs
  <2>1. CASE VolumesShow(pvCache') /\ ClaimsShow(pvcCache')
    BY <2>1 DEF VolumesShow, ClaimsShow, ShownAsIs
  <2>2. CASE Restart
    BY <1>1, <2>2 DEF Restart, Listed, Both, ShownAsIs, BInv, TypesOK
  <2>3. ASSUME NEW p \in Pods, UpdateFails(p) PROVE ShownAsIs
    <3>1. VolumesShow(pvCache') /\ ClaimsShow(pvcCache')
      BY <2>3, ShowsNow, RestoreShows DEF UpdateFails, Revert
    <3>2. QED
      BY <2>1, <3>1
  <2>4. ASSUME NEW n \in Nodes, AssumePodVolumes(n) PROVE ShownAsIs
    <3>1. \/ UNCHANGED <<pvCache, pvcCache>>
          \/ VolumesShow(pvCache') /\ ClaimsShow(pvcCache')
      BY <2>4, AssumePodVolumesFacts
    <3>2. QED
      BY <2>1, <3>1, SameAsIs
  <2>5. ASSUME NEW v \in Volumes, ShowVolume(v) PROVE ShownAsIs
    <3>1. /\ UNCHANGED <<pvs, pvcCache>>
          /\ v \in DOMAIN pvs /\ pvCache' = Put(pvCache, v, Both(pvs[v]))
      BY <2>5, ShowVolumeFacts
    <3>2. QED
      BY <3>1 DEF Put, Both, ShownAsIs
  <2>6. ASSUME NEW c \in Claims, ShowClaim(c) PROVE ShownAsIs
    <3>1. UNCHANGED <<pvs, pvcs, pvCache>>
      BY <2>6, ShowClaimFacts
    <3>2. CASE /\ c \in DOMAIN pvcs /\ pvcCache' = Put(pvcCache, c, Both(pvcs[c]))
      BY <3>1, <3>2 DEF Put, Both, ShownAsIs
    <3>3. CASE pvcCache' = Restrict(pvcCache, DOMAIN pvcCache \ {c})
      BY <3>1, <3>3 DEF Restrict, ShownAsIs
    <3>4. QED
      BY <2>6, <3>2, <3>3, ShowClaimFacts
  <2>7. QED
    BY <2>2, <2>3, <2>4, <2>5, <2>6
<1>3. QED
  BY <1>1, <1>2, SameMoves DEF Moves

LEMMA StepMoves ==
    ASSUME BInv, [Next]_vars
    PROVE  Moves
<1>1. CASE /\ UNCHANGED <<uses, pvs, pvcs>> /\ UNCHANGED <<pvCache, pvcCache>>
           /\ revoked \subseteq revoked'
  BY <1>1, SameMove, SameAsIs DEF Moves, ClaimsMove, Moved
<1>2. ASSUME \/ FindsNone \/ UNCHANGED vars
             \/ \E p \in Pods : \/ TakePod(p) \/ BindPodVolumes(p) \/ PollSucceeds(p)
                                \/ PollFails(p) \/ DeletePod(p)
             \/ \E n \in Nodes : FindPodVolumes(n)
      PROVE  /\ UNCHANGED <<uses, pvs, pvcs>> /\ UNCHANGED <<pvCache, pvcCache>>
             /\ revoked \subseteq revoked'
  BY <1>2 DEF FindsNone, vars, TakePod, BindPodVolumes, PollSucceeds, PollFails, DeletePod,
              FindPodVolumes, api, caches, pods
<1>3. CASE /\ VolumesMove /\ ClaimsMove
           /\ UNCHANGED <<uses, pvCache, pvcCache, revoked>>
  BY <1>3, SameAsIs DEF Moves
<1>4. ASSUME NEW v \in Volumes,
             ControllerTakesVolume(v) \/ ControllerBindsClaim(v) \/ ControllerUnbinds(v)
      PROVE  Moves
  <2>1. UNCHANGED <<uses, pvCache, pvcCache, revoked>>
    BY <1>4 DEF ControllerTakesVolume, ControllerBindsClaim, ControllerUnbinds, caches, pods
  <2>2. QED
    BY <1>3, <1>4, <2>1, ControllerMoves
<1>5. ASSUME NEW c \in Claims, ProvisioningFails(c) \/ DeleteClaim(c)
      PROVE  Moves
  <2>1. UNCHANGED <<uses, pvCache, pvcCache, revoked>>
    BY <1>5 DEF ProvisioningFails, DeleteClaim, caches, pods
  <2>2. QED
    BY <1>3, <1>5, <2>1, ClaimEndsMoves
<1>6. ASSUME NEW c \in Claims, NEW v \in Volumes, Provision(c, v)
      PROVE  Moves
  <2>1. /\ UNCHANGED <<uses, pvcs, pvCache, pvcCache, revoked>>
        /\ v \notin DOMAIN pvs /\ \A w \in DOMAIN pvs : w \in DOMAIN pvs' /\ pvs'[w] = pvs[w]
    BY <1>6 DEF Provision, Put, caches, pods
  <2>2. QED
    BY <1>3, <2>1 DEF VolumesMove, ClaimsMove, Moved
<1>7. ASSUME NEW p \in Pods, UpdateVolume(p) \/ UpdateClaim(p) PROVE Moves
  BY <1>7, UpdatesMove
<1>8. QED
  BY <1>1, <1>2, <1>4, <1>5, <1>6, <1>7, CacheStepsMove, Zenon DEF Next

-----------------------------------------------------------------------------
(* The pod of the loop has no goroutine, in any step.                      *)
LEMMA LoopStaysAlone ==
    ASSUME BInv, LoopAlone, [Next]_vars
    PROVE  LoopAlone'
<1>1. CASE UNCHANGED <<loop, bind>>
  BY <1>1 DEF LoopAlone
<1>2. ASSUME NEW p \in Pods,
             BindPodVolumes(p) \/ UpdateVolume(p) \/ UpdateClaim(p) \/ UpdateFails(p)
             \/ PollSucceeds(p) \/ PollFails(p)
      PROVE  LoopAlone'
  <2>1. bind[p].stage # "none" /\ UNCHANGED loop
    BY <1>2 DEF BindPodVolumes, UpdateVolume, UpdateClaim, UpdateFails, PollSucceeds, PollFails,
                UpdatesVolume, UpdatesClaim, Polls
  <2>2. loop.pod # p \/ loop.pod = Nil
    BY <2>1 DEF LoopAlone, None
  <2>3. \A q \in Pods : q # p => bind'[q] = bind[q]
    <3>1. bind \in [Pods -> Binders]
      BY DEF BInv, TypesOK
    <3>2. QED
      BY <1>2, <3>1 DEF BindPodVolumes, UpdateVolume, UpdateClaim, UpdateFails, PollSucceeds,
                        PollFails
  <2>4. loop.pod \in Pods \cup {Nil}
    BY DEF BInv, TypesOK
  <2>5. QED
    BY <2>1, <2>2, <2>3, <2>4 DEF LoopAlone
<1>3. ASSUME NEW p \in Pods, TakePod(p) PROVE LoopAlone'
  BY <1>3 DEF TakePod, LoopAlone
<1>4. ASSUME FindsNone \/ Restart \/ \E n \in Nodes : AssumePodVolumes(n)
      PROVE  LoopAlone'
  <2>1. loop' = Idle
    BY <1>4 DEF FindsNone, Restart, AssumePodVolumes
  <2>2. QED
    BY <2>1 DEF LoopAlone, Idle
<1>5. ASSUME NEW n \in Nodes, FindPodVolumes(n) PROVE LoopAlone'
  <2>1. loop'.pod = loop.pod /\ UNCHANGED bind
    <3>1. PICK r \in FindResults(loop.pod, n) :
             loop' = [loop EXCEPT !.left = @ \ {n},
                                  !.fit = IF r.code = "yes" THEN @ \cup {n} ELSE @]
      BY <1>5, Zenon DEF FindPodVolumes
    <3>2. PICK fit : loop' = [loop EXCEPT !.left = @ \ {n}, !.fit = fit]
      BY <3>1
    <3>3. loop \in [pod : Pods \cup {Nil}, left : SUBSET Nodes, fit : SUBSET Nodes]
      BY DEF BInv, TypesOK
    <3>4. QED
      BY <1>5, <3>2, <3>3 DEF FindPodVolumes
  <2>2. QED
    BY <2>1 DEF LoopAlone
<1>6. ASSUME \/ UNCHANGED vars
             \/ \E p \in Pods : DeletePod(p)
             \/ \E v \in Volumes : \/ ShowVolume(v) \/ ControllerTakesVolume(v)
                                   \/ ControllerBindsClaim(v) \/ ControllerUnbinds(v)
             \/ \E c \in Claims : \/ ShowClaim(c) \/ ProvisioningFails(c) \/ DeleteClaim(c)
                                  \/ \E v \in Volumes : Provision(c, v)
      PROVE  UNCHANGED <<loop, bind>>
  BY <1>6 DEF vars, DeletePod, ShowVolume, ControllerTakesVolume, ControllerBindsClaim,
              ControllerUnbinds, ShowClaim, ProvisioningFails, DeleteClaim, Provision
<1>7. QED
  BY <1>1, <1>2, <1>3, <1>4, <1>5, <1>6, Zenon DEF Next

-----------------------------------------------------------------------------
(* Where AssumePodVolumes leaves what is assumed of each name: as it was,  *)
(* restored, or from a dirty item of the list.                             *)
AssumedAmong(new, old, items) ==
    \A x \in DOMAIN old :
        \/ new[x].latest = old[x].latest
        \/ new[x].latest = old[x].api
        \/ \E i \in DOMAIN items : AssumedFrom(items, i, x, new[x].latest)

LEMMA AssumedOfAll ==
    ASSUME NEW S, NEW items \in Seq(S), NEW old, NEW new, Kept(new, old, items, Len(items))
    PROVE  AssumedAmong(new, old, items)
<1>1. DOMAIN items = 1..Len(items)
  OBVIOUS
<1>2. QED
  BY <1>1 DEF Kept, AssumedAmong

LEMMA RestoredIsAsBefore ==
    ASSUME NEW old, NEW new, NEW items, NEW k, Kept(new, old, items, k), DOMAIN new = DOMAIN old,
           NEW names, \A i \in 1..k : items[i].name \in names
    PROVE  AssumedAmong(CacheRestore(new, names), old, <<>>)
<1> DEFINE r == CacheRestore(new, names)
<1>1. r = [x \in DOMAIN old |-> IF x \in names THEN Both(new[x].api) ELSE new[x]]
  BY DEF CacheRestore
<1> HIDE DEF r
<1>2. ASSUME NEW x \in DOMAIN old
      PROVE  r[x].latest = old[x].latest \/ r[x].latest = old[x].api
  <2>1. CASE x \in names
    BY <1>1, <2>1 DEF Both, Kept
  <2>2. CASE x \notin names
    BY <1>1, <2>2 DEF Kept, AssumedFrom
  <2>3. QED
    BY <2>1, <2>2
<1>3. QED
  BY <1>2 DEF AssumedAmong, r

LEMMA AssumeBothOutcome ==
    ASSUME BInv, NEW p \in Pods, NEW n \in Nodes
    PROVE  LET bs == NewBindings(p, n)
               cs == NewProvisionedPVCs(p, n)
               after == AssumeBoth(bs, cs)
           IN  \/ /\ after.ok = TRUE
                  /\ AssumedAmong(after.pvCache, pvCache, bs)
                  /\ AssumedAmong(after.pvcCache, pvcCache, cs)
               \/ /\ after.ok = FALSE
                  /\ AssumedAmong(after.pvCache, pvCache, <<>>)
                  /\ AssumedAmong(after.pvcCache, pvcCache, <<>>)
<1> DEFINE bs == NewBindings(p, n)
           cs == NewProvisionedPVCs(p, n)
           vs == AssumeAll(pvCache, bs)
           r == AssumeAll(pvcCache, cs)
           after == AssumeBoth(bs, cs)
<1>1. bs \in Seq(AssumedBindings) /\ cs \in Seq(AssumedClaims)
  BY NewBindingsFacts, NewClaimsFacts
<1>2. /\ vs.failed \in 0..Len(bs) /\ VolumesShow(vs.cache)
      /\ Kept(vs.cache, pvCache, bs, IF vs.failed = 0 THEN Len(bs) ELSE vs.failed - 1)
  BY VolumesAssumed
<1>3. /\ r.failed \in 0..Len(cs) /\ ClaimsShow(r.cache)
      /\ Kept(r.cache, pvcCache, cs, IF r.failed = 0 THEN Len(cs) ELSE r.failed - 1)
  BY ClaimsAssumed
<1>4. Len(bs) \in Nat /\ Len(cs) \in Nat
  BY <1>1
<1>5. after = IF vs.failed # 0
              THEN [ok |-> FALSE, pvcCache |-> pvcCache,
                    pvCache |-> CacheRestore(vs.cache, NamesIn(SubSeq(bs, 1, vs.failed - 1)))]
              ELSE IF r.failed # 0
              THEN [ok |-> FALSE, pvCache |-> CacheRestore(vs.cache, NamesIn(bs)),
                    pvcCache |-> CacheRestore(r.cache, NamesIn(SubSeq(cs, 1, r.failed - 1)))]
              ELSE [ok |-> TRUE, pvCache |-> vs.cache, pvcCache |-> r.cache]
  BY DEF AssumeBoth
<1>6. DOMAIN vs.cache = DOMAIN pvCache /\ DOMAIN r.cache = DOMAIN pvcCache
  BY <1>2, <1>3 DEF VolumesShow, ClaimsShow
<1> HIDE DEF bs, cs, vs, r, after
<1>8. CASE vs.failed # 0
  <2> DEFINE names == NamesIn(SubSeq(bs, 1, vs.failed - 1))
  <2>1. /\ after.ok = FALSE /\ after.pvcCache = pvcCache
        /\ after.pvCache = CacheRestore(vs.cache, names)
    BY <1>5, <1>8
  <2>2. vs.failed - 1 \in 0..Len(bs)
    BY <1>2, <1>4, <1>8
  <2>3. \A i \in 1..(vs.failed - 1) : bs[i].name \in names
    BY <1>1, <2>2, NamesBefore
  <2> HIDE DEF names
  <2>4. AssumedAmong(after.pvCache, pvCache, <<>>)
    BY <1>2, <1>6, <1>8, <2>1, <2>3, RestoredIsAsBefore
  <2>5. AssumedAmong(after.pvcCache, pvcCache, <<>>)
    BY <2>1 DEF AssumedAmong
  <2>6. QED
    BY <2>1, <2>4, <2>5 DEF bs, cs, after
<1>9. CASE vs.failed = 0 /\ r.failed # 0
  <2> DEFINE names == NamesIn(SubSeq(cs, 1, r.failed - 1))
             all == NamesIn(bs)
  <2>1. /\ after.ok = FALSE /\ after.pvCache = CacheRestore(vs.cache, all)
        /\ after.pvcCache = CacheRestore(r.cache, names)
    BY <1>5, <1>9
  <2>2. r.failed - 1 \in 0..Len(cs)
    BY <1>3, <1>4, <1>9
  <2>3. \A i \in 1..(r.failed - 1) : cs[i].name \in names
    BY <1>1, <2>2, NamesBefore
  <2>4. \A i \in 1..Len(bs) : bs[i].name \in all
    BY <1>1 DEF NamesIn
  <2> HIDE DEF names, all
  <2>5. AssumedAmong(after.pvcCache, pvcCache, <<>>)
    BY <1>3, <1>6, <1>9, <2>1, <2>3, RestoredIsAsBefore
  <2>6. AssumedAmong(after.pvCache, pvCache, <<>>)
    BY <1>2, <1>6, <1>9, <2>1, <2>4, RestoredIsAsBefore
  <2>7. QED
    BY <2>1, <2>5, <2>6 DEF bs, cs, after
<1>10. CASE vs.failed = 0 /\ r.failed = 0
  <2>1. after.ok = TRUE /\ after.pvCache = vs.cache /\ after.pvcCache = r.cache
    BY <1>5, <1>10
  <2>2. AssumedAmong(vs.cache, pvCache, bs) /\ AssumedAmong(r.cache, pvcCache, cs)
    BY <1>1, <1>2, <1>3, <1>10, AssumedOfAll
  <2>3. QED
    BY <2>1, <2>2 DEF bs, cs, after
<1>11. QED
  BY <1>8, <1>9, <1>10

LEMMA AssumeOutcome ==
    ASSUME BInv, NEW n \in Nodes, AssumePodVolumes(n)
    PROVE  LET p == loop.pod
               bs == NewBindings(p, n)
               cs == NewProvisionedPVCs(p, n)
           IN  /\ p \in Pods /\ p # Nil
               /\ \/ UNCHANGED <<pvCache, pvcCache, bind>> /\ decisions' = Spent(p)
                  \/ /\ VolumesShow(pvCache') /\ ClaimsShow(pvcCache')
                     /\ \/ /\ decisions' = Put(decisions, p, Put(<<>>, n,
                                               [bindings |-> bs, provisionings |-> cs]))
                           /\ bind' = [bind EXCEPT ![p] = [stage |-> "assumed", node |-> n]]
                           /\ AssumedAmong(pvCache', pvCache, bs)
                           /\ AssumedAmong(pvcCache', pvcCache, cs)
                        \/ /\ decisions' = Spent(p) /\ UNCHANGED bind
                           /\ AssumedAmong(pvCache', pvCache, <<>>)
                           /\ AssumedAmong(pvcCache', pvcCache, <<>>)
<1> DEFINE p == loop.pod
           after == AssumeBoth(NewBindings(p, n), NewProvisionedPVCs(p, n))
<1>1. /\ p # Nil
      /\ \/ UNCHANGED <<pvCache, pvcCache, bind>> /\ decisions' = Spent(p)
         \/ /\ pvCache' = after.pvCache /\ pvcCache' = after.pvcCache
            /\ IF after.ok
               THEN /\ decisions' = Put(decisions, p, Put(<<>>, n,
                               [bindings |-> NewBindings(p, n),
                                provisionings |-> NewProvisionedPVCs(p, n)]))
                    /\ bind' = [bind EXCEPT ![p] = [stage |-> "assumed", node |-> n]]
               ELSE decisions' = Spent(p) /\ UNCHANGED bind
  BY DEF AssumePodVolumes, caches
<1>2. p \in Pods
  BY <1>1 DEF BInv, TypesOK
<1>3. VolumesShow(after.pvCache) /\ ClaimsShow(after.pvcCache)
  BY <1>2, AssumeBothFacts
<1>4. \/ /\ after.ok = TRUE
         /\ AssumedAmong(after.pvCache, pvCache, NewBindings(p, n))
         /\ AssumedAmong(after.pvcCache, pvcCache, NewProvisionedPVCs(p, n))
      \/ /\ after.ok = FALSE
         /\ AssumedAmong(after.pvCache, pvCache, <<>>)
         /\ AssumedAmong(after.pvcCache, pvcCache, <<>>)
  BY <1>2, AssumeBothOutcome
<1> HIDE DEF after
<1>5. QED
  BY <1>1, <1>2, <1>3, <1>4

-----------------------------------------------------------------------------
(* The object of a binding, and the binding that AssumePodVolumes makes.   *)
LEMMA BoundIsFinal ==
    ASSUME BInv, NEW b \in Bindings, BindingFollows(b), BindingFinal(b)
    PROVE  LET new == GetBindVolumeToClaim(b.obj, b.claim)
               shown == pvCache[b.name].api
           IN  /\ new.full = TRUE /\ new.claim = b.claim
               /\ shown.full /\ new.version = shown.version => new = shown /\ new = b.obj
<1> DEFINE o == b.obj
           c == b.claim
           new == GetBindVolumeToClaim(o, c)
           shown == pvCache[b.name].api
<1>1. o \in VolumeObjects
  BY DEF Bindings
<1>2. b.name \in DOMAIN pvCache /\ o.claim \in {Nil, c}
  BY DEF BindingFollows
<1>3. shown.full /\ o.version = shown.version => o = shown
  BY DEF BindingFinal
<1> HIDE DEF o, c, shown
<1>4. new = [o EXCEPT !.claim = c, !.full = TRUE, !.ours = o.ours \/ ~(o.claim = c)]
  BY DEF GetBindVolumeToClaim, IsVolumeBoundToClaim
<1> HIDE DEF new
<1>5. new.claim = c /\ new.full = TRUE /\ new.version = o.version
  BY <1>1, <1>4 DEF VolumeObjects
<1>6. ASSUME shown.full, new.version = shown.version
      PROVE  new = shown /\ new = o
  <2>1. o = shown /\ o.full = TRUE
    BY <1>1, <1>3, <1>5, <1>6 DEF VolumeObjects
  <2>2. o.claim = c
    BY <1>1, <1>2, <2>1 DEF VolumeObjects
  <2>3. o.ours \in BOOLEAN
    BY <1>1 DEF VolumeObjects
  <2>4. new = [o EXCEPT !.claim = o.claim, !.full = o.full, !.ours = o.ours]
    BY <1>4, <2>1, <2>2, <2>3
  <2>5. QED
    BY <1>1, <2>1, <2>4 DEF VolumeObjects
<1>7. QED
  BY <1>5, <1>6 DEF new, o, c, shown

LEMMA NewBindingsFinal ==
    ASSUME BInv, DecisionsFinal, DecisionsOwn, NEW p \in Pods, NEW n
    PROVE  LET bs == NewBindings(p, n)
           IN  \A i \in DOMAIN bs :
                  /\ bs[i].claim \in uses[p] /\ bs[i].obj.full /\ bs[i].obj.claim = bs[i].claim
                  /\ BindingFinal(bs[i])
                  /\ bs[i].dirty => ~(pvCache[bs[i].name].api.full
                                        /\ bs[i].obj.version = pvCache[bs[i].name].api.version)
<1> DEFINE bs == NewBindings(p, n)
<1>1. CASE ~HasDecision(p, n)
  <2>1. bs = <<>>
    BY <1>1 DEF NewBindings
  <2>2. DOMAIN <<>> = {}
    OBVIOUS
  <2>3. QED
    BY <2>1, <2>2
<1>2. CASE HasDecision(p, n)
  <2> DEFINE old == decisions[p][n].bindings
             New(b) == GetBindVolumeToClaim(b.obj, b.claim)
  <2>1. bs = [i \in DOMAIN old |-> [claim |-> old[i].claim, name |-> old[i].name,
                                    obj |-> New(old[i]), dirty |-> New(old[i]) # old[i].obj]]
    BY <1>2 DEF NewBindings
  <2>2. /\ DecisionFollows(decisions[p][n], n) /\ OwnClaims(decisions[p][n], p)
        /\ \A i \in DOMAIN old : BindingFinal(old[i])
    BY <1>2 DEF BInv, DecisionsFollow, HasDecision, DecisionsOwn, DecisionsFinal
  <2>3. /\ old \in Seq(Bindings) /\ \A i \in DOMAIN old : BindingFollows(old[i])
        /\ \A i \in DOMAIN old : old[i].claim \in uses[p] /\ BindingFinal(old[i])
    BY <2>2 DEF DecisionFollows, OwnClaims
  <2> HIDE DEF old, bs
  <2>4. ASSUME NEW i \in DOMAIN old
        PROVE  /\ bs[i].claim \in uses[p] /\ bs[i].obj.full /\ bs[i].obj.claim = bs[i].claim
               /\ BindingFinal(bs[i])
               /\ bs[i].dirty => ~(pvCache[bs[i].name].api.full
                                     /\ bs[i].obj.version = pvCache[bs[i].name].api.version)
    <3> DEFINE b == old[i]
               new == New(b)
    <3>1. b \in Bindings /\ BindingFollows(b) /\ b.claim \in uses[p] /\ BindingFinal(b)
      BY <2>3, SeqWider, Zenon
    <3>2. bs[i] = [claim |-> b.claim, name |-> b.name, obj |-> new, dirty |-> new # b.obj]
      BY <2>1
    <3> HIDE DEF b, New
    <3>3. /\ new.full = TRUE /\ new.claim = b.claim
          /\ pvCache[b.name].api.full /\ new.version = pvCache[b.name].api.version
               => new = pvCache[b.name].api /\ new = b.obj
      BY <3>1, BoundIsFinal DEF New
    <3> HIDE DEF new
    <3>4. /\ bs[i].claim = b.claim /\ bs[i].name = b.name /\ bs[i].obj = new
          /\ bs[i].dirty = (new # b.obj)
      BY <3>2
    <3>5. QED
      BY <3>1, <3>3, <3>4 DEF BindingFinal
  <2>5. DOMAIN bs = DOMAIN old
    BY <2>1
  <2>6. QED
    BY <2>4, <2>5 DEF bs
<1>3. QED
  BY <1>1, <1>2

LEMMA NewClaimsOwn ==
    ASSUME BInv, DecisionsOwn, NEW p \in Pods, NEW n \in Nodes
    PROVE  LET cs == NewProvisionedPVCs(p, n)
           IN  \A i \in DOMAIN cs : cs[i].name \in uses[p] /\ cs[i].obj.selected # Nil
<1> DEFINE cs == NewProvisionedPVCs(p, n)
<1>1. \A i \in DOMAIN cs : cs[i].obj.selected = n
  BY NewClaimsFacts
<1>2. n # Nil
  BY VolumeAssumption
<1>3. CASE ~HasDecision(p, n)
  <2>1. cs = <<>> /\ DOMAIN <<>> = {}
    BY <1>3 DEF NewProvisionedPVCs
  <2>2. QED
    BY <2>1
<1>4. CASE HasDecision(p, n)
  <2> DEFINE old == decisions[p][n].provisionings
  <2>1. cs = [i \in DOMAIN old |-> [name |-> old[i].name,
                                    obj |-> [old[i].obj EXCEPT !.selected = n], dirty |-> TRUE]]
    BY <1>4 DEF NewProvisionedPVCs
  <2>2. \A i \in DOMAIN old : old[i].name \in uses[p]
    BY <1>4 DEF HasDecision, DecisionsOwn, OwnClaims
  <2> HIDE DEF old
  <2>3. \A i \in DOMAIN cs : cs[i].name \in uses[p]
    BY <2>1, <2>2
  <2>4. QED
    BY <1>1, <1>2, <2>3
<1>5. QED
  BY <1>3, <1>4

-----------------------------------------------------------------------------
(* What the informers show moves with the objects.                         *)
LEMMA VolumeApisMove ==
    ASSUME BInv, BInv', ApiTrue, Moves, NEW v \in DOMAIN pvCache
    PROVE  v \in DOMAIN pvCache' /\ Moved(pvCache[v].api, pvCache'[v].api)
<1>1. /\ v \in DOMAIN pvCache' /\ v \in DOMAIN pvs /\ v \in DOMAIN pvs'
      /\ Moved(pvs[v], pvs'[v])
      /\ pvCache'[v].api = pvCache[v].api \/ pvCache'[v].api = pvs'[v]
  BY CachedVolume DEF Moves, ShownAsIs, VolumesMove, BInv
<1>2. pvs[v] \in VolumeObjects /\ pvCache[v].api \in VolumeObjects /\ pvs'[v] \in VolumeObjects
  BY <1>1, CachedVolume DEF BInv, TypesOK
<1>3. pvCache[v].api.version <= pvs[v].version
  BY DEF BInv, CachesFollow, VolumeFollows
<1>4. CASE pvCache'[v].api = pvs'[v]
  <2>1. CASE pvs'[v].version > pvCache[v].api.version
    BY <1>1, <1>4, <2>1 DEF Moved
  <2>2. CASE ~(pvs'[v].version > pvCache[v].api.version)
    <3>1. pvs'[v] = pvs[v] /\ pvs[v].version = pvCache[v].api.version
      BY <1>1, <1>2, <1>3, <2>2 DEF Moved, VolumeObjects
    <3>2. pvs[v] = pvCache[v].api
      BY <3>1 DEF ApiTrue
    <3>3. QED
      BY <1>1, <1>4, <3>1, <3>2 DEF Moved
  <2>3. QED
    BY <2>1, <2>2
<1>5. QED
  BY <1>1, <1>4 DEF Moved

(* Only the decision of one pod for one node may be new.                   *)
DecisionsChange(p, n, d) ==
    \A q \in DOMAIN decisions' : \A m \in DOMAIN decisions'[q] :
        \/ q = p /\ m = n /\ decisions'[q][m] = d
        \/ q \in DOMAIN decisions /\ m \in DOMAIN decisions[q]
           /\ decisions'[q][m] = decisions[q][m]

NewDecisionGood(p, d) ==
    /\ \A i \in DOMAIN d.bindings :
          d.bindings[i].claim \in uses'[p]
          /\ (pvCache'[d.bindings[i].name].api.full
                /\ d.bindings[i].obj.version = pvCache'[d.bindings[i].name].api.version
              => d.bindings[i].obj = pvCache'[d.bindings[i].name].api)
    /\ \A i \in DOMAIN d.provisionings : d.provisionings[i].name \in uses'[p]

LEMMA DecisionsStayGood ==
    ASSUME BInv, BInv', ApiTrue, Moves, DecisionsFinal, DecisionsOwn,
           NEW p, NEW n, NEW d, NewDecisionGood(p, d), DecisionsChange(p, n, d)
    PROVE  DecisionsFinal' /\ DecisionsOwn'
<1>1. ASSUME NEW q \in DOMAIN decisions', NEW m \in DOMAIN decisions'[q],
             NEW i \in DOMAIN decisions'[q][m].bindings
      PROVE  LET b == decisions'[q][m].bindings[i]
                 shown == pvCache'[b.name].api
             IN  /\ b.claim \in uses'[q]
                 /\ shown.full /\ b.obj.version = shown.version => b.obj = shown
  <2>1. CASE q = p /\ m = n /\ decisions'[q][m] = d
    BY <1>1, <2>1 DEF NewDecisionGood
  <2>2. CASE /\ q \in DOMAIN decisions /\ m \in DOMAIN decisions[q]
             /\ decisions'[q][m] = decisions[q][m]
    <3>1. PICK b : b = decisions[q][m].bindings[i]
      OBVIOUS
    <3>2. /\ BindingFinal(b) /\ b.claim \in uses[q] /\ BindingFollows(b)
          /\ b = decisions'[q][m].bindings[i] /\ b \in Bindings
      <4>1. i \in DOMAIN decisions[q][m].bindings
        BY <1>1, <2>2
      <4>2. DecisionFollows(decisions[q][m], m) /\ OwnClaims(decisions[q][m], q)
        BY <2>2 DEF BInv, DecisionsFollow, DecisionsOwn
      <4>3. BindingFollows(b) /\ b \in Bindings /\ b.claim \in uses[q]
        BY <3>1, <4>1, <4>2 DEF DecisionFollows, OwnClaims
      <4>4. BindingFinal(b)
        BY <2>2, <3>1, <4>1 DEF DecisionsFinal
      <4>5. QED
        BY <2>2, <3>1, <4>3, <4>4
    <3>3. b.name \in DOMAIN pvCache /\ b.obj.version <= pvCache[b.name].api.version
      BY <3>2 DEF BindingFollows, VolumeFollows
    <3>4. b.obj.version \in Nat /\ pvCache[b.name].api.version \in Nat
      <4>1. b.obj \in VolumeObjects /\ pvCache[b.name].api \in VolumeObjects
        BY <3>2, <3>3, CachedVolume DEF BInv, Bindings
      <4>2. QED
        BY <4>1 DEF VolumeObjects
    <3>5. Moved(pvCache[b.name].api, pvCache'[b.name].api) /\ b.name \in DOMAIN pvCache'
      BY <3>3, VolumeApisMove
    <3>6. pvCache'[b.name].api.version \in Nat
      <4>1. pvCache'[b.name] \in Cached(VolumeObjects)
        BY <3>5 DEF BInv, TypesOK
      <4>2. QED
        BY <4>1 DEF Cached, VolumeObjects
    <3>7. b.claim \in uses'[q]
      BY <3>2 DEF Moves
    <3>8. pvCache'[b.name].api.full /\ b.obj.version = pvCache'[b.name].api.version
            => b.obj = pvCache'[b.name].api
      BY <3>2, <3>3, <3>4, <3>5, <3>6 DEF Moved, BindingFinal
    <3>9. QED
      BY <3>2, <3>7, <3>8
  <2>3. QED
    BY <2>1, <2>2 DEF DecisionsChange
<1>2. ASSUME NEW q \in DOMAIN decisions', NEW m \in DOMAIN decisions'[q],
             NEW i \in DOMAIN decisions'[q][m].provisionings
      PROVE  decisions'[q][m].provisionings[i].name \in uses'[q]
  <2>1. CASE q = p /\ m = n /\ decisions'[q][m] = d
    BY <1>2, <2>1 DEF NewDecisionGood
  <2>2. CASE /\ q \in DOMAIN decisions /\ m \in DOMAIN decisions[q]
             /\ decisions'[q][m] = decisions[q][m]
    BY <1>2, <2>2 DEF DecisionsOwn, OwnClaims, Moves
  <2>3. QED
    BY <2>1, <2>2 DEF DecisionsChange
<1>3. QED
  BY <1>1, <1>2 DEF DecisionsFinal, BindingFinal, DecisionsOwn, OwnClaims

LEMMA ShrinkIsChange ==
    ASSUME NEW p, NEW n, NEW d, DecisionsShrink
    PROVE  DecisionsChange(p, n, d)
  BY DEF DecisionsShrink, DecisionsChange

LEMMA ShrunkStayGood ==
    ASSUME BInv, BInv', ApiTrue, Moves, DecisionsFinal, DecisionsOwn, DecisionsShrink
    PROVE  DecisionsFinal' /\ DecisionsOwn'
<1> DEFINE d == [bindings |-> <<>>, provisionings |-> <<>>]
<1>1. NewDecisionGood(0, d)
  <2>1. d.bindings = <<>> /\ d.provisionings = <<>> /\ DOMAIN <<>> = {}
    OBVIOUS
  <2> HIDE DEF d
  <2>2. QED
    BY <2>1 DEF NewDecisionGood
<1> HIDE DEF d
<1>2. DecisionsChange(0, 0, d)
  BY ShrinkIsChange
<1>3. QED
  BY <1>1, <1>2, DecisionsStayGood

-----------------------------------------------------------------------------
(* The steps change the decisions of one pod, or none.                     *)
LEMMA PutChanges ==
    ASSUME NEW p, NEW n, NEW f, f = GetDecisions(p) \/ f = <<>>, NEW d,
           decisions' = Put(decisions, p, Put(f, n, d))
    PROVE  DecisionsChange(p, n, d)
<1>1. /\ DOMAIN decisions' = DOMAIN decisions \cup {p}
      /\ \A q \in DOMAIN decisions : q # p => decisions'[q] = decisions[q]
      /\ decisions'[p] = Put(f, n, d)
  BY DEF Put
<1>2. DOMAIN <<>> = {}
  OBVIOUS
<1>3. ASSUME NEW m \in DOMAIN f
      PROVE  p \in DOMAIN decisions /\ m \in DOMAIN decisions[p] /\ f[m] = decisions[p][m]
  BY <1>2 DEF GetDecisions
<1>4. DOMAIN Put(f, n, d) = DOMAIN f \cup {n} /\ Put(f, n, d)[n] = d
      /\ \A m \in DOMAIN f : m # n => Put(f, n, d)[m] = f[m]
  BY DEF Put
<1>5. ASSUME NEW q \in DOMAIN decisions', NEW m \in DOMAIN decisions'[q]
      PROVE  \/ q = p /\ m = n /\ decisions'[q][m] = d
             \/ q \in DOMAIN decisions /\ m \in DOMAIN decisions[q]
                /\ decisions'[q][m] = decisions[q][m]
  <2>1. CASE q # p
    BY <1>1, <1>5, <2>1
  <2>2. CASE q = p /\ m = n
    BY <1>1, <1>4, <2>2
  <2>3. CASE q = p /\ m # n
    BY <1>1, <1>3, <1>4, <1>5, <2>3
  <2>4. QED
    BY <2>1, <2>2, <2>3
<1>6. QED
  BY <1>5 DEF DecisionsChange

LEMMA FoundIsGood ==
    ASSUME BInv, CacheFinal, UNCHANGED <<uses, pvCache, pvcCache>>, NEW p \in Pods, NEW n,
           NEW r \in FindResults(p, n)
    PROVE  NewDecisionGood(p, [bindings |-> WithObjects(r).bindings,
                               provisionings |-> WithObjects(r).provisionings])
<1> DEFINE bs == WithObjects(r).bindings
           cs == WithObjects(r).provisionings
           d == [bindings |-> bs, provisionings |-> cs]
<1>1. Found(r, uses[p], n)
  BY FoundResults
<1>2. /\ bs = [i \in DOMAIN r.bindings |->
                 [claim |-> r.bindings[i].claim, name |-> r.bindings[i].volume,
                  obj |-> LatestVolume(r.bindings[i].volume)]]
      /\ cs = [i \in DOMAIN r.provisionings |->
                 [name |-> r.provisionings[i], obj |-> LatestClaim(r.provisionings[i])]]
  BY DEF WithObjects
<1>3. d.bindings = bs /\ d.provisionings = cs
  OBVIOUS
<1> HIDE DEF bs, cs, d
<1>4. ASSUME NEW i \in DOMAIN bs
      PROVE  /\ bs[i].claim \in uses[p]
             /\ pvCache[bs[i].name].api.full => bs[i].obj = pvCache[bs[i].name].api
  <2>1. /\ i \in DOMAIN r.bindings /\ bs[i].claim = r.bindings[i].claim
        /\ bs[i].name = r.bindings[i].volume /\ bs[i].obj = LatestVolume(bs[i].name)
    BY <1>2, <1>4
  <2>2. bs[i].claim \in uses[p] /\ bs[i].name \in DOMAIN pvCache
    BY <1>1, <2>1 DEF Found
  <2>3. QED
    BY <2>1, <2>2 DEF CacheFinal, LatestVolume, GetLatest
<1>5. ASSUME NEW i \in DOMAIN cs PROVE cs[i].name \in uses[p]
  BY <1>1, <1>2, <1>5 DEF Found
<1>6. NewDecisionGood(p, d)
  BY <1>3, <1>4, <1>5 DEF NewDecisionGood
<1>7. QED
  BY <1>6 DEF d, bs, cs

LEMMA FindKeepsGood ==
    ASSUME LInv, BInv', Moves, NEW n \in Nodes, FindPodVolumes(n)
    PROVE  DecisionsFinal' /\ DecisionsOwn'
<1> DEFINE p == loop.pod
<1>1. UNCHANGED <<uses, pvCache, pvcCache>> /\ p \in Pods
  BY DEF FindPodVolumes, api, caches, LInv, BInv, TypesOK
<1>2. PICK r \in FindResults(p, n) :
         \/ ClearBindings(p, n)
         \/ UpdateBindings(p, n, WithObjects(r).bindings, WithObjects(r).provisionings)
  BY Zenon DEF FindPodVolumes
<1>3. CASE ClearBindings(p, n)
  <2>1. DecisionsShrink
    BY <1>3 DEF ClearBindings, DecisionsShrink, Restrict
  <2>2. QED
    BY <2>1, ShrunkStayGood DEF LInv, FullIsFinal
<1>4. CASE UpdateBindings(p, n, WithObjects(r).bindings, WithObjects(r).provisionings)
  <2>1. PICK d : d = [bindings |-> WithObjects(r).bindings,
                      provisionings |-> WithObjects(r).provisionings]
    OBVIOUS
  <2>2. NewDecisionGood(p, d)
    BY <1>1, <1>2, <2>1, FoundIsGood DEF LInv, FullIsFinal
  <2>3. decisions' = Put(decisions, p, Put(GetDecisions(p), n, d))
    BY <1>4, <2>1 DEF UpdateBindings
  <2>4. PICK f : f = GetDecisions(p)
    OBVIOUS
  <2>5. PICK q : q = p
    OBVIOUS
  <2>6. DecisionsChange(q, n, d)
    BY <2>3, <2>4, <2>5, PutChanges
  <2>7. QED
    BY <2>2, <2>5, <2>6, DecisionsStayGood DEF LInv, FullIsFinal
<1>5. QED
  BY <1>2, <1>3, <1>4

LEMMA AssumeKeepsGood ==
    ASSUME LInv, BInv', Moves, NEW n \in Nodes, AssumePodVolumes(n)
    PROVE  DecisionsFinal' /\ DecisionsOwn'
<1> DEFINE p == loop.pod
           bs == NewBindings(p, n)
           cs == NewProvisionedPVCs(p, n)
<1>0. p \in Pods
  BY AssumeOutcome DEF LInv
<1>1. CASE decisions' = Spent(p)
  BY <1>1, SpentShrinks, ShrunkStayGood DEF LInv, FullIsFinal
<1>2. CASE /\ decisions' = Put(decisions, p, Put(<<>>, n,
                                  [bindings |-> bs, provisionings |-> cs]))
           /\ VolumesShow(pvCache')
  <2>1. PICK d : d = [bindings |-> bs, provisionings |-> cs]
    OBVIOUS
  <2>2. \A i \in DOMAIN bs :
           /\ bs[i].claim \in uses[p] /\ BindingFinal(bs[i])
    BY <1>0, NewBindingsFinal DEF LInv, FullIsFinal
  <2>3. \A i \in DOMAIN bs : bs[i].name \in DOMAIN pvCache
    BY <1>0, NewBindingsFacts DEF LInv, BindingFollows
  <2>4. \A i \in DOMAIN cs : cs[i].name \in uses[p]
    BY <1>0, NewClaimsOwn DEF LInv
  <2>5. d.bindings = bs /\ d.provisionings = cs
    BY <2>1
  <2>6. uses' = uses
    BY DEF Moves
  <2>7. \A v \in DOMAIN pvCache : pvCache'[v].api = pvCache[v].api
    BY <1>2 DEF VolumesShow
  <2>8. NewDecisionGood(p, d)
    <3> HIDE DEF bs, cs
    <3>1. QED
      BY <2>2, <2>3, <2>4, <2>5, <2>6, <2>7 DEF NewDecisionGood, BindingFinal
  <2>9. PICK q : q = p
    OBVIOUS
  <2>10. DecisionsChange(q, n, d)
    BY <1>2, <2>1, <2>9, PutChanges
  <2>11. QED
    BY <2>8, <2>9, <2>10, DecisionsStayGood DEF LInv, FullIsFinal
<1>3. QED
  BY <1>1, <1>2, AssumeOutcome DEF LInv

LEMMA DecisionsKeptGood ==
    ASSUME LInv, BInv', Moves, [Next]_vars
    PROVE  DecisionsFinal' /\ DecisionsOwn'
<1>1. CASE DecisionsShrink
  BY <1>1, ShrunkStayGood DEF LInv, FullIsFinal
<1>2. ASSUME \/ UNCHANGED vars
             \/ \E p \in Pods : \/ TakePod(p) \/ UpdateVolume(p) \/ UpdateClaim(p)
                                \/ UpdateFails(p) \/ PollSucceeds(p) \/ PollFails(p)
             \/ \E v \in Volumes : \/ ShowVolume(v) \/ ControllerTakesVolume(v)
                                   \/ ControllerBindsClaim(v) \/ ControllerUnbinds(v)
             \/ \E c \in Claims : \/ ShowClaim(c) \/ ProvisioningFails(c) \/ DeleteClaim(c)
                                  \/ \E v \in Volumes : Provision(c, v)
      PROVE  UNCHANGED decisions
  BY <1>2 DEF vars, TakePod, UpdateVolume, UpdateClaim, UpdateFails, PollSucceeds, PollFails,
              ShowVolume, ControllerTakesVolume, ControllerBindsClaim, ControllerUnbinds,
              ShowClaim, ProvisioningFails, DeleteClaim, Provision
<1>3. ASSUME \/ FindsNone
             \/ \E p \in Pods : BindPodVolumes(p) \/ DeletePod(p)
      PROVE  DecisionsShrink
  <2>1. CASE FindsNone
    BY <2>1, SpentShrinks DEF FindsNone
  <2>2. ASSUME NEW p \in Pods, BindPodVolumes(p) PROVE DecisionsShrink
    BY <2>2, SpentShrinks DEF BindPodVolumes
  <2>3. ASSUME NEW p \in Pods, DeletePod(p) PROVE DecisionsShrink
    BY <2>3 DEF DeletePod, DeleteBindings, DecisionsShrink, Restrict
  <2>4. QED
    BY <1>3, <2>1, <2>2, <2>3
<1>4. ASSUME Restart PROVE DecisionsShrink
  <2>1. DOMAIN decisions' = {}
    BY <1>4 DEF Restart
  <2>2. QED
    BY <2>1, Zenon DEF DecisionsShrink
<1>5. ASSUME NEW n \in Nodes, FindPodVolumes(n) \/ AssumePodVolumes(n)
      PROVE  DecisionsFinal' /\ DecisionsOwn'
  BY <1>5, FindKeepsGood, AssumeKeepsGood
<1>6. QED
  BY <1>1, <1>2, <1>3, <1>4, <1>5, SameShrinks, Zenon DEF Next

-----------------------------------------------------------------------------
(* An object that refers to its claim completely is not assumed.           *)
LEMMA AssumedAreNotFull ==
    ASSUME LInv, VolumesShow(pvCache'), NEW p \in Pods, NEW n,
           NEW items, items = <<>> \/ items = NewBindings(p, n),
           AssumedAmong(pvCache', pvCache, items)
    PROVE  CacheFinal'
<1>1. ASSUME NEW v \in DOMAIN pvCache, pvCache'[v].api.full
      PROVE  pvCache'[v].latest = pvCache'[v].api
  <2>1. pvCache'[v].api = pvCache[v].api /\ pvCache[v].api.full
    BY <1>1 DEF VolumesShow
  <2>2. CASE pvCache'[v].latest = pvCache[v].latest \/ pvCache'[v].latest = pvCache[v].api
    BY <2>1, <2>2 DEF LInv, FullIsFinal, CacheFinal
  <2>3. ASSUME NEW i \in DOMAIN items, AssumedFrom(items, i, v, pvCache'[v].latest)
        PROVE  FALSE
    <3>1. DOMAIN <<>> = {}
      OBVIOUS
    <3>2. PICK bs : bs = NewBindings(p, n) /\ i \in DOMAIN bs /\ items = bs
      BY <2>3, <3>1
    <3>3. bs[i].dirty /\ bs[i].name = v /\ bs[i].obj = pvCache'[v].latest
      BY <2>3, <3>2 DEF AssumedFrom
    <3>4. ~(pvCache[v].api.full /\ bs[i].obj.version = pvCache[v].api.version)
      BY <3>2, <3>3, NewBindingsFinal DEF LInv, FullIsFinal
    <3>5. pvCache'[v].latest.version = pvCache[v].api.version
      BY DEF VolumesShow
    <3>6. QED
      BY <2>1, <3>3, <3>4, <3>5
  <2>4. QED
    BY <2>2, <2>3 DEF AssumedAmong
<1>2. DOMAIN pvCache' = DOMAIN pvCache
  BY DEF VolumesShow
<1>3. QED
  BY <1>1, <1>2 DEF CacheFinal

LEMMA CacheStaysFinal ==
    ASSUME LInv, BInv', [Next]_vars
    PROVE  CacheFinal'
<1>1. CASE UNCHANGED pvCache
  BY <1>1 DEF LInv, FullIsFinal, CacheFinal
<1>2. ASSUME NEW n \in Nodes, AssumePodVolumes(n) PROVE CacheFinal'
  <2>1. PICK p \in Pods : p = loop.pod
    BY <1>2, AssumeOutcome DEF LInv
  <2>2. PICK bs : bs = NewBindings(p, n)
    OBVIOUS
  <2>3. \/ UNCHANGED pvCache
        \/ VolumesShow(pvCache') /\ AssumedAmong(pvCache', pvCache, bs)
        \/ VolumesShow(pvCache') /\ AssumedAmong(pvCache', pvCache, <<>>)
    BY <1>2, <2>1, <2>2, AssumeOutcome DEF LInv
  <2>4. QED
    BY <1>1, <2>2, <2>3, AssumedAreNotFull
<1>3. ASSUME NEW p \in Pods, UpdateFails(p) PROVE CacheFinal'
  <2>1. PICK names : pvCache' = CacheRestore(pvCache, names)
    BY <1>3 DEF UpdateFails, Revert
  <2>2. QED
    BY <2>1 DEF CacheRestore, Both, LInv, FullIsFinal, CacheFinal
<1>4. ASSUME NEW v \in Volumes, ShowVolume(v) PROVE CacheFinal'
  <2>1. pvCache' = Put(pvCache, v, Both(pvs[v]))
    BY <1>4, ShowVolumeFacts DEF LInv
  <2>2. QED
    BY <2>1 DEF Put, Both, LInv, FullIsFinal, CacheFinal
<1>5. ASSUME Restart PROVE CacheFinal'
  BY <1>5 DEF Restart, Listed, Both, CacheFinal
<1>6. ASSUME \/ FindsNone \/ UNCHANGED vars
             \/ \E p \in Pods : \/ TakePod(p) \/ BindPodVolumes(p) \/ UpdateVolume(p)
                                \/ UpdateClaim(p) \/ PollSucceeds(p) \/ PollFails(p)
                                \/ DeletePod(p)
             \/ \E n \in Nodes : FindPodVolumes(n)
             \/ \E v \in Volumes : \/ ControllerTakesVolume(v) \/ ControllerBindsClaim(v)
                                   \/ ControllerUnbinds(v)
             \/ \E c \in Claims : \/ ShowClaim(c) \/ ProvisioningFails(c) \/ DeleteClaim(c)
                                  \/ \E v \in Volumes : Provision(c, v)
      PROVE  UNCHANGED pvCache
  BY <1>6 DEF FindsNone, vars, TakePod, BindPodVolumes, UpdateVolume, UpdateClaim, PollSucceeds,
              PollFails, DeletePod, FindPodVolumes, ControllerTakesVolume,
              ControllerBindsClaim, ControllerUnbinds, ShowClaim, ProvisioningFails,
              DeleteClaim, Provision, caches
<1>7. QED
  BY <1>1, <1>2, <1>3, <1>4, <1>5, <1>6, Zenon DEF Next

-----------------------------------------------------------------------------
(* A step concerns one pod at most.                                        *)
OthersSame(p) ==
    \A q \in Pods \ {p} :
        /\ bind'[q] = bind[q]
        /\ q \in DOMAIN decisions' <=> q \in DOMAIN decisions
        /\ q \in DOMAIN decisions => decisions'[q] = decisions[q]

(* WorkOf(p) of the pod's binder w, its entry e among the decisions, has   *)
(* saying that it has one.                                                 *)
WorkIn(w, has, e) ==
    /\ w.stage = "assumed" /\ has /\ w.node \in DOMAIN e =>
          LET d == e[w.node] IN Complete(d.bindings, d.provisionings)
    /\ w.stage = "update" =>
          /\ Complete(w.bindings, w.claims)
          /\ w.volumesDone <= Len(w.bindings) /\ w.claimsDone <= Len(w.claims)

LEMMA WorkOfOthers ==
    ASSUME WorkComplete, NEW p, OthersSame(p), p \in Pods => WorkOf(p)'
    PROVE  WorkComplete'
<1>1. ASSUME NEW q \in Pods, q # p PROVE WorkOf(q)'
  <2>1. /\ bind'[q] = bind[q] /\ (q \in DOMAIN decisions' <=> q \in DOMAIN decisions)
        /\ q \in DOMAIN decisions => decisions'[q] = decisions[q]
    BY <1>1 DEF OthersSame
  <2>2. WorkOf(q)
    BY DEF WorkComplete
  <2>3. WorkIn(bind[q], q \in DOMAIN decisions, decisions[q])
    BY <2>2 DEF WorkOf, HasDecision, WorkIn
  <2>4. PICK w : w = bind[q] /\ w = bind'[q]
    BY <2>1
  <2>5. WorkIn(w, q \in DOMAIN decisions', decisions'[q])
    <3>1. CASE q \in DOMAIN decisions
      BY <2>1, <2>3, <2>4, <3>1
    <3>2. CASE q \notin DOMAIN decisions
      BY <2>1, <2>3, <2>4, <3>2 DEF WorkIn
    <3>3. QED
      BY <3>1, <3>2
  <2>6. QED
    BY <2>4, <2>5 DEF WorkIn, WorkOf, HasDecision
<1>2. QED
  BY <1>1 DEF WorkComplete

LEMMA FlightOfOthers ==
    ASSUME NEW p, OthersSame(p), NEW q \in Pods, q # p
    PROVE  InFlight(q)' = InFlight(q)
<1>1. /\ bind'[q] = bind[q] /\ (q \in DOMAIN decisions' <=> q \in DOMAIN decisions)
      /\ q \in DOMAIN decisions => decisions'[q] = decisions[q]
  BY DEF OthersSame
<1>2. Unwritten(q)' = Unwritten(q)
  BY <1>1 DEF Unwritten, NamesIn
<1>3. HasDecision(q, bind[q].node)' <=> HasDecision(q, bind[q].node)
  BY <1>1 DEF HasDecision
<1>4. CASE bind[q].stage = "none"
  BY <1>1, <1>4 DEF InFlight
<1>5. CASE bind[q].stage = "assumed"
  <2>1. CASE ~HasDecision(q, bind[q].node)
    BY <1>1, <1>3, <1>5, <2>1 DEF InFlight
  <2>2. CASE HasDecision(q, bind[q].node)
    <3>1. decisions'[q] = decisions[q]
      BY <1>1, <2>2 DEF HasDecision
    <3>2. QED
      BY <1>1, <1>3, <1>5, <2>2, <3>1 DEF InFlight, NamesIn
  <2>3. QED
    BY <2>1, <2>2
<1>6. CASE bind[q].stage \notin {"none", "assumed"}
  BY <1>1, <1>2, <1>6 DEF InFlight
<1>7. QED
  BY <1>4, <1>5, <1>6

(* What is assumed of a volume, or a claim, is as before, and of the pod   *)
(* that the step concerns what was to be written is so still, or written.  *)
VolumeKept(v, p) ==
    /\ v \in AssumedNames(pvCache) /\ pvCache'[v].latest = pvCache[v].latest
    /\ pvCache'[v].api = pvCache[v].api
    /\ p \in Pods /\ v \in InFlight(p) =>
          v \in InFlight(p)' \/ pvs'[v].version > pvCache[v].api.version \/ p \in revoked'

ClaimKept(c, p) ==
    /\ c \in AssumedNames(pvcCache) /\ pvcCache'[c].api = pvcCache[c].api
    /\ p \in Pods /\ c \in InFlight(p) =>
          \/ c \in InFlight(p)' \/ c \notin DOMAIN pvcs' \/ p \in revoked'
          \/ pvcs'[c].version > pvcCache[c].api.version

LEMMA KeptVolumeExcused ==
    ASSUME BInv, BInv', Moves, Excused, NEW p, OthersSame(p), NEW v, VolumeKept(v, p)
    PROVE  VolumeExcused(v)'
<1> DEFINE c == pvCache[v].latest.claim
           shown == pvCache[v].api
<1>1. /\ v \in DOMAIN pvCache /\ v \in DOMAIN pvs /\ v \in DOMAIN pvs'
      /\ pvCache'[v].latest.claim = c /\ pvCache'[v].api = shown /\ uses' = uses
      /\ revoked \subseteq revoked' /\ Moved(pvs[v], pvs'[v])
  BY CachedVolume DEF VolumeKept, AssumedNames, Moves, VolumesMove, BInv
<1>2. /\ shown.version \in Nat /\ pvs[v].version \in Nat /\ pvs'[v].version \in Nat
  BY <1>1, CachedVolume DEF BInv, TypesOK, VolumeObjects
<1>3. \/ \E q \in Pods : v \in InFlight(q) /\ c \in uses[q]
      \/ pvs[v].version > shown.version
      \/ \E q \in revoked : c \in uses[q]
  BY DEF VolumeKept, Excused, VolumeExcused, LatestVolume, GetLatest, GetAPIObj
<1>4. CASE pvs'[v].version > shown.version
  BY <1>1, <1>4 DEF VolumeExcused, GetAPIObj
<1>5. CASE \E q \in revoked' : c \in uses[q]
  BY <1>1, <1>5 DEF VolumeExcused, LatestVolume, GetLatest
<1>6. ASSUME NEW q \in Pods, v \in InFlight(q)', c \in uses[q] PROVE VolumeExcused(v)'
  BY <1>1, <1>6 DEF VolumeExcused, LatestVolume, GetLatest
<1>7. CASE pvs[v].version > shown.version
  BY <1>1, <1>2, <1>4, <1>7 DEF Moved
<1>8. ASSUME NEW q \in Pods, v \in InFlight(q), c \in uses[q] PROVE VolumeExcused(v)'
  <2>1. CASE q # p
    BY <1>6, <1>8, <2>1, FlightOfOthers
  <2>2. CASE q = p
    <3>1. v \in InFlight(p)' \/ pvs'[v].version > shown.version \/ p \in revoked'
      BY <1>8, <2>2 DEF VolumeKept
    <3>2. QED
      BY <1>4, <1>5, <1>6, <1>8, <2>2, <3>1
  <2>3. QED
    BY <2>1, <2>2
<1>9. QED
  BY <1>1, <1>3, <1>5, <1>7, <1>8

LEMMA KeptClaimExcused ==
    ASSUME BInv, BInv', ApiTrue, Moves, Excused, NEW p, OthersSame(p), NEW c, ClaimKept(c, p)
    PROVE  ClaimExcused(c)'
<1> DEFINE shown == pvcCache[c].api
<1>1. /\ c \in DOMAIN pvcCache /\ pvcCache'[c].api = shown /\ uses' = uses
      /\ revoked \subseteq revoked'
      /\ c \in DOMAIN pvcs' => c \in DOMAIN pvcs /\ Moved(pvcs[c], pvcs'[c])
  BY DEF ClaimKept, AssumedNames, Moves, ClaimsMove
<1>2. \/ \E q \in Pods : c \in InFlight(q) /\ c \in uses[q]
      \/ c \notin DOMAIN pvcs
      \/ pvcs[c].version > shown.version
      \/ \E q \in revoked : c \in uses[q]
  BY DEF ClaimKept, Excused, ClaimExcused, GetAPIObj
<1>3. CASE c \notin DOMAIN pvcs' \/ pvcs'[c].version > shown.version
  BY <1>1, <1>3 DEF ClaimExcused, GetAPIObj
<1>4. CASE \E q \in revoked' : c \in uses[q]
  BY <1>1, <1>4 DEF ClaimExcused
<1>5. ASSUME NEW q \in Pods, c \in InFlight(q)', c \in uses[q] PROVE ClaimExcused(c)'
  BY <1>1, <1>5 DEF ClaimExcused
<1>6. CASE c \in DOMAIN pvcs' /\ pvcs[c].version > shown.version
  <2>1. shown \in ClaimObjects /\ pvcs[c] \in ClaimObjects /\ pvcs'[c] \in ClaimObjects
    BY <1>1, <1>6, CachedClaim DEF BInv, TypesOK
  <2>2. pvcs'[c].version > shown.version
    BY <1>1, <1>6, <2>1 DEF Moved, ClaimObjects
  <2>3. QED
    BY <1>3, <2>2
<1>7. ASSUME NEW q \in Pods, c \in InFlight(q), c \in uses[q] PROVE ClaimExcused(c)'
  <2>1. CASE q # p
    BY <1>5, <1>7, <2>1, FlightOfOthers
  <2>2. CASE q = p
    <3>1. \/ c \in InFlight(p)' \/ c \notin DOMAIN pvcs' \/ p \in revoked'
          \/ pvcs'[c].version > shown.version
      BY <1>7, <2>2 DEF ClaimKept
    <3>2. QED
      BY <1>3, <1>4, <1>5, <1>7, <2>2, <3>1
  <2>3. QED
    BY <2>1, <2>2
<1>8. QED
  BY <1>1, <1>2, <1>3, <1>4, <1>6, <1>7

(* What a step has to show.                                                *)
LEMMA StillExcused ==
    ASSUME BInv, BInv', ApiTrue, Moves, WorkComplete, Excused, NEW p, OthersSame(p),
           p \in Pods => WorkOf(p)',
           \A v \in AssumedNames(pvCache') : VolumeExcused(v)' \/ VolumeKept(v, p),
           \A c \in AssumedNames(pvcCache') : ClaimExcused(c)' \/ ClaimKept(c, p)
    PROVE  WorkComplete' /\ Excused'
<1>1. WorkComplete'
  BY WorkOfOthers
<1>2. Excused'
  BY KeptVolumeExcused, KeptClaimExcused DEF Excused
<1>3. QED
  BY <1>1, <1>2

(* The caches stay, and of the pod what it has in flight, or it is written. *)
LEMMA FlightKept ==
    ASSUME LInv, BInv', Moves, UNCHANGED <<pvCache, pvcCache>>, NEW p, OthersSame(p),
           p \in Pods => WorkOf(p)',
           p \in Pods => \/ InFlight(p) \subseteq InFlight(p)' \/ p \in revoked'
    PROVE  WorkComplete' /\ Excused'
<1>1. \A v \in AssumedNames(pvCache) : VolumeKept(v, p)
  BY DEF VolumeKept
<1>2. \A c \in AssumedNames(pvcCache) : ClaimKept(c, p)
  BY DEF ClaimKept
<1>3. QED
  BY <1>1, <1>2, StillExcused DEF LInv

LEMMA NoneFlies ==
    ASSUME NEW p, bind[p] = None
    PROVE  InFlight(p) = {} /\ WorkOf(p)
  BY DEF InFlight, WorkOf, None

LEMMA NoneFliesNext ==
    ASSUME NEW p, bind'[p] = None
    PROVE  InFlight(p)' = {} /\ WorkOf(p)'
  BY DEF InFlight, WorkOf, None

-----------------------------------------------------------------------------
(* Steps of no pod: what is in flight stays.                               *)
LEMMA NilIsNoPod == Nil \notin Pods
  BY VolumeAssumption

LEMMA NoPodMoves ==
    ASSUME UNCHANGED <<bind, decisions>>
    PROVE  OthersSame(Nil)
  BY DEF OthersSame

LEMMA WorldStepsExcused ==
    ASSUME LInv, BInv', Moves, UNCHANGED <<pvCache, pvcCache>>, UNCHANGED <<bind, decisions>>
    PROVE  WorkComplete' /\ Excused'
  BY NoPodMoves, NilIsNoPod, FlightKept

LEMMA ShowsExcused ==
    ASSUME LInv, BInv', Moves,
           (\E v \in Volumes : ShowVolume(v)) \/ (\E c \in Claims : ShowClaim(c))
    PROVE  WorkComplete' /\ Excused'
<1>1. UNCHANGED <<bind, decisions>>
  BY DEF ShowVolume, ShowClaim
<1>2. /\ \A v \in AssumedNames(pvCache') : VolumeKept(v, Nil)
      /\ \A c \in AssumedNames(pvcCache') : ClaimKept(c, Nil)
  <2>1. ASSUME NEW v \in Volumes, ShowVolume(v)
        PROVE  /\ \A x \in AssumedNames(pvCache') : VolumeKept(x, Nil)
               /\ \A c \in AssumedNames(pvcCache') : ClaimKept(c, Nil)
    <3>1. UNCHANGED pvcCache /\ pvCache' = Put(pvCache, v, Both(pvs[v]))
      BY <2>1, ShowVolumeFacts DEF LInv
    <3>2. \A x \in AssumedNames(pvCache') : x \in AssumedNames(pvCache) /\ pvCache'[x] = pvCache[x]
      BY <3>1 DEF Put, Both, AssumedNames
    <3>3. QED
      BY <3>1, <3>2, NilIsNoPod DEF VolumeKept, ClaimKept
  <2>2. ASSUME NEW c \in Claims, ShowClaim(c)
        PROVE  /\ \A x \in AssumedNames(pvCache') : VolumeKept(x, Nil)
               /\ \A x \in AssumedNames(pvcCache') : ClaimKept(x, Nil)
    <3>1. /\ UNCHANGED pvCache
          /\ \/ pvcCache' = Put(pvcCache, c, Both(pvcs[c]))
             \/ pvcCache' = Restrict(pvcCache, DOMAIN pvcCache \ {c})
      BY <2>2, ShowClaimFacts DEF LInv
    <3>2. \A x \in AssumedNames(pvcCache') :
              x \in AssumedNames(pvcCache) /\ pvcCache'[x] = pvcCache[x]
      BY <3>1 DEF Put, Both, AssumedNames, Restrict
    <3>3. QED
      BY <3>1, <3>2, NilIsNoPod DEF VolumeKept, ClaimKept
  <2>3. QED
    BY <2>1, <2>2
<1>3. QED
  BY <1>1, <1>2, NoPodMoves, NilIsNoPod, StillExcused DEF LInv

-----------------------------------------------------------------------------
(* Steps of a pod that has nothing in flight, and has no goroutine after.  *)
LEMMA NothingFlew ==
    ASSUME LInv, BInv', Moves, UNCHANGED <<pvCache, pvcCache>>, NEW p, OthersSame(p),
           bind'[p] = None, InFlight(p) = {}
    PROVE  WorkComplete' /\ Excused'
  BY NoneFliesNext, FlightKept

LEMMA LoopStepsExcused ==
    ASSUME LInv, BInv', Moves,
           \/ \E p \in Pods : TakePod(p)
           \/ \E n \in Nodes : FindPodVolumes(n)
           \/ FindsNone
    PROVE  WorkComplete' /\ Excused'
<1>1. UNCHANGED <<pvCache, pvcCache>> /\ UNCHANGED bind
  BY DEF TakePod, FindPodVolumes, FindsNone, caches
<1>2. ASSUME NEW p, bind[p] = None, OthersSame(p) PROVE WorkComplete' /\ Excused'
  BY <1>1, <1>2, NoneFlies, NothingFlew
<1>3. ASSUME NEW p \in Pods, TakePod(p) PROVE WorkComplete' /\ Excused'
  <2>1. UNCHANGED decisions
    BY <1>3 DEF TakePod
  <2>2. QED
    BY <1>1, <2>1, WorldStepsExcused
<1>4. CASE FindsNone \/ \E n \in Nodes : FindPodVolumes(n)
  <2>1. PICK p : p = loop.pod
    OBVIOUS
  <2>2. bind[p] = None
    BY <1>4, <2>1 DEF LInv, LoopAlone, FindsNone, FindPodVolumes
  <2>3. CASE FindsNone
    <3>1. decisions' = Spent(p)
      BY <2>1, <2>3 DEF FindsNone
    <3>2. OthersSame(p)
      BY <1>1, <3>1 DEF Spent, OthersSame
    <3>3. QED
      BY <1>2, <2>2, <3>2
  <2>4. ASSUME NEW n \in Nodes, FindPodVolumes(n) PROVE WorkComplete' /\ Excused'
    <3>1. PICK r \in FindResults(p, n) :
             \/ ClearBindings(p, n)
             \/ UpdateBindings(p, n, WithObjects(r).bindings, WithObjects(r).provisionings)
      BY <2>1, <2>4, Zenon DEF FindPodVolumes
    <3>2. CASE ClearBindings(p, n)
      <4>1. OthersSame(p)
        BY <1>1, <3>2 DEF ClearBindings, OthersSame
      <4>2. QED
        BY <1>2, <2>2, <4>1
    <3>3. CASE UpdateBindings(p, n, WithObjects(r).bindings, WithObjects(r).provisionings)
      <4>1. PICK e : decisions' = Put(decisions, p, e)
        BY <3>3 DEF UpdateBindings
      <4>2. OthersSame(p)
        BY <1>1, <4>1 DEF Put, OthersSame
      <4>3. QED
        BY <1>2, <2>2, <4>2
    <3>4. QED
      BY <3>1, <3>2, <3>3
  <2>5. QED
    BY <1>4, <2>3, <2>4
<1>5. QED
  BY <1>3, <1>4

-----------------------------------------------------------------------------
(* What a goroutine has left to write.                                     *)
LeftToWrite(w) ==
    NamesIn(SubSeq(w.bindings, w.volumesDone + 1, Len(w.bindings)))
    \cup NamesIn(SubSeq(w.claims, w.claimsDone + 1, Len(w.claims)))

LEMMA NamesLeft ==
    ASSUME NEW S, NEW s \in Seq(S), NEW k \in Nat
    PROVE  NamesIn(SubSeq(s, k + 1, Len(s))) = {s[j].name : j \in (k + 1)..Len(s)}
<1> DEFINE t == SubSeq(s, k + 1, Len(s))
<1>1. Len(s) \in Nat /\ DOMAIN s = 1..Len(s)
  OBVIOUS
<1>2. /\ DOMAIN t = 1..(Len(s) - k)
      /\ \A i \in 1..(Len(s) - k) : t[i] = s[i + k]
  <2>1. t = [i \in 1..(1 + Len(s) - (k + 1)) |-> s[i + (k + 1) - 1]]
    OBVIOUS
  <2>2. \A i \in Int : i + (k + 1) - 1 = i + k
    OBVIOUS
  <2>3. 1 + Len(s) - (k + 1) = Len(s) - k
    BY <1>1
  <2> HIDE DEF t
  <2>4. QED
    BY <2>1, <2>2, <2>3
<1> HIDE DEF t
<1>3. ASSUME NEW x \in NamesIn(t) PROVE x \in {s[j].name : j \in (k + 1)..Len(s)}
  <2>1. PICK i \in 1..(Len(s) - k) : x = t[i].name
    BY <1>2, <1>3 DEF NamesIn
  <2>2. i + k \in (k + 1)..Len(s)
    BY <1>1
  <2>3. QED
    BY <1>2, <2>1, <2>2
<1>4. ASSUME NEW j \in (k + 1)..Len(s) PROVE s[j].name \in NamesIn(t)
  <2>1. j - k \in 1..(Len(s) - k) /\ (j - k) + k = j
    BY <1>1
  <2>2. QED
    BY <1>2, <2>1 DEF NamesIn
<1>5. QED
  BY <1>3, <1>4 DEF t

LEMMA UpdatingFlight ==
    ASSUME NEW p \in Pods
    PROVE  /\ bind[p].stage = "update" => InFlight(p) = LeftToWrite(bind[p])
           /\ bind'[p].stage = "update" => InFlight(p)' = LeftToWrite(bind'[p])
<1>1. ASSUME bind[p].stage = "update" PROVE InFlight(p) = LeftToWrite(bind[p])
  BY <1>1 DEF InFlight, Unwritten, LeftToWrite
<1>2. ASSUME bind'[p].stage = "update" PROVE InFlight(p)' = LeftToWrite(bind'[p])
  BY <1>2 DEF InFlight, Unwritten, LeftToWrite, NamesIn
<1>3. QED
  BY <1>1, <1>2

LEMMA UpdatingLeft ==
    ASSUME BInv, NEW p \in Pods, bind[p].stage = "update"
    PROVE  LET w == bind[p]
           IN  /\ w \in Binders /\ w.bindings \in Seq(Bindings) /\ w.claims \in Seq(Provisionings)
               /\ w.volumesDone \in Nat /\ w.claimsDone \in Nat
               /\ Unwritten(p).volumes =
                     {w.bindings[j].name : j \in (w.volumesDone + 1)..Len(w.bindings)}
               /\ Unwritten(p).claims =
                     {w.claims[j].name : j \in (w.claimsDone + 1)..Len(w.claims)}
               /\ LeftToWrite(w) = Unwritten(p).volumes \cup Unwritten(p).claims
               /\ Unwritten(p).volumes \subseteq Volumes /\ Unwritten(p).claims \subseteq Claims
<1>1. PICK w : w = bind[p]
  OBVIOUS
<1>2. /\ w \in Binders /\ w.bindings \in Seq(Bindings) /\ w.claims \in Seq(Provisionings)
      /\ w.volumesDone \in Nat /\ w.claimsDone \in Nat
  <2>1. w \in Binders
    BY <1>1 DEF BInv, TypesOK
  <2>2. QED
    BY <1>1, <2>1, UpdatingBinder
<1>3. /\ Unwritten(p).volumes = NamesIn(SubSeq(w.bindings, w.volumesDone + 1, Len(w.bindings)))
      /\ Unwritten(p).claims = NamesIn(SubSeq(w.claims, w.claimsDone + 1, Len(w.claims)))
  BY <1>1 DEF Unwritten
<1>4. /\ NamesIn(SubSeq(w.bindings, w.volumesDone + 1, Len(w.bindings))) =
            {w.bindings[j].name : j \in (w.volumesDone + 1)..Len(w.bindings)}
      /\ NamesIn(SubSeq(w.claims, w.claimsDone + 1, Len(w.claims))) =
            {w.claims[j].name : j \in (w.claimsDone + 1)..Len(w.claims)}
  BY <1>2, NamesLeft
<1>5. ASSUME NEW j \in (w.volumesDone + 1)..Len(w.bindings) PROVE w.bindings[j].name \in Volumes
  <2>1. j \in 1..Len(w.bindings)
    BY <1>2
  <2>2. w.bindings[j] \in Bindings
    BY <1>2, <2>1
  <2>3. QED
    BY <2>2 DEF Bindings
<1>6. ASSUME NEW j \in (w.claimsDone + 1)..Len(w.claims) PROVE w.claims[j].name \in Claims
  <2>1. j \in 1..Len(w.claims)
    BY <1>2
  <2>2. w.claims[j] \in Provisionings
    BY <1>2, <2>1
  <2>3. QED
    BY <2>2 DEF Provisionings
<1>7. LeftToWrite(w) = Unwritten(p).volumes \cup Unwritten(p).claims
  BY <1>3 DEF LeftToWrite
<1>8. /\ Unwritten(p).volumes = {w.bindings[j].name : j \in (w.volumesDone + 1)..Len(w.bindings)}
      /\ Unwritten(p).claims = {w.claims[j].name : j \in (w.claimsDone + 1)..Len(w.claims)}
  BY <1>3, <1>4, Zenon
<1>9. Unwritten(p).volumes \subseteq Volumes /\ Unwritten(p).claims \subseteq Claims
  BY <1>5, <1>6, <1>8
<1>10. QED
  BY <1>1, <1>2, <1>7, <1>8, <1>9

(* A goroutine that polls has written everything.                          *)
LEMMA PollsExcused ==
    ASSUME LInv, BInv', Moves, NEW p \in Pods, PollSucceeds(p) \/ PollFails(p)
    PROVE  WorkComplete' /\ Excused'
<1>1. /\ UNCHANGED <<pvCache, pvcCache>> /\ UNCHANGED decisions
      /\ Polls(p) /\ bind' = [bind EXCEPT ![p] = None]
  BY DEF PollSucceeds, PollFails, caches
<1>2. OthersSame(p) /\ bind'[p] = None
  <2>1. bind \in [Pods -> Binders]
    BY DEF LInv, BInv, TypesOK
  <2>2. QED
    BY <1>1, <2>1 DEF OthersSame
<1>3. PICK w : w = bind[p]
  OBVIOUS
<1>4. w.stage = "update" /\ WorkOf(p)
  BY <1>1, <1>3 DEF Polls, LInv, WorkComplete
<1>5. /\ w.bindings \in Seq(Bindings) /\ w.claims \in Seq(Provisionings)
      /\ w.volumesDone \in Nat /\ w.claimsDone \in Nat
      /\ Unwritten(p).volumes =
                     {w.bindings[j].name : j \in (w.volumesDone + 1)..Len(w.bindings)}
      /\ Unwritten(p).claims =
                     {w.claims[j].name : j \in (w.claimsDone + 1)..Len(w.claims)}
      /\ InFlight(p) = Unwritten(p).volumes \cup Unwritten(p).claims
  BY <1>3, <1>4, UpdatingLeft, UpdatingFlight DEF LInv
<1>6. w.volumesDone = Len(w.bindings) /\ w.claimsDone = Len(w.claims)
  <2>1. w.volumesDone <= Len(w.bindings) /\ w.claimsDone <= Len(w.claims)
    BY <1>3, <1>4 DEF WorkOf
  <2>2. Len(w.bindings) \in Nat /\ Len(w.claims) \in Nat
    BY <1>5
  <2>3. ~(w.volumesDone < Len(w.bindings))
    BY <1>1, <1>3, <1>4 DEF Polls, UpdatesVolume
  <2>4. w.volumesDone = Len(w.bindings)
    BY <1>5, <2>1, <2>2, <2>3
  <2>5. ~(w.claimsDone < Len(w.claims))
    BY <1>1, <1>3, <1>4, <2>4 DEF Polls, UpdatesClaim
  <2>6. QED
    BY <1>5, <2>1, <2>2, <2>4, <2>5
<1>7. \A k \in Nat : (k + 1)..k = {}
  OBVIOUS
<1>8. InFlight(p) = {}
  BY <1>5, <1>6, <1>7
<1>9. QED
  BY <1>1, <1>2, <1>8, NothingFlew

-----------------------------------------------------------------------------
LEMMA AssumedFlight ==
    ASSUME NEW p \in Pods
    PROVE  /\ bind[p].stage = "assumed" /\ HasDecision(p, bind[p].node) =>
                 InFlight(p) = NamesIn(decisions[p][bind[p].node].bindings)
                               \cup NamesIn(decisions[p][bind[p].node].provisionings)
           /\ bind[p].stage = "assumed" /\ ~HasDecision(p, bind[p].node) => InFlight(p) = {}
  BY DEF InFlight

LEMMA BindPodVolumesExcused ==
    ASSUME LInv, BInv', Moves, NEW p \in Pods, BindPodVolumes(p)
    PROVE  WorkComplete' /\ Excused'
<1> DEFINE n == bind[p].node
           d == decisions[p][n]
           new == [stage |-> "update", node |-> n, bindings |-> d.bindings,
                   claims |-> d.provisionings, volumesDone |-> 0, claimsDone |-> 0]
<1>1. /\ UNCHANGED <<pvCache, pvcCache>> /\ bind[p].stage = "assumed" /\ decisions' = Spent(p)
      /\ bind' = [bind EXCEPT ![p] = IF HasDecision(p, n) THEN new ELSE None]
      /\ bind \in [Pods -> Binders] /\ WorkOf(p)
  BY DEF BindPodVolumes, caches, LInv, BInv, TypesOK, WorkComplete
<1>2. OthersSame(p)
  BY <1>1 DEF OthersSame, Spent
<1>3. CASE ~HasDecision(p, n)
  <2>1. bind'[p] = None /\ InFlight(p) = {}
    BY <1>1, <1>3, AssumedFlight
  <2>2. QED
    BY <1>1, <1>2, <2>1, NothingFlew
<1>4. CASE HasDecision(p, n)
  <2>1. bind'[p] = new
    BY <1>1, <1>4
  <2>2. /\ d.bindings \in Seq(Bindings) /\ d.provisionings \in Seq(Provisionings)
    BY <1>4 DEF LInv, BInv, DecisionsFollow, DecisionFollows, HasDecision
  <2>3. Complete(d.bindings, d.provisionings)
    BY <1>1, <1>4 DEF WorkOf
  <2>4. InFlight(p) = NamesIn(d.bindings) \cup NamesIn(d.provisionings)
    BY <1>1, <1>4, AssumedFlight
  <2> HIDE DEF n, d
  <2>5. WorkOf(p)'
    <3>1. /\ bind'[p].stage = "update" /\ bind'[p].bindings = d.bindings
          /\ bind'[p].claims = d.provisionings /\ bind'[p].volumesDone = 0
          /\ bind'[p].claimsDone = 0
      BY <2>1
    <3>2. 0 <= Len(d.bindings) /\ 0 <= Len(d.provisionings)
      BY <2>2
    <3>3. QED
      BY <2>3, <3>1, <3>2 DEF WorkOf, Complete
  <2>6. InFlight(p)' = NamesIn(d.bindings) \cup NamesIn(d.provisionings)
    <3>1. InFlight(p)' = LeftToWrite(new)
      BY <2>1, UpdatingFlight
    <3>2. LeftToWrite(new) = NamesIn(SubSeq(d.bindings, 0 + 1, Len(d.bindings)))
                             \cup NamesIn(SubSeq(d.provisionings, 0 + 1, Len(d.provisionings)))
      BY DEF LeftToWrite
    <3>3. ASSUME NEW S, NEW s \in Seq(S) PROVE NamesIn(SubSeq(s, 0 + 1, Len(s))) = NamesIn(s)
      <4>1. NamesIn(SubSeq(s, 0 + 1, Len(s))) = {s[j].name : j \in (0 + 1)..Len(s)}
        BY NamesLeft
      <4>2. DOMAIN s = (0 + 1)..Len(s)
        OBVIOUS
      <4>3. QED
        BY <4>1, <4>2 DEF NamesIn
    <3>4. QED
      BY <2>2, <3>1, <3>2, <3>3
  <2>7. QED
    BY <1>1, <1>2, <2>4, <2>5, <2>6, FlightKept
<1>5. QED
  BY <1>3, <1>4

LEMMA DeletePodExcused ==
    ASSUME LInv, BInv', Moves, NEW p \in Pods, DeletePod(p)
    PROVE  WorkComplete' /\ Excused'
<1>1. /\ UNCHANGED <<pvCache, pvcCache>> /\ UNCHANGED bind
      /\ decisions' = Restrict(decisions, DOMAIN decisions \ {p})
      /\ bind[p].stage = "assumed" => p \in revoked'
      /\ WorkOf(p) /\ bind[p] \in Binders
  BY DEF DeletePod, DeleteBindings, caches, LInv, WorkComplete, BInv, TypesOK
<1>2. OthersSame(p)
  BY <1>1 DEF OthersSame, Restrict
<1>3. ~HasDecision(p, bind[p].node)'
  BY <1>1 DEF HasDecision, Restrict
<1>4. WorkOf(p)'
  BY <1>1, <1>3 DEF WorkOf, Complete
<1>5. InFlight(p) \subseteq InFlight(p)' \/ p \in revoked'
  <2>1. CASE bind[p].stage = "assumed"
    BY <1>1, <2>1
  <2>2. CASE bind[p].stage = "none"
    BY <2>2 DEF InFlight
  <2>3. CASE bind[p].stage = "update"
    <3>1. bind'[p] = bind[p]
      BY <1>1
    <3>2. QED
      BY <2>3, <3>1, UpdatingFlight
  <2>4. bind[p].stage \in {"none", "assumed", "update"}
    BY <1>1 DEF Binders, None
  <2>5. QED
    BY <2>1, <2>2, <2>3, <2>4
<1>6. QED
  BY <1>1, <1>2, <1>4, <1>5, FlightKept

-----------------------------------------------------------------------------
(* An element of a list that is replaced by one of the same name.          *)
LEMMA ObjReplaced ==
    ASSUME NEW S, NEW s \in Seq(S), NEW i \in DOMAIN s, NEW o, NEW t,
           t = [s EXCEPT ![i].obj = o],
           \A x \in S : {"name", "obj"} \subseteq DOMAIN x
    PROVE  /\ DOMAIN t = DOMAIN s /\ Len(t) = Len(s) /\ Len(s) \in Nat
           /\ \A j \in DOMAIN s : t[j].name = s[j].name
           /\ \A j \in DOMAIN s : j # i => t[j] = s[j]
           /\ t[i].obj = o
<1>1. DOMAIN s = 1..Len(s) /\ Len(s) \in Nat /\ \A j \in DOMAIN s : s[j] \in S
  OBVIOUS
<1>2. DOMAIN t = DOMAIN s /\ \A j \in DOMAIN s : j # i => t[j] = s[j]
  OBVIOUS
<1>3. t[i] = [s[i] EXCEPT !.obj = o]
  OBVIOUS
<1>4. t[i].obj = o /\ t[i].name = s[i].name
  BY <1>1, <1>3
<1>5. Len(t) = Len(s)
  BY <1>1, <1>2
<1>6. QED
  BY <1>1, <1>2, <1>4, <1>5

LEMMA NamesToWrite ==
    ASSUME NEW S, NEW s \in Seq(S), NEW t, NEW k \in Nat, k + 1 \in DOMAIN s,
           Len(t) = Len(s), \A j \in DOMAIN s : t[j].name = s[j].name
    PROVE  \A x \in {s[j].name : j \in (k + 1)..Len(s)} :
               x = s[k + 1].name \/ x \in {t[j].name : j \in (k + 2)..Len(t)}
<1>1. Len(s) \in Nat /\ DOMAIN s = 1..Len(s)
  OBVIOUS
<1>2. ASSUME NEW j \in (k + 1)..Len(s), j # k + 1
      PROVE  s[j].name \in {t[m].name : m \in (k + 2)..Len(t)}
  BY <1>1, <1>2
<1>3. QED
  BY <1>2

LEMMA UpdateVolumeExcused ==
    ASSUME LInv, BInv', Moves, NEW p \in Pods, UpdateVolume(p)
    PROVE  WorkComplete' /\ Excused'
<1>1. PICK w : w = bind[p]
  OBVIOUS
<1>2. PICK i, b, o : i = w.volumesDone + 1 /\ b = w.bindings[i] /\ o = Written(pvs, b.name, b.obj)
  OBVIOUS
<1>3. /\ UNCHANGED decisions /\ UNCHANGED <<pvCache, pvcCache>>
      /\ w.stage = "update" /\ w \in Binders /\ i \in DOMAIN w.bindings
      /\ w.bindings \in Seq(Bindings) /\ b \in Bindings /\ b.obj \in VolumeObjects
      /\ b.name \in DOMAIN pvs /\ (o = pvs[b.name] \/ o.version > pvs[b.name].version)
      /\ o \in VolumeObjects /\ o.claim = b.obj.claim
      /\ pvs' = [pvs EXCEPT ![b.name] = o]
      /\ bind' = [bind EXCEPT ![p].bindings[i].obj = o, ![p].volumesDone = i]
  BY <1>1, <1>2, UpdateVolumeFacts DEF LInv
<1>4. bind \in [Pods -> Binders] /\ WorkOf(p)
  BY DEF LInv, BInv, TypesOK, WorkComplete
<1>5. OthersSame(p)
  BY <1>3, <1>4 DEF OthersSame
<1>6. PICK t : t = [w.bindings EXCEPT ![i].obj = o]
  OBVIOUS
<1>7. w \in [stage : {"update"}, node : Nodes, bindings : Seq(Bindings),
             claims : Seq(Provisionings), volumesDone : Nat, claimsDone : Nat]
  BY <1>3, UpdatingBinder
<1>8. bind'[p] = [w EXCEPT !.bindings = t, !.volumesDone = i]
  BY <1>1, <1>3, <1>4, <1>6
<1>9. /\ bind'[p].stage = "update" /\ bind'[p].bindings = t /\ bind'[p].claims = w.claims
      /\ bind'[p].volumesDone = i /\ bind'[p].claimsDone = w.claimsDone
  BY <1>7, <1>8
<1>10. /\ DOMAIN t = DOMAIN w.bindings /\ Len(t) = Len(w.bindings) /\ Len(t) \in Nat
       /\ \A j \in DOMAIN t : t[j].name = w.bindings[j].name
       /\ \A j \in DOMAIN t : j # i => t[j] = w.bindings[j]
       /\ t[i].obj = o
  <2>1. \A x \in Bindings : {"name", "obj"} \subseteq DOMAIN x
    BY DEF Bindings
  <2>2. QED
    BY <1>3, <1>6, <2>1, ObjReplaced
<1>11. /\ Complete(w.bindings, w.claims) /\ w.claimsDone <= Len(w.claims)
  BY <1>1, <1>3, <1>4 DEF WorkOf
<1>12. b.obj.full /\ b.obj.claim = b.claim
  BY <1>2, <1>3, <1>11 DEF Complete
<1>13. o.full = b.obj.full
  BY <1>2, <1>3 DEF Written, VolumeObjects
<1>14. t[i].claim = b.claim
  <2>1. t[i] = [b EXCEPT !.obj = o]
    BY <1>2, <1>3, <1>6
  <2>2. QED
    BY <1>3, <2>1 DEF Bindings
<1>15. i \in Nat /\ i <= Len(t) /\ w.volumesDone \in Nat
  <2>1. w.volumesDone \in Nat
    BY <1>7
  <2>2. PICK s : s = w.bindings
    OBVIOUS
  <2>3. s \in Seq(Bindings) /\ i \in DOMAIN s /\ Len(t) = Len(s)
    BY <1>3, <1>10, <2>2
  <2>4. QED
    BY <2>1, <2>3
<1>16. WorkOf(p)'
  <2>1. Complete(t, w.claims)
    BY <1>3, <1>10, <1>11, <1>12, <1>13, <1>14 DEF Complete
  <2>2. QED
    BY <1>9, <1>11, <1>15, <2>1 DEF WorkOf, Complete
<1>17. \A x \in InFlight(p) : x = b.name \/ x \in InFlight(p)'
  <2>1. /\ Unwritten(p).volumes =
                     {w.bindings[j].name : j \in (w.volumesDone + 1)..Len(w.bindings)}
        /\ Unwritten(p).claims = NamesIn(SubSeq(w.claims, w.claimsDone + 1, Len(w.claims)))
        /\ InFlight(p) = Unwritten(p).volumes \cup Unwritten(p).claims
    <3>1. Unwritten(p).claims = NamesIn(SubSeq(w.claims, w.claimsDone + 1, Len(w.claims)))
      BY <1>1 DEF Unwritten
    <3>2. QED
      BY <1>1, <1>3, <3>1, UpdatingLeft, UpdatingFlight DEF LInv
  <2>2. InFlight(p)' = NamesIn(SubSeq(t, i + 1, Len(t)))
                       \cup NamesIn(SubSeq(w.claims, w.claimsDone + 1, Len(w.claims)))
    BY <1>9, UpdatingFlight DEF LeftToWrite
  <2>3. NamesIn(SubSeq(t, i + 1, Len(t))) = {t[j].name : j \in (i + 1)..Len(t)}
    <3>1. bind'[p] \in Binders
      BY DEF BInv, TypesOK
    <3>2. t \in Seq(Bindings)
      BY <1>9, <3>1, UpdatingBinder
    <3>3. QED
      BY <1>15, <3>2, NamesLeft
  <2>4. \A x \in {w.bindings[j].name : j \in (w.volumesDone + 1)..Len(w.bindings)} :
            x = b.name \/ x \in {t[j].name : j \in (w.volumesDone + 2)..Len(t)}
    <3>1. PICK s, k : s = w.bindings /\ k = w.volumesDone
      OBVIOUS
    <3>2. s \in Seq(Bindings) /\ k \in Nat /\ k + 1 \in DOMAIN s /\ s[k + 1] = b
      BY <1>2, <1>3, <1>15, <3>1
    <3>3. Len(t) = Len(s) /\ \A j \in DOMAIN s : t[j].name = s[j].name
      BY <1>10, <3>1
    <3>4. QED
      BY <3>1, <3>2, <3>3, NamesToWrite
  <2>5. w.volumesDone + 2 = i + 1
    BY <1>2, <1>15
  <2>6. QED
    BY <2>1, <2>2, <2>3, <2>4, <2>5
<1>18. b.name \in AssumedNames(pvCache) => pvs'[b.name].version > pvCache[b.name].api.version
  <2> DEFINE v == b.name
             shown == pvCache[v].api
  <2>1. SUFFICES ASSUME v \in AssumedNames(pvCache) PROVE o.version > shown.version
    BY <1>3
  <2>2. v \in DOMAIN pvCache /\ pvCache[v].latest # shown
    BY <2>1 DEF AssumedNames
  <2>3. /\ shown.version <= pvs[v].version /\ shown.version \in Nat /\ pvs[v].version \in Nat
        /\ shown.version = pvs[v].version => shown = pvs[v]
        /\ ~shown.full
    <3>1. shown \in VolumeObjects /\ pvs[v] \in VolumeObjects
      BY <2>2, CachedVolume DEF LInv, BInv
    <3>2. shown.version <= pvs[v].version
      BY <2>2 DEF LInv, BInv, CachesFollow, VolumeFollows
    <3>3. shown.version = pvs[v].version => shown = pvs[v]
      BY <2>2 DEF LInv, ApiTrue
    <3>4. ~shown.full
      BY <2>2 DEF LInv, FullIsFinal, CacheFinal
    <3>5. shown.version \in Nat /\ pvs[v].version \in Nat
      BY <3>1 DEF VolumeObjects
    <3>6. QED
      BY <3>2, <3>3, <3>4, <3>5
  <2>4. o.version \in Nat
    BY <1>3 DEF VolumeObjects
  <2>5. CASE o.version > pvs[v].version
    BY <2>3, <2>4, <2>5
  <2> HIDE DEF shown
  <2>6. CASE o = pvs[v]
    <3>1. pvs[v].full
      BY <1>12, <1>13, <2>6
    <3>2. shown # pvs[v]
      BY <2>3, <3>1
    <3>3. QED
      BY <2>3, <2>6, <3>2
  <2>7. QED
    BY <1>3, <2>5, <2>6
<1>19. \A v \in AssumedNames(pvCache') : VolumeKept(v, p)
  BY <1>3, <1>17, <1>18 DEF VolumeKept
<1>20. \A c \in AssumedNames(pvcCache') : ClaimKept(c, p)
  <2>1. b.name \notin Claims /\ \A c \in AssumedNames(pvcCache) : c \in Claims
    BY <1>3, VolumeAssumption DEF Bindings, AssumedNames, LInv, BInv, TypesOK
  <2>2. QED
    BY <1>3, <1>17, <2>1 DEF ClaimKept
<1>21. QED
  BY <1>5, <1>16, <1>19, <1>20, StillExcused DEF LInv

LEMMA UpdateClaimExcused ==
    ASSUME LInv, BInv', Moves, NEW p \in Pods, UpdateClaim(p)
    PROVE  WorkComplete' /\ Excused'
<1>1. PICK w : w = bind[p]
  OBVIOUS
<1>2. PICK i, b, o : i = w.claimsDone + 1 /\ b = w.claims[i] /\ o = Written(pvcs, b.name, b.obj)
  OBVIOUS
<1>3. /\ UNCHANGED decisions /\ UNCHANGED <<pvCache, pvcCache>>
      /\ w.stage = "update" /\ w \in Binders /\ i \in DOMAIN w.claims
      /\ w.claims \in Seq(Provisionings) /\ b \in Provisionings /\ b.obj \in ClaimObjects
      /\ b.name \in DOMAIN pvcs /\ (o = pvcs[b.name] \/ o.version > pvcs[b.name].version)
      /\ o \in ClaimObjects /\ o.selected = b.obj.selected
      /\ pvcs' = [pvcs EXCEPT ![b.name] = o]
      /\ bind' = [bind EXCEPT ![p].claims[i].obj = o, ![p].claimsDone = i]
  BY <1>1, <1>2, UpdateClaimFacts DEF LInv
<1>4. bind \in [Pods -> Binders] /\ WorkOf(p)
  BY DEF LInv, BInv, TypesOK, WorkComplete
<1>5. OthersSame(p)
  BY <1>3, <1>4 DEF OthersSame
<1>6. PICK t : t = [w.claims EXCEPT ![i].obj = o]
  OBVIOUS
<1>7. w \in [stage : {"update"}, node : Nodes, bindings : Seq(Bindings),
             claims : Seq(Provisionings), volumesDone : Nat, claimsDone : Nat]
  BY <1>3, UpdatingBinder
<1>8. bind'[p] = [w EXCEPT !.claims = t, !.claimsDone = i]
  BY <1>1, <1>3, <1>4, <1>6
<1>9. /\ bind'[p].stage = "update" /\ bind'[p].claims = t /\ bind'[p].bindings = w.bindings
      /\ bind'[p].claimsDone = i /\ bind'[p].volumesDone = w.volumesDone
  BY <1>7, <1>8
<1>10. /\ DOMAIN t = DOMAIN w.claims /\ Len(t) = Len(w.claims) /\ Len(t) \in Nat
       /\ \A j \in DOMAIN t : t[j].name = w.claims[j].name
       /\ \A j \in DOMAIN t : j # i => t[j] = w.claims[j]
       /\ t[i].obj = o
  <2>1. \A x \in Provisionings : {"name", "obj"} \subseteq DOMAIN x
    BY DEF Provisionings
  <2>2. QED
    BY <1>3, <1>6, <2>1, ObjReplaced
<1>11. Complete(w.bindings, w.claims) /\ w.volumesDone <= Len(w.bindings)
  BY <1>1, <1>3, <1>4 DEF WorkOf
<1>12. o.selected # Nil
  BY <1>2, <1>3, <1>11 DEF Complete
<1>15. i \in Nat /\ i <= Len(t) /\ w.claimsDone \in Nat
  <2>1. w.claimsDone \in Nat
    BY <1>7
  <2>2. PICK s : s = w.claims
    OBVIOUS
  <2>3. s \in Seq(Provisionings) /\ i \in DOMAIN s /\ Len(t) = Len(s)
    BY <1>3, <1>10, <2>2
  <2>4. QED
    BY <2>1, <2>3
<1>16. WorkOf(p)'
  <2>1. Complete(w.bindings, t)
    BY <1>3, <1>10, <1>11, <1>12 DEF Complete
  <2>2. QED
    BY <1>9, <1>11, <1>15, <2>1 DEF WorkOf, Complete
<1>17. \A x \in InFlight(p) : x = b.name \/ x \in InFlight(p)'
  <2>1. /\ Unwritten(p).claims =
                     {w.claims[j].name : j \in (w.claimsDone + 1)..Len(w.claims)}
        /\ Unwritten(p).volumes = NamesIn(SubSeq(w.bindings, w.volumesDone + 1, Len(w.bindings)))
        /\ InFlight(p) = Unwritten(p).volumes \cup Unwritten(p).claims
    <3>1. Unwritten(p).volumes = NamesIn(SubSeq(w.bindings, w.volumesDone + 1, Len(w.bindings)))
      BY <1>1 DEF Unwritten
    <3>2. QED
      BY <1>1, <1>3, <3>1, UpdatingLeft, UpdatingFlight DEF LInv
  <2>2. InFlight(p)' = NamesIn(SubSeq(w.bindings, w.volumesDone + 1, Len(w.bindings)))
                       \cup NamesIn(SubSeq(t, i + 1, Len(t)))
    BY <1>9, UpdatingFlight DEF LeftToWrite
  <2>3. NamesIn(SubSeq(t, i + 1, Len(t))) = {t[j].name : j \in (i + 1)..Len(t)}
    <3>1. bind'[p] \in Binders
      BY DEF BInv, TypesOK
    <3>2. t \in Seq(Provisionings)
      BY <1>9, <3>1, UpdatingBinder
    <3>3. QED
      BY <1>15, <3>2, NamesLeft
  <2>4. \A x \in {w.claims[j].name : j \in (w.claimsDone + 1)..Len(w.claims)} :
            x = b.name \/ x \in {t[j].name : j \in (w.claimsDone + 2)..Len(t)}
    <3>1. PICK s, k : s = w.claims /\ k = w.claimsDone
      OBVIOUS
    <3>2. s \in Seq(Provisionings) /\ k \in Nat /\ k + 1 \in DOMAIN s /\ s[k + 1] = b
      BY <1>2, <1>3, <1>15, <3>1
    <3>3. Len(t) = Len(s) /\ \A j \in DOMAIN s : t[j].name = s[j].name
      BY <1>10, <3>1
    <3>4. QED
      BY <3>1, <3>2, <3>3, NamesToWrite
  <2>5. w.claimsDone + 2 = i + 1
    BY <1>2, <1>15
  <2>6. QED
    BY <2>1, <2>2, <2>3, <2>4, <2>5
<1>18. b.name \in AssumedNames(pvcCache) => pvcs'[b.name].version > pvcCache[b.name].api.version
  <2> DEFINE c == b.name
             shown == pvcCache[c].api
             latest == pvcCache[c].latest
  <2>1. SUFFICES ASSUME c \in AssumedNames(pvcCache) PROVE o.version > shown.version
    BY <1>3
  <2>2. c \in DOMAIN pvcCache /\ c \in DOMAIN pvcs /\ latest # shown
    BY <1>3, <2>1 DEF AssumedNames
  <2>3. shown \in ClaimObjects /\ latest \in ClaimObjects /\ pvcs[c] \in ClaimObjects
    BY <2>2, CachedClaim DEF LInv, BInv, TypesOK
  <2>4. /\ shown.version <= pvcs[c].version
        /\ shown.version = pvcs[c].version => shown = pvcs[c]
        /\ ClaimFollows(latest, shown) /\ latest.version = shown.version
    BY <2>2 DEF LInv, BInv, CachesFollow, ApiTrue
  <2> HIDE DEF shown, latest
  <2>5. shown.selected = Nil
    <3>1. /\ latest.volume = shown.volume /\ latest.completed = shown.completed
          /\ shown.selected \in {Nil, latest.selected}
      BY <2>4 DEF ClaimFollows
    <3>2. QED
      BY <2>2, <2>3, <2>4, <3>1 DEF ClaimObjects, shown, latest
  <2>6. CASE o.version > pvcs[c].version
    BY <1>3, <2>3, <2>4, <2>6 DEF ClaimObjects
  <2>7. CASE o = pvcs[c]
    BY <1>12, <2>3, <2>4, <2>5, <2>7 DEF ClaimObjects
  <2>8. QED
    BY <1>3, <2>6, <2>7
<1>19. \A c \in AssumedNames(pvcCache') : ClaimKept(c, p)
  BY <1>3, <1>17, <1>18 DEF ClaimKept
<1>20. \A v \in AssumedNames(pvCache') : VolumeKept(v, p)
  <2>1. b.name \notin Volumes /\ \A v \in AssumedNames(pvCache) : v \in Volumes
    BY <1>3, VolumeAssumption DEF Provisionings, AssumedNames, LInv, BInv, TypesOK
  <2>2. QED
    BY <1>3, <1>17, <2>1 DEF VolumeKept
<1>21. QED
  BY <1>5, <1>16, <1>19, <1>20, StillExcused DEF LInv

-----------------------------------------------------------------------------
LEMMA UpdateFailsExcused ==
    ASSUME LInv, BInv', Moves, NEW p \in Pods, UpdateFails(p)
    PROVE  WorkComplete' /\ Excused'
<1>1. PICK vs, cs : vs = Unwritten(p).volumes /\ cs = Unwritten(p).claims
  OBVIOUS
<1>2. /\ UNCHANGED decisions /\ bind' = [bind EXCEPT ![p] = None]
      /\ pvCache' = CacheRestore(pvCache, vs) /\ pvcCache' = CacheRestore(pvcCache, cs)
      /\ bind[p].stage = "update" /\ bind \in [Pods -> Binders]
  BY <1>1 DEF UpdateFails, Revert, UpdatesVolume, UpdatesClaim, LInv, BInv, TypesOK
<1>3. OthersSame(p) /\ bind'[p] = None
  BY <1>2 DEF OthersSame
<1>4. InFlight(p) = vs \cup cs /\ vs \subseteq Volumes /\ cs \subseteq Claims
  BY <1>1, <1>2, UpdatingLeft, UpdatingFlight DEF LInv
<1>5. \A v \in AssumedNames(pvCache') :
          v \in AssumedNames(pvCache) /\ v \notin vs /\ pvCache'[v] = pvCache[v]
  BY <1>2 DEF CacheRestore, Both, AssumedNames
<1>6. \A c \in AssumedNames(pvcCache') :
          c \in AssumedNames(pvcCache) /\ c \notin cs /\ pvcCache'[c] = pvcCache[c]
  BY <1>2 DEF CacheRestore, Both, AssumedNames
<1>7. /\ \A v \in AssumedNames(pvCache) : v \in Volumes
      /\ \A c \in AssumedNames(pvcCache) : c \in Claims
      /\ Volumes \cap Claims = {}
  BY VolumeAssumption DEF AssumedNames, LInv, BInv, TypesOK
<1>8. \A v \in AssumedNames(pvCache') : VolumeKept(v, p)
  BY <1>4, <1>5, <1>7 DEF VolumeKept
<1>9. \A c \in AssumedNames(pvcCache') : ClaimKept(c, p)
  BY <1>4, <1>6, <1>7 DEF ClaimKept
<1>10. QED
  BY <1>3, <1>8, <1>9, NoneFliesNext, StillExcused DEF LInv

-----------------------------------------------------------------------------
(* What AssumePodVolumes assumes is in flight for its pod from then on.    *)
LEMMA AssumedIsExcused ==
    ASSUME LInv, BInv', Moves, NEW p \in Pods, OthersSame(p), InFlight(p) = {}, WorkOf(p)',
           VolumesShow(pvCache'), ClaimsShow(pvcCache'),
           NEW bs, AssumedAmong(pvCache', pvCache, bs),
           NEW cs, AssumedAmong(pvcCache', pvcCache, cs),
           \A i \in DOMAIN bs : /\ bs[i].name \in InFlight(p)' /\ bs[i].claim \in uses[p]
                                /\ bs[i].obj.claim = bs[i].claim,
           \A i \in DOMAIN cs : cs[i].name \in InFlight(p)' /\ cs[i].name \in uses[p]
    PROVE  WorkComplete' /\ Excused'
<1>1. uses' = uses
  BY DEF Moves
<1>2. ASSUME NEW v \in AssumedNames(pvCache') PROVE VolumeExcused(v)' \/ VolumeKept(v, p)
  <2>1. v \in DOMAIN pvCache /\ pvCache'[v].api = pvCache[v].api
        /\ pvCache'[v].latest # pvCache'[v].api
    BY DEF VolumesShow, AssumedNames
  <2>2. CASE pvCache'[v].latest = pvCache[v].latest
    BY <2>1, <2>2 DEF VolumeKept, AssumedNames
  <2>3. ASSUME NEW i \in DOMAIN bs, AssumedFrom(bs, i, v, pvCache'[v].latest)
        PROVE  VolumeExcused(v)'
    <3>1. bs[i].name = v /\ bs[i].obj = pvCache'[v].latest
      BY <2>3 DEF AssumedFrom
    <3>2. v \in InFlight(p)' /\ pvCache'[v].latest.claim \in uses'[p]
      BY <1>1, <2>3, <3>1
    <3>3. QED
      BY <3>2 DEF VolumeExcused, LatestVolume, GetLatest
  <2>4. QED
    BY <2>1, <2>2, <2>3 DEF AssumedAmong
<1>3. ASSUME NEW c \in AssumedNames(pvcCache') PROVE ClaimExcused(c)' \/ ClaimKept(c, p)
  <2>1. c \in DOMAIN pvcCache /\ pvcCache'[c].api = pvcCache[c].api
        /\ pvcCache'[c].latest # pvcCache'[c].api
    BY DEF ClaimsShow, AssumedNames
  <2>2. CASE pvcCache'[c].latest = pvcCache[c].latest
    BY <2>1, <2>2 DEF ClaimKept, AssumedNames
  <2>3. ASSUME NEW i \in DOMAIN cs, AssumedFrom(cs, i, c, pvcCache'[c].latest)
        PROVE  ClaimExcused(c)'
    <3>1. cs[i].name = c
      BY <2>3 DEF AssumedFrom
    <3>2. c \in InFlight(p)' /\ c \in uses'[p]
      BY <1>1, <2>3, <3>1
    <3>3. QED
      BY <3>2 DEF ClaimExcused
  <2>4. QED
    BY <2>1, <2>2, <2>3 DEF AssumedAmong
<1>4. QED
  BY <1>2, <1>3, StillExcused DEF LInv

LEMMA AssumeExcused ==
    ASSUME LInv, BInv', Moves, NEW n \in Nodes, AssumePodVolumes(n)
    PROVE  WorkComplete' /\ Excused'
<1>1. PICK p, bs, cs : p = loop.pod /\ bs = NewBindings(p, n) /\ cs = NewProvisionedPVCs(p, n)
  OBVIOUS
<1>2. /\ p \in Pods /\ p # Nil
      /\ \/ UNCHANGED <<pvCache, pvcCache, bind>> /\ decisions' = Spent(p)
         \/ /\ VolumesShow(pvCache') /\ ClaimsShow(pvcCache')
            /\ \/ /\ decisions' = Put(decisions, p, Put(<<>>, n,
                                      [bindings |-> bs, provisionings |-> cs]))
                  /\ bind' = [bind EXCEPT ![p] = [stage |-> "assumed", node |-> n]]
                  /\ AssumedAmong(pvCache', pvCache, bs)
                  /\ AssumedAmong(pvcCache', pvcCache, cs)
               \/ /\ decisions' = Spent(p) /\ UNCHANGED bind
                  /\ AssumedAmong(pvCache', pvCache, <<>>)
                  /\ AssumedAmong(pvcCache', pvcCache, <<>>)
  BY <1>1, AssumeOutcome DEF LInv
<1>3. bind[p] = None /\ InFlight(p) = {}
  BY <1>1, <1>2, NoneFlies DEF LInv, LoopAlone
<1>4. ASSUME decisions' = Spent(p), UNCHANGED bind PROVE OthersSame(p)
  BY <1>4 DEF Spent, OthersSame
<1>5. CASE UNCHANGED <<pvCache, pvcCache, bind>> /\ decisions' = Spent(p)
  BY <1>2, <1>3, <1>4, <1>5, NothingFlew
<1>6. CASE /\ VolumesShow(pvCache') /\ ClaimsShow(pvcCache')
           /\ decisions' = Spent(p) /\ UNCHANGED bind
           /\ AssumedAmong(pvCache', pvCache, <<>>)
           /\ AssumedAmong(pvcCache', pvcCache, <<>>)
  <2>1. DOMAIN <<>> = {}
    OBVIOUS
  <2>2. PICK none : none = <<>> /\ DOMAIN none = {}
    BY <2>1
  <2>3. WorkOf(p)'
    BY <1>3, <1>6, NoneFliesNext
  <2>4. /\ AssumedAmong(pvCache', pvCache, none)
        /\ AssumedAmong(pvcCache', pvcCache, none)
    BY <1>6, <2>2
  <2>5. /\ \A i \in DOMAIN none : /\ none[i].name \in InFlight(p)' /\ none[i].claim \in uses[p]
                                /\ none[i].obj.claim = none[i].claim
        /\ \A i \in DOMAIN none : none[i].name \in InFlight(p)' /\ none[i].name \in uses[p]
    BY <2>2
  <2>6. QED
    BY <1>2, <1>3, <1>4, <1>6, <2>3, <2>4, <2>5, AssumedIsExcused
<1>7. CASE /\ VolumesShow(pvCache') /\ ClaimsShow(pvcCache')
           /\ decisions' = Put(decisions, p, Put(<<>>, n, [bindings |-> bs, provisionings |-> cs]))
           /\ bind' = [bind EXCEPT ![p] = [stage |-> "assumed", node |-> n]]
           /\ AssumedAmong(pvCache', pvCache, bs)
           /\ AssumedAmong(pvcCache', pvcCache, cs)
  <2> DEFINE d == [bindings |-> bs, provisionings |-> cs]
  <2>1. bind \in [Pods -> Binders]
    BY DEF LInv, BInv, TypesOK
  <2>2. OthersSame(p)
    BY <1>7, <2>1 DEF OthersSame, Put
  <2>3. bind'[p].stage = "assumed" /\ bind'[p].node = n
    BY <1>2, <1>7, <2>1
  <2>4. p \in DOMAIN decisions' /\ n \in DOMAIN decisions'[p] /\ decisions'[p][n] = d
    BY <1>7 DEF Put
  <2>5. d.bindings = bs /\ d.provisionings = cs
    OBVIOUS
  <2> HIDE DEF d
  <2>6. InFlight(p)' = NamesIn(bs) \cup NamesIn(cs)
    BY <2>3, <2>4, <2>5 DEF InFlight, HasDecision, NamesIn
  <2>7. /\ \A i \in DOMAIN bs : bs[i].claim \in uses[p] /\ bs[i].obj.full
                                 /\ bs[i].obj.claim = bs[i].claim
        /\ \A i \in DOMAIN cs : cs[i].name \in uses[p] /\ cs[i].obj.selected # Nil
    BY <1>1, <1>2, NewBindingsFinal, NewClaimsOwn DEF LInv, FullIsFinal
  <2>8. WorkOf(p)'
    BY <2>3, <2>4, <2>5, <2>7 DEF WorkOf, Complete
  <2>9. /\ \A i \in DOMAIN bs : bs[i].name \in InFlight(p)'
        /\ \A i \in DOMAIN cs : cs[i].name \in InFlight(p)'
    BY <2>6 DEF NamesIn
  <2>10. QED
    BY <1>2, <1>3, <1>7, <2>2, <2>7, <2>8, <2>9, AssumedIsExcused
<1>8. QED
  BY <1>2, <1>5, <1>6, <1>7

LEMMA RestartExcused ==
    ASSUME Restart
    PROVE  WorkComplete' /\ Excused'
<1>1. AssumedNames(pvCache') = {} /\ AssumedNames(pvcCache') = {}
  BY DEF Restart, Listed, Both, AssumedNames
<1>2. \A p \in Pods : bind'[p] = None
  BY DEF Restart
<1>3. QED
  BY <1>1, <1>2, NoneFliesNext DEF WorkComplete, Excused

-----------------------------------------------------------------------------
LEMMA StepExcused ==
    ASSUME LInv, BInv', Moves, [Next]_vars
    PROVE  WorkComplete' /\ Excused'
<1>1. ASSUME \/ UNCHANGED vars
             \/ \E v \in Volumes : \/ ControllerTakesVolume(v) \/ ControllerBindsClaim(v)
                                   \/ ControllerUnbinds(v)
             \/ \E c \in Claims : \/ ProvisioningFails(c) \/ DeleteClaim(c)
                                  \/ \E v \in Volumes : Provision(c, v)
      PROVE  UNCHANGED <<pvCache, pvcCache>> /\ UNCHANGED <<bind, decisions>>
  BY <1>1 DEF vars, caches, ControllerTakesVolume, ControllerBindsClaim, ControllerUnbinds,
              ProvisioningFails, DeleteClaim, Provision
<1>2. ASSUME \/ (\E v \in Volumes : ShowVolume(v)) \/ (\E c \in Claims : ShowClaim(c))
      PROVE  WorkComplete' /\ Excused'
  BY <1>2, ShowsExcused
<1>3. ASSUME \/ \E p \in Pods : TakePod(p)
             \/ \E n \in Nodes : FindPodVolumes(n)
             \/ FindsNone
      PROVE  WorkComplete' /\ Excused'
  BY <1>3, LoopStepsExcused
<1>4. ASSUME NEW p \in Pods,
             \/ BindPodVolumes(p) \/ UpdateVolume(p) \/ UpdateClaim(p) \/ UpdateFails(p)
             \/ PollSucceeds(p) \/ PollFails(p) \/ DeletePod(p)
      PROVE  WorkComplete' /\ Excused'
  BY <1>4, BindPodVolumesExcused, UpdateVolumeExcused, UpdateClaimExcused, UpdateFailsExcused,
     PollsExcused, DeletePodExcused
<1>5. ASSUME NEW n \in Nodes, AssumePodVolumes(n) PROVE WorkComplete' /\ Excused'
  BY <1>5, AssumeExcused
<1>6. QED
  BY <1>1, <1>2, <1>3, <1>4, <1>5, RestartExcused, WorldStepsExcused, Zenon DEF Next

LEMMA LInitHolds == Init => LInv
<1> SUFFICES ASSUME Init PROVE LInv
  OBVIOUS
<1>1. BInv
  BY InitHolds
<1>2. /\ pvCache = [v \in DOMAIN pvs |-> [latest |-> pvs[v], api |-> pvs[v]]]
      /\ pvcCache = [c \in DOMAIN pvcs |-> [latest |-> pvcs[c], api |-> pvcs[c]]]
      /\ decisions = <<>> /\ DOMAIN decisions = {} /\ loop = Idle /\ bind = [p \in Pods |-> None]
  BY DEF Init, Listed, Both
<1>3. ApiTrue
  <2>1. \A c \in DOMAIN pvcs : pvcs[c].version <= pvcs[c].version
    BY <1>1 DEF BInv, TypesOK, ClaimObjects
  <2>2. QED
    BY <1>2, <2>1 DEF ApiTrue
<1>4. FullIsFinal /\ LoopAlone /\ DecisionsOwn
  BY <1>2 DEF FullIsFinal, CacheFinal, DecisionsFinal, LoopAlone, Idle, DecisionsOwn
<1>5. WorkComplete
  BY <1>2, NoneFlies DEF WorkComplete
<1>6. Excused
  BY <1>2 DEF Excused, AssumedNames
<1>7. QED
  BY <1>1, <1>3, <1>4, <1>5, <1>6 DEF LInv

LEMMA LStepHolds == LInv /\ [Next]_vars => LInv'
<1> SUFFICES ASSUME LInv, [Next]_vars PROVE LInv'
  OBVIOUS
<1>1. BInv'
  BY StepHolds DEF LInv
<1>2. Moves
  BY StepMoves DEF LInv
<1>3. ApiTrue'
  BY <1>1, <1>2, ApiStaysTrue DEF LInv, Moves
<1>4. CacheFinal'
  BY <1>1, CacheStaysFinal
<1>5. DecisionsFinal' /\ DecisionsOwn'
  BY <1>1, <1>2, DecisionsKeptGood
<1>6. LoopAlone'
  BY LoopStaysAlone DEF LInv
<1>7. WorkComplete' /\ Excused'
  BY <1>1, <1>2, StepExcused
<1>8. QED
  BY <1>1, <1>3, <1>4, <1>5, <1>6, <1>7 DEF LInv, FullIsFinal

LEMMA ExcusedDoNotLeak == LInv => NoAssumptionLeaks
  BY DEF LInv, Excused, VolumeExcused, ClaimExcused, NoAssumptionLeaks

(* Whatever is assumed of a volume or a claim is about to be written for a  *)
(* pod, has been written, or is one that a pod left that was deleted        *)
(* between AssumePodVolumes and BindPodVolumes: a failed binding of any     *)
(* number of pods leaves nothing behind in the caches.                      *)
THEOREM AssumptionsDoNotLeak == Spec => []NoAssumptionLeaks
<1>1. Init => LInv
  BY LInitHolds
<1>2. LInv /\ [Next]_vars => LInv'
  BY LStepHolds
<1>3. LInv => NoAssumptionLeaks
  BY ExcusedDoNotLeak
<1>4. QED
  BY <1>1, <1>2, <1>3, PTL DEF Spec

-----------------------------------------------------------------------------
(* A claim that needs nothing more: it has gone, or has a volume that the  *)
(* node reaches.                                                           *)
Settled(c, n) ==
    c \in DOMAIN pvcs => pvcs[c].volume # Nil /\ CheckNodeAffinity(pvcs[c].volume, n)

(* Every claim of the pod is settled, or among what is to be written.      *)
Covered(p, n, bindings, claims) ==
    \A c \in uses[p] :
        \/ \E i \in DOMAIN bindings : bindings[i].claim = c
        \/ \E i \in DOMAIN claims : claims[i].name = c
        \/ Settled(c, n)

CoveredBy(p, n) ==
    IF HasDecision(p, n)
    THEN LET d == decisions[p][n] IN Covered(p, n, d.bindings, d.provisionings)
    ELSE Covered(p, n, <<>>, <<>>)

LoopCovers ==
    loop.pod # Nil /\ loop.pod \notin deleted =>
        \A n \in loop.fit : n \notin loop.left /\ CoveredBy(loop.pod, n)

BinderCovers(p) ==
    /\ bind[p].stage = "assumed" /\ HasDecision(p, bind[p].node) => CoveredBy(p, bind[p].node)
    /\ bind[p].stage = "update" =>
          Covered(p, bind[p].node, bind[p].bindings, bind[p].claims)

BindersCover == \A p \in Pods \ deleted : BinderCovers(p)

(* The volume of a claim refers to it, and stays its volume.               *)
ClaimsBoundTo ==
    \A c \in DOMAIN pvcs : pvcs[c].volume # Nil =>
        pvcs[c].volume \in DOMAIN pvs /\ pvs[pvcs[c].volume].claim = c

VolumeShownRight ==
    \A c \in DOMAIN pvcs : pvcCache[c].api.volume # Nil => pvcs[c].volume = pvcCache[c].api.volume

BinderClaimsFollow ==
    \A p \in Pods : bind[p].stage = "update" =>
        \A i \in DOMAIN bind[p].claims :
            bind[p].claims[i].name \in DOMAIN pvcs =>
                ClaimFollows(bind[p].claims[i].obj, pvcs[bind[p].claims[i].name])

(* A volume that has been written for a claim is the only one that refers  *)
(* to it, unless there were two at a time.                                 *)
Alone(claim, name) ==
    claim \in DOMAIN pvcs \ twice => \A v \in DOMAIN pvs : (pvs[v].claim = claim) <=> (v = name)

WrittenAlone ==
    \A p \in Pods : bind[p].stage = "update" =>
        \A j \in 1..bind[p].volumesDone :
            j \in DOMAIN bind[p].bindings =>
                Alone(bind[p].bindings[j].claim, bind[p].bindings[j].name)

RInv ==
    /\ LInv /\ ClaimsBoundTo /\ VolumeShownRight /\ BinderClaimsFollow /\ WrittenAlone
    /\ LoopCovers /\ BindersCover

-----------------------------------------------------------------------------
(* What FindPodVolumes finds usable covers all claims of the pod.          *)
LEMMA InBoth ==
    ASSUME NEW S, NEW s \in Seq(S), NEW u \in Seq(S)
    PROVE  /\ \A i \in DOMAIN s : i \in DOMAIN (s \o u) /\ (s \o u)[i] = s[i]
           /\ \A i \in DOMAIN u : Len(s) + i \in DOMAIN (s \o u) /\ (s \o u)[Len(s) + i] = u[i]
<1>1. DOMAIN s = 1..Len(s) /\ DOMAIN u = 1..Len(u) /\ Len(s) \in Nat /\ Len(u) \in Nat
  OBVIOUS
<1>0. /\ DOMAIN (s \o u) = 1..(Len(s) + Len(u))
      /\ \A i \in 1..(Len(s) + Len(u)) : (s \o u)[i] = IF i <= Len(s) THEN s[i] ELSE u[i - Len(s)]
  OBVIOUS
<1>2. PICK m, n \in Nat : m = Len(s) /\ n = Len(u)
  BY <1>1
<1>3. PICK q : q = s \o u
  OBVIOUS
<1>4. \A i \in 1..n : (m + i) - m = i /\ m + i \in 1..(m + n) /\ ~(m + i <= m)
  BY <1>2
<1>5. /\ DOMAIN q = 1..(m + n)
      /\ \A i \in 1..(m + n) : q[i] = IF i <= m THEN s[i] ELSE u[i - m]
  BY <1>0, <1>2, <1>3
<1>6. \A i \in 1..m : i \in DOMAIN q /\ q[i] = s[i]
  BY <1>2, <1>5
<1>7. \A i \in 1..n : m + i \in DOMAIN q /\ q[m + i] = u[i]
  BY <1>4, <1>5
<1>8. QED
  BY <1>1, <1>2, <1>3, <1>6, <1>7

LEMMA UnboundAnswered ==
    ASSUME TypesOK, NEW claims \in SUBSET (DOMAIN pvcCache), NEW n,
           NEW r \in FindForUnbound(claims, n), r.code = "yes"
    PROVE  \A c \in claims : \/ \E i \in DOMAIN r.bindings : r.bindings[i].claim = c
                             \/ \E i \in DOMAIN r.provisionings : r.provisionings[i] = c
<1> DEFINE chosen == Selected(claims)
           rest == claims \ chosen
           lists == ListsFor(claims)
<1>0. IsFiniteSet(claims) /\ IsFiniteSet(chosen) /\ IsFiniteSet(rest)
  BY FS_Subset, VolumeAssumption DEF TypesOK, Selected
<1>1. PICK m \in FindMatchingVolumes(rest, n, lists) :
         r.bindings = m.bindings /\ r.provisionings = SetToSeq(chosen) \o m.unbound
  <2>1. Nothing("no").code = "no"
    BY DEF Nothing
  <2>2. r \in {WithProvisions(m, claims, n) : m \in FindMatchingVolumes(rest, n, lists)}
    BY <2>1 DEF FindForUnbound
  <2>3. PICK m \in FindMatchingVolumes(rest, n, lists) : r = WithProvisions(m, claims, n)
    BY <2>2
  <2>4. QED
    BY <2>3 DEF WithProvisions
<1>2. \A c \in claims : lists[ClaimSpec(c).class] = ListPVs(ClaimSpec(c).class)
  BY DEF ListsFor
<1>3. \A k : DOMAIN ListPVs(k) \subseteq DOMAIN pvCache
  BY DEF ListPVs
<1>4. ListsVolumes(rest, lists)
  BY <1>2, <1>3 DEF ListsVolumes, TypesOK
<1> HIDE DEF lists
<1>5. m \in Matches(rest, lists) /\ Answers(m, rest)
  BY <1>0, <1>1, <1>4, MatchesAnswer
<1>6. SetToSeq(chosen) \in Seq(chosen) /\ m.unbound \in Seq(rest)
  BY <1>0, <1>5, ElementsInSeq DEF Matches
<1>7. \A c \in chosen : \E i \in DOMAIN SetToSeq(chosen) : SetToSeq(chosen)[i] = c
  BY <1>0, ElementsListed
<1>8. PICK s, u : s = SetToSeq(chosen) /\ u = m.unbound /\ r.provisionings = s \o u
  BY <1>1
<1>9a. /\ \A i \in DOMAIN s : i \in DOMAIN (s \o u) /\ (s \o u)[i] = s[i]
       /\ \A i \in DOMAIN u : Len(s) + i \in DOMAIN (s \o u) /\ (s \o u)[Len(s) + i] = u[i]
  <2>1. s \in Seq(claims) /\ u \in Seq(claims)
    <3>1. chosen \subseteq claims /\ rest \subseteq claims
      BY DEF Selected
    <3> HIDE DEF chosen, rest
    <3>2. QED
      BY <1>6, <1>8, <3>1, SeqWider
  <2>2. PICK S : S = claims
    OBVIOUS
  <2>3. s \in Seq(S) /\ u \in Seq(S)
    BY <2>1, <2>2
  <2> HIDE DEF chosen, rest
  <2>4. \A i \in DOMAIN s : i \in DOMAIN (s \o u) /\ (s \o u)[i] = s[i]
    BY <2>3, InBoth
  <2>5. \A i \in DOMAIN u : Len(s) + i \in DOMAIN (s \o u) /\ (s \o u)[Len(s) + i] = u[i]
    BY <2>3, InBoth
  <2>6. QED
    BY <2>4, <2>5, Zenon
<1>9b. PICK q : q = s \o u
  OBVIOUS
<1>9. /\ q = s \o u
      /\ \A i \in DOMAIN s : i \in DOMAIN q /\ q[i] = s[i]
      /\ \A i \in DOMAIN u : Len(s) + i \in DOMAIN q /\ q[Len(s) + i] = u[i]
  BY <1>9a, <1>9b, Zenon
<1>10. ASSUME NEW c \in claims
       PROVE  \/ \E i \in DOMAIN r.bindings : r.bindings[i].claim = c
              \/ \E i \in DOMAIN r.provisionings : r.provisionings[i] = c
  <2>1. CASE c \in chosen
    <3>1. PICK i \in DOMAIN s : s[i] = c
      BY <1>7, <1>8, <2>1
    <3>2. i \in DOMAIN q /\ q[i] = c
      BY <1>9, <3>1
    <3>3. r.provisionings = q
      BY <1>8, <1>9
    <3>4. QED
      BY <3>2, <3>3
  <2>2. CASE c \in rest
    <3>1. \/ \E i \in DOMAIN m.bindings : m.bindings[i].claim = c
          \/ \E i \in DOMAIN u : u[i] = c
      BY <1>5, <1>8, <2>2 DEF Answers
    <3>2. ASSUME NEW i \in DOMAIN u, u[i] = c PROVE \E j \in DOMAIN q : q[j] = c
      BY <1>9, <3>2
    <3>3. r.provisionings = q /\ r.bindings = m.bindings
      BY <1>1, <1>8, <1>9
    <3>4. QED
      BY <3>1, <3>2, <3>3
  <2>3. QED
    BY <2>1, <2>2
<1>11. QED
  BY <1>10

LEMMA LatestHasVolume ==
    ASSUME BInv, NEW c \in DOMAIN pvcCache
    PROVE  /\ LatestClaim(c).volume = pvcCache[c].api.volume
           /\ LatestClaim(c).completed = pvcCache[c].api.completed
  BY DEF BInv, CachesFollow, ClaimFollows, LatestClaim, GetLatest

LEMMA FoundCovers ==
    ASSUME BInv, VolumeShownRight, NEW p \in Pods, NEW n, NEW r \in FindResults(p, n),
           r.code = "yes"
    PROVE  \A c \in uses[p] : \/ \E i \in DOMAIN r.bindings : r.bindings[i].claim = c
                              \/ \E i \in DOMAIN r.provisionings : r.provisionings[i] = c
                              \/ Settled(c, n)
<1> DEFINE v == PodVolumes(p)
           reachable == CheckBoundClaims(v.bound, n)
<1>1. Nothing("error").code = "error"
  BY DEF Nothing
<1>2. /\ uses[p] \subseteq DOMAIN pvcCache /\ v.immediate = {}
      /\ r \in {[r0 EXCEPT !.code = IF @ = "yes" THEN reachable ELSE @] :
                   r0 \in FindForUnbound(v.toBind, n)}
  BY <1>1 DEF FindResults
<1>3. PICK r0 \in FindForUnbound(v.toBind, n) :
         r = [r0 EXCEPT !.code = IF @ = "yes" THEN reachable ELSE @]
  BY <1>2
<1>4. v.toBind \subseteq uses[p] /\ uses[p] = v.bound \cup v.toBind \cup v.immediate
  BY DEF PodVolumes
<1>5. {"code", "bindings", "provisionings"} \subseteq DOMAIN r0
  <2>1. r0 = Nothing("no") \/ \E m : r0 = WithProvisions(m, v.toBind, n)
    <3>1. PICK claims : claims = v.toBind
      OBVIOUS
    <3>2. QED
      BY <1>3, <3>1 DEF FindForUnbound
  <2>2. \A m : {"code", "bindings", "provisionings"} \subseteq DOMAIN WithProvisions(m, v.toBind, n)
    BY DEF WithProvisions
  <2>3. {"code", "bindings", "provisionings"} \subseteq DOMAIN Nothing("no")
    BY DEF Nothing
  <2>4. QED
    BY <2>1, <2>2, <2>3
<1> HIDE DEF reachable
<1>6. /\ r0.code = "yes" /\ reachable = "yes"
      /\ r.bindings = r0.bindings /\ r.provisionings = r0.provisionings
  <2>1. r.code = IF r0.code = "yes" THEN reachable ELSE r0.code
    BY <1>3, <1>5
  <2>2. r.bindings = r0.bindings /\ r.provisionings = r0.provisionings
    BY <1>3, <1>5
  <2>3. QED
    BY <2>1, <2>2
<1>7. ASSUME NEW c \in v.bound PROVE Settled(c, n)
  <2>1. c \in DOMAIN pvcCache /\ IsPVCFullyBound(LatestClaim(c))
    BY <1>2, <1>4, <1>7 DEF PodVolumes
  <2>2. \A w \in {LatestClaim(x).volume : x \in v.bound} : CheckNodeAffinity(w, n)
    BY <1>6 DEF reachable, CheckBoundClaims
  <2>3. LatestClaim(c).volume # Nil /\ CheckNodeAffinity(LatestClaim(c).volume, n)
    BY <1>7, <2>1, <2>2 DEF IsPVCFullyBound
  <2>4. LatestClaim(c).volume = pvcCache[c].api.volume
    BY <2>1, LatestHasVolume
  <2>5. QED
    BY <2>3, <2>4 DEF Settled, VolumeShownRight
<1>8. v.toBind \in SUBSET (DOMAIN pvcCache)
  BY <1>2, <1>4
<1>9. \A c \in v.toBind : \/ \E i \in DOMAIN r0.bindings : r0.bindings[i].claim = c
                          \/ \E i \in DOMAIN r0.provisionings : r0.provisionings[i] = c
  BY <1>3, <1>6, <1>8, UnboundAnswered DEF BInv
<1> HIDE DEF v
<1>10. QED
  BY <1>2, <1>4, <1>6, <1>7, <1>9

LEMMA ObjectsCover ==
    ASSUME NEW p, NEW n, NEW r,
           \A c \in uses[p] : \/ \E i \in DOMAIN r.bindings : r.bindings[i].claim = c
                              \/ \E i \in DOMAIN r.provisionings : r.provisionings[i] = c
                              \/ Settled(c, n)
    PROVE  Covered(p, n, WithObjects(r).bindings, WithObjects(r).provisionings)
<1> DEFINE bs == WithObjects(r).bindings
           cs == WithObjects(r).provisionings
<1>1. /\ bs = [i \in DOMAIN r.bindings |->
                 [claim |-> r.bindings[i].claim, name |-> r.bindings[i].volume,
                  obj |-> LatestVolume(r.bindings[i].volume)]]
      /\ cs = [i \in DOMAIN r.provisionings |->
                 [name |-> r.provisionings[i], obj |-> LatestClaim(r.provisionings[i])]]
  BY DEF WithObjects
<1> HIDE DEF bs, cs
<1>2. /\ DOMAIN bs = DOMAIN r.bindings /\ DOMAIN cs = DOMAIN r.provisionings
      /\ \A i \in DOMAIN bs : bs[i].claim = r.bindings[i].claim
      /\ \A i \in DOMAIN cs : cs[i].name = r.provisionings[i]
  BY <1>1
<1>3. QED
  BY <1>2, Zenon DEF Covered, bs, cs

-----------------------------------------------------------------------------
(* What the steps do to claims and volumes.                                *)
ClaimVolumesStay ==
    \A c \in DOMAIN pvcs' :
        /\ c \in DOMAIN pvcs
        /\ \/ pvcs'[c].volume = pvcs[c].volume
           \/ /\ pvcs[c].volume = Nil /\ UNCHANGED pvs
              /\ pvcs'[c].volume \in DOMAIN pvs /\ pvs[pvcs'[c].volume].claim = c

LEMMA ClaimSteps ==
    ASSUME [Next]_vars
    PROVE  \/ UNCHANGED pvcs
           \/ \E p \in Pods : UpdateClaim(p)
           \/ \E v \in Volumes : ControllerBindsClaim(v)
           \/ \E c \in Claims : ProvisioningFails(c) \/ DeleteClaim(c)
<1>1. ASSUME \/ FindsNone \/ Restart \/ UNCHANGED vars
             \/ \E p \in Pods : \/ TakePod(p) \/ BindPodVolumes(p) \/ UpdateVolume(p)
                                \/ UpdateFails(p) \/ PollSucceeds(p) \/ PollFails(p)
                                \/ DeletePod(p)
             \/ \E n \in Nodes : FindPodVolumes(n) \/ AssumePodVolumes(n)
             \/ \E v \in Volumes : \/ ShowVolume(v) \/ ControllerTakesVolume(v)
                                   \/ ControllerUnbinds(v)
             \/ \E c \in Claims : ShowClaim(c) \/ \E v \in Volumes : Provision(c, v)
      PROVE  UNCHANGED pvcs
  BY <1>1 DEF FindsNone, Restart, vars, TakePod, BindPodVolumes, UpdateVolume, UpdateFails,
              PollSucceeds, PollFails, DeletePod, FindPodVolumes, AssumePodVolumes, ShowVolume,
              ControllerTakesVolume, ControllerUnbinds, ShowClaim, Provision, api
<1>2. QED
  BY <1>1, Zenon DEF Next

LEMMA VolumeSteps ==
    ASSUME [Next]_vars
    PROVE  \/ UNCHANGED pvs
           \/ \E p \in Pods : UpdateVolume(p)
           \/ \E v \in Volumes : ControllerTakesVolume(v) \/ ControllerUnbinds(v)
           \/ \E c \in Claims : \E v \in Volumes : Provision(c, v)
<1>1. ASSUME \/ FindsNone \/ Restart \/ UNCHANGED vars
             \/ \E p \in Pods : \/ TakePod(p) \/ BindPodVolumes(p) \/ UpdateClaim(p)
                                \/ UpdateFails(p) \/ PollSucceeds(p) \/ PollFails(p)
                                \/ DeletePod(p)
             \/ \E n \in Nodes : FindPodVolumes(n) \/ AssumePodVolumes(n)
             \/ \E v \in Volumes : ShowVolume(v) \/ ControllerBindsClaim(v)
             \/ \E c \in Claims : ShowClaim(c) \/ ProvisioningFails(c) \/ DeleteClaim(c)
      PROVE  UNCHANGED pvs
  BY <1>1 DEF FindsNone, Restart, vars, TakePod, BindPodVolumes, UpdateClaim, UpdateFails,
              PollSucceeds, PollFails, DeletePod, FindPodVolumes, AssumePodVolumes, ShowVolume,
              ControllerBindsClaim, ShowClaim, ProvisioningFails, DeleteClaim, api
<1>2. QED
  BY <1>1, Zenon DEF Next

(* The claim that UpdateClaim writes keeps its volume: the object has the  *)
(* version of the claim.                                                   *)
LEMMA VolumesOfClaimsStay ==
    ASSUME BInv, BinderClaimsFollow, [Next]_vars
    PROVE  ClaimVolumesStay
<1>1. CASE UNCHANGED pvcs
  BY <1>1 DEF ClaimVolumesStay
<1>2. ASSUME NEW p \in Pods, UpdateClaim(p) PROVE ClaimVolumesStay
  <2> DEFINE i == bind[p].claimsDone + 1
             c == bind[p].claims[i]
             w == Written(pvcs, c.name, c.obj)
  <2>1. /\ bind[p].stage = "update" /\ i \in DOMAIN bind[p].claims
        /\ c.name \in DOMAIN pvcs /\ c.obj \in ClaimObjects
        /\ pvcs' = [pvcs EXCEPT ![c.name] = w]
    BY <1>2, UpdateClaimFacts
  <2>2. pvcs[c.name].version = c.obj.version
    BY <1>2 DEF UpdateClaim, Current
  <2>3. ClaimFollows(c.obj, pvcs[c.name])
    BY <2>1 DEF BinderClaimsFollow
  <2> HIDE DEF c
  <2>4. w.volume = c.obj.volume
    <3>1. w = c.obj \/ w = [c.obj EXCEPT !.version = c.obj.version + 1]
      BY DEF Written
    <3>2. QED
      BY <2>1, <3>1 DEF ClaimObjects
  <2>5. c.obj.volume = pvcs[c.name].volume
    BY <2>2, <2>3 DEF ClaimFollows
  <2> HIDE DEF w
  <2>6. QED
    BY <2>1, <2>4, <2>5 DEF ClaimVolumesStay
<1>3. ASSUME NEW v \in Volumes, ControllerBindsClaim(v) PROVE ClaimVolumesStay
  <2> DEFINE c == pvs[v].claim
             o == [Bumped(pvcs[c]) EXCEPT !.volume = v, !.completed = TRUE]
  <2>1. /\ v \in DOMAIN pvs /\ c \in DOMAIN pvcs /\ pvcs[c].volume = Nil
        /\ pvcs' = [pvcs EXCEPT ![c] = o] /\ UNCHANGED pvs
    BY <1>3 DEF ControllerBindsClaim
  <2>2. o.volume = v
    <3>1. pvcs[c] \in ClaimObjects
      BY <2>1 DEF BInv, TypesOK
    <3>2. QED
      BY <3>1 DEF Bumped, ClaimObjects
  <2> HIDE DEF o
  <2>3. QED
    BY <2>1, <2>2 DEF ClaimVolumesStay
<1>4. ASSUME NEW c \in Claims, ProvisioningFails(c) PROVE ClaimVolumesStay
  <2> DEFINE o == [Bumped(pvcs[c]) EXCEPT !.selected = Nil]
  <2>1. c \in DOMAIN pvcs /\ pvcs' = [pvcs EXCEPT ![c] = o]
    BY <1>4 DEF ProvisioningFails
  <2>2. o.volume = pvcs[c].volume
    <3>1. pvcs[c] \in ClaimObjects
      BY <2>1 DEF BInv, TypesOK
    <3>2. QED
      BY <3>1 DEF Bumped, ClaimObjects
  <2> HIDE DEF o
  <2>3. QED
    BY <2>1, <2>2 DEF ClaimVolumesStay
<1>5. ASSUME NEW c \in Claims, DeleteClaim(c) PROVE ClaimVolumesStay
  BY <1>5 DEF DeleteClaim, Restrict, ClaimVolumesStay
<1>6. QED
  BY <1>1, <1>2, <1>3, <1>4, <1>5, ClaimSteps

(* A claimRef goes only when the claim has gone or has another volume.     *)
ClaimRefsStep ==
    \A v \in DOMAIN pvs :
        /\ v \in DOMAIN pvs'
        /\ \/ pvs'[v].claim = pvs[v].claim \/ pvs[v].claim = Nil
           \/ pvs[v].claim \in DOMAIN pvcs => pvcs[pvs[v].claim].volume \notin {Nil, v}

LEMMA ControllerClaims ==
    ASSUME TypesOK, NEW v \in DOMAIN pvs
    PROVE  /\ ControllerTakesVolume(v) =>
                \E o : pvs' = [pvs EXCEPT ![v] = o] /\ o.claim = pvs[v].claim
           /\ ControllerUnbinds(v) =>
                \E o : pvs' = [pvs EXCEPT ![v] = o] /\ o.claim \in {Nil, pvs[v].claim}
<1> DEFINE b == Bumped(pvs[v])
<1>1. pvs[v] \in VolumeObjects
  BY DEF TypesOK
<1>2. b.claim = pvs[v].claim /\ DOMAIN b = {"claim", "full", "ours", "phase", "version"}
  BY <1>1 DEF VolumeObjects, Bumped
<1> HIDE DEF b
<1>3. /\ [b EXCEPT !.full = TRUE, !.phase = "Bound"].claim = b.claim
      /\ [b EXCEPT !.claim = Nil, !.full = FALSE, !.ours = FALSE].claim = Nil
      /\ [b EXCEPT !.full = FALSE].claim = b.claim
      /\ [b EXCEPT !.phase = "Released"].claim = b.claim
  BY <1>2
<1>4. ASSUME ControllerTakesVolume(v)
      PROVE  pvs' = [pvs EXCEPT ![v] = [b EXCEPT !.full = TRUE, !.phase = "Bound"]]
  BY <1>4 DEF ControllerTakesVolume, b
<1>5. ASSUME ControllerUnbinds(v)
      PROVE  \E o \in {[b EXCEPT !.claim = Nil, !.full = FALSE, !.ours = FALSE],
                       [b EXCEPT !.full = FALSE], [b EXCEPT !.phase = "Released"]} :
                pvs' = [pvs EXCEPT ![v] = o]
  BY <1>5 DEF ControllerUnbinds, b
<1>6. QED
  BY <1>2, <1>3, <1>4, <1>5

LEMMA ClaimRefsOfVolumes ==
    ASSUME LInv, [Next]_vars
    PROVE  ClaimRefsStep
<1>0. BInv /\ TypesOK
  BY DEF LInv, BInv
<1>1. CASE UNCHANGED pvs
  BY <1>1 DEF ClaimRefsStep
<1>2. ASSUME NEW p \in Pods, UpdateVolume(p) PROVE ClaimRefsStep
  <2> DEFINE b == bind[p].bindings[bind[p].volumesDone + 1]
             w == Written(pvs, b.name, b.obj)
  <2>1. /\ b.name \in DOMAIN pvs /\ pvs[b.name].claim \in {Nil, b.obj.claim}
        /\ w.claim = b.obj.claim /\ pvs' = [pvs EXCEPT ![b.name] = w]
    BY <1>0, <1>2, UpdateVolumeFacts
  <2> HIDE DEF b, w
  <2>2. QED
    BY <2>1 DEF ClaimRefsStep
<1>3. ASSUME NEW v \in Volumes, ControllerTakesVolume(v) PROVE ClaimRefsStep
  <2>1. v \in DOMAIN pvs
    BY <1>3 DEF ControllerTakesVolume
  <2>2. PICK o : pvs' = [pvs EXCEPT ![v] = o] /\ o.claim = pvs[v].claim
    BY <1>0, <1>3, <2>1, ControllerClaims
  <2>3. QED
    BY <2>1, <2>2 DEF ClaimRefsStep
<1>4. ASSUME NEW v \in Volumes, ControllerUnbinds(v) PROVE ClaimRefsStep
  <2>1. /\ v \in DOMAIN pvs
        /\ pvs[v].claim \in DOMAIN pvcs => pvcs[pvs[v].claim].volume \notin {Nil, v}
    BY <1>4 DEF ControllerUnbinds
  <2>2. PICK o : pvs' = [pvs EXCEPT ![v] = o] /\ o.claim \in {Nil, pvs[v].claim}
    BY <1>0, <1>4, <2>1, ControllerClaims
  <2>3. QED
    BY <2>1, <2>2 DEF ClaimRefsStep
<1>5. ASSUME NEW c \in Claims, NEW v \in Volumes, Provision(c, v) PROVE ClaimRefsStep
  BY <1>5 DEF Provision, Put, ClaimRefsStep
<1>6. QED
  BY <1>1, <1>2, <1>3, <1>4, <1>5, VolumeSteps

LEMMA ClaimsStayBound ==
    ASSUME LInv, ClaimsBoundTo, ClaimVolumesStay, ClaimRefsStep
    PROVE  ClaimsBoundTo'
<1>1. ASSUME NEW c \in DOMAIN pvcs', pvcs'[c].volume # Nil
      PROVE  pvcs'[c].volume \in DOMAIN pvs' /\ pvs'[pvcs'[c].volume].claim = c
  <2>1. c \in DOMAIN pvcs /\ c # Nil
    BY VolumeAssumption DEF ClaimVolumesStay, LInv, BInv, TypesOK
  <2>2. CASE pvcs'[c].volume = pvcs[c].volume
    BY <1>1, <2>1, <2>2 DEF ClaimsBoundTo, ClaimRefsStep
  <2>3. CASE /\ pvcs[c].volume = Nil /\ UNCHANGED pvs
             /\ pvcs'[c].volume \in DOMAIN pvs /\ pvs[pvcs'[c].volume].claim = c
    BY <2>3
  <2>4. QED
    BY <2>2, <2>3 DEF ClaimVolumesStay
<1>2. QED
  BY <1>1 DEF ClaimsBoundTo

LEMMA ShownStaysRight ==
    ASSUME VolumeShownRight, BInv', ClaimVolumesStay, ShownAsIs
    PROVE  VolumeShownRight'
<1>1. ASSUME NEW c \in DOMAIN pvcs', pvcCache'[c].api.volume # Nil
      PROVE  pvcs'[c].volume = pvcCache'[c].api.volume
  <2>1. c \in DOMAIN pvcCache' /\ c \in DOMAIN pvcs
    BY DEF BInv, TypesOK, ClaimVolumesStay
  <2>2. CASE c \in DOMAIN pvcCache /\ pvcCache'[c].api = pvcCache[c].api
    BY <1>1, <2>1, <2>2 DEF VolumeShownRight, ClaimVolumesStay
  <2>3. CASE pvcCache'[c].api = pvcs'[c]
    BY <2>3
  <2>4. QED
    BY <2>1, <2>2, <2>3 DEF ShownAsIs
<1>2. QED
  BY <1>1 DEF VolumeShownRight

-----------------------------------------------------------------------------
(* The steps that concern a pod.                                           *)
Apart(p) ==
    /\ bind'[p] = bind[p]
    /\ p \in DOMAIN decisions' <=> p \in DOMAIN decisions
    /\ p \in DOMAIN decisions => decisions'[p] = decisions[p]

LoopStep == FindsNone \/ \E n \in Nodes : FindPodVolumes(n) \/ AssumePodVolumes(n)

PodStep(p) ==
    \/ BindPodVolumes(p) \/ UpdateVolume(p) \/ UpdateClaim(p) \/ UpdateFails(p)
    \/ PollSucceeds(p) \/ PollFails(p) \/ DeletePod(p)

LEMMA LoopStepOthers ==
    ASSUME BInv, LoopStep, NEW q \in Pods, q # loop.pod
    PROVE  Apart(q)
<1>1. bind \in [Pods -> Binders]
  BY DEF BInv, TypesOK
<1>2. ASSUME NEW e, decisions' = Put(decisions, loop.pod, e) \/ decisions' = Spent(loop.pod)
                    \/ \E n : ClearBindings(loop.pod, n),
             UNCHANGED bind \/ \E b : bind' = [bind EXCEPT ![loop.pod] = b]
      PROVE  Apart(q)
  BY <1>1, <1>2 DEF Put, Spent, ClearBindings, Apart
<1>3. CASE FindsNone
  BY <1>2, <1>3 DEF FindsNone
<1>4. ASSUME NEW n \in Nodes, FindPodVolumes(n) PROVE Apart(q)
  <2>1. PICK r \in FindResults(loop.pod, n) :
           \/ ClearBindings(loop.pod, n)
           \/ UpdateBindings(loop.pod, n, WithObjects(r).bindings, WithObjects(r).provisionings)
    BY <1>4, Zenon DEF FindPodVolumes
  <2>2. UNCHANGED bind
    BY <1>4 DEF FindPodVolumes
  <2>3. QED
    BY <1>2, <2>1, <2>2 DEF UpdateBindings
<1>5. ASSUME NEW n \in Nodes, AssumePodVolumes(n) PROVE Apart(q)
  <2>1. \/ UNCHANGED bind /\ decisions' = Spent(loop.pod)
        \/ /\ \E e : decisions' = Put(decisions, loop.pod, e)
           /\ \E b : bind' = [bind EXCEPT ![loop.pod] = b]
    BY <1>5, AssumeOutcome, Zenon
  <2>2. QED
    BY <1>2, <2>1
<1>6. QED
  BY <1>3, <1>4, <1>5 DEF LoopStep

LEMMA PodStepOthers ==
    ASSUME BInv, NEW p \in Pods, PodStep(p), NEW q \in Pods, q # p
    PROVE  Apart(q)
<1>1. bind \in [Pods -> Binders]
  BY DEF BInv, TypesOK
<1>2. CASE BindPodVolumes(p)
  BY <1>1, <1>2 DEF BindPodVolumes, Spent, Apart
<1>3. CASE UpdateVolume(p) \/ UpdateClaim(p) \/ UpdateFails(p) \/ PollSucceeds(p) \/ PollFails(p)
  BY <1>1, <1>3 DEF UpdateVolume, UpdateClaim, UpdateFails, PollSucceeds, PollFails, Apart
<1>4. CASE DeletePod(p)
  BY <1>4 DEF DeletePod, DeleteBindings, Restrict, Apart
<1>5. QED
  BY <1>2, <1>3, <1>4 DEF PodStep

LEMMA StepsOfPods ==
    ASSUME BInv, [Next]_vars, NEW p \in Pods
    PROVE  Apart(p) \/ PodStep(p) \/ Restart \/ (p = loop.pod /\ LoopStep)
<1>1. ASSUME \/ UNCHANGED vars
             \/ \E q \in Pods : TakePod(q)
             \/ \E v \in Volumes : \/ ShowVolume(v) \/ ControllerTakesVolume(v)
                                   \/ ControllerBindsClaim(v) \/ ControllerUnbinds(v)
             \/ \E c \in Claims : \/ ShowClaim(c) \/ ProvisioningFails(c) \/ DeleteClaim(c)
                                  \/ \E v \in Volumes : Provision(c, v)
      PROVE  Apart(p)
  BY <1>1 DEF vars, TakePod, ShowVolume, ControllerTakesVolume, ControllerBindsClaim,
              ControllerUnbinds, ShowClaim, ProvisioningFails, DeleteClaim, Provision, Apart
<1>2. ASSUME LoopStep PROVE Apart(p) \/ p = loop.pod
  BY <1>2, LoopStepOthers
<1>3. ASSUME NEW q \in Pods, PodStep(q) PROVE Apart(p) \/ p = q
  BY <1>3, PodStepOthers
<1>4. QED
  BY <1>1, <1>2, <1>3, Zenon DEF Next, LoopStep, PodStep

-----------------------------------------------------------------------------
(* The goroutine after a write.                                            *)
LEMMA VolumeWriter ==
    ASSUME LInv, NEW p \in Pods, UpdateVolume(p)
    PROVE  LET i == bind[p].volumesDone + 1
               b == bind[p].bindings[i]
           IN  /\ i \in DOMAIN bind[p].bindings /\ i \in Nat /\ bind[p].volumesDone \in Nat
               /\ b.name \in DOMAIN pvs /\ pvs[b.name].claim \in {Nil, b.claim}
               /\ \E o : pvs' = [pvs EXCEPT ![b.name] = o] /\ o.claim = b.claim
               /\ bind[p].stage = "update" /\ bind'[p].stage = "update"
               /\ bind'[p].claims = bind[p].claims /\ bind'[p].node = bind[p].node
               /\ bind'[p].volumesDone = i
               /\ DOMAIN bind'[p].bindings = DOMAIN bind[p].bindings
               /\ \A j \in DOMAIN bind[p].bindings :
                     /\ bind'[p].bindings[j].claim = bind[p].bindings[j].claim
                     /\ bind'[p].bindings[j].name = bind[p].bindings[j].name
<1>1. PICK w : w = bind[p]
  OBVIOUS
<1>2. PICK i, b, o : i = w.volumesDone + 1 /\ b = w.bindings[i] /\ o = Written(pvs, b.name, b.obj)
  OBVIOUS
<1>3. /\ w.stage = "update" /\ w \in Binders /\ i \in DOMAIN w.bindings
      /\ w.bindings \in Seq(Bindings) /\ b \in Bindings
      /\ b.name \in DOMAIN pvs /\ pvs[b.name].claim \in {Nil, b.obj.claim}
      /\ o.claim = b.obj.claim /\ pvs' = [pvs EXCEPT ![b.name] = o]
      /\ bind' = [bind EXCEPT ![p].bindings[i].obj = o, ![p].volumesDone = i]
  BY <1>1, <1>2, UpdateVolumeFacts DEF LInv
<1>4. bind \in [Pods -> Binders] /\ WorkOf(p)
  BY DEF LInv, BInv, TypesOK, WorkComplete
<1>5. b.obj.claim = b.claim
  BY <1>1, <1>2, <1>3, <1>4 DEF WorkOf, Complete
<1>6. PICK t : t = [w.bindings EXCEPT ![i].obj = o]
  OBVIOUS
<1>7. w \in [stage : {"update"}, node : Nodes, bindings : Seq(Bindings),
             claims : Seq(Provisionings), volumesDone : Nat, claimsDone : Nat]
  BY <1>3, UpdatingBinder
<1>8. bind'[p] = [w EXCEPT !.bindings = t, !.volumesDone = i]
  BY <1>1, <1>3, <1>4, <1>6
<1>9. /\ bind'[p].stage = "update" /\ bind'[p].bindings = t /\ bind'[p].claims = w.claims
      /\ bind'[p].volumesDone = i /\ bind'[p].node = w.node
  BY <1>7, <1>8
<1>10. /\ DOMAIN t = DOMAIN w.bindings
       /\ \A j \in DOMAIN t : t[j].name = w.bindings[j].name
       /\ \A j \in DOMAIN t : j # i => t[j] = w.bindings[j]
  <2>1. \A x \in Bindings : {"name", "obj"} \subseteq DOMAIN x
    BY DEF Bindings
  <2>2. QED
    BY <1>3, <1>6, <2>1, ObjReplaced
<1>11. t[i].claim = b.claim
  <2>1. t[i] = [b EXCEPT !.obj = o]
    BY <1>2, <1>3, <1>6
  <2>2. QED
    BY <1>3, <2>1 DEF Bindings
<1>12. \A j \in DOMAIN t : t[j].claim = w.bindings[j].claim
  BY <1>2, <1>10, <1>11
<1>13. i \in Nat /\ w.volumesDone \in Nat
  BY <1>2, <1>7
<1>14. DOMAIN bind'[p].bindings = DOMAIN w.bindings
  BY <1>9, <1>10
<1>15. \A j \in DOMAIN w.bindings : /\ bind'[p].bindings[j].claim = w.bindings[j].claim
                                   /\ bind'[p].bindings[j].name = w.bindings[j].name
  BY <1>9, <1>10, <1>12
<1>16. /\ i \in DOMAIN bind[p].bindings /\ b.name \in DOMAIN pvs
       /\ pvs[b.name].claim \in {Nil, b.claim}
       /\ \E x : pvs' = [pvs EXCEPT ![b.name] = x] /\ x.claim = b.claim
  BY <1>1, <1>3, <1>5
<1>17. /\ bind[p].volumesDone + 1 = i /\ bind[p].bindings[i] = b
       /\ bind[p].stage = "update" /\ bind'[p].stage = "update"
       /\ bind'[p].claims = bind[p].claims /\ bind'[p].node = bind[p].node
       /\ bind'[p].volumesDone = i /\ i \in Nat /\ bind[p].volumesDone \in Nat
  BY <1>1, <1>2, <1>3, <1>9, <1>13
<1>18. /\ DOMAIN bind'[p].bindings = DOMAIN bind[p].bindings
       /\ \A j \in DOMAIN bind[p].bindings :
             /\ bind'[p].bindings[j].claim = bind[p].bindings[j].claim
             /\ bind'[p].bindings[j].name = bind[p].bindings[j].name
  BY <1>1, <1>14, <1>15
<1>19. QED
  BY <1>16, <1>17, <1>18, Zenon

LEMMA ClaimWriter ==
    ASSUME LInv, NEW p \in Pods, UpdateClaim(p)
    PROVE  /\ bind[p].stage = "update" /\ bind'[p].stage = "update"
           /\ bind'[p].bindings = bind[p].bindings /\ bind'[p].node = bind[p].node
           /\ bind'[p].volumesDone = bind[p].volumesDone
           /\ DOMAIN bind'[p].claims = DOMAIN bind[p].claims
           /\ \A j \in DOMAIN bind[p].claims :
                 /\ bind'[p].claims[j].name = bind[p].claims[j].name
                 /\ \/ bind'[p].claims[j] = bind[p].claims[j]
                    \/ bind'[p].claims[j].obj = pvcs'[bind[p].claims[j].name]
<1>1. PICK w : w = bind[p]
  OBVIOUS
<1>2. PICK i, b, o : i = w.claimsDone + 1 /\ b = w.claims[i] /\ o = Written(pvcs, b.name, b.obj)
  OBVIOUS
<1>3. /\ w.stage = "update" /\ w \in Binders /\ i \in DOMAIN w.claims
      /\ w.claims \in Seq(Provisionings) /\ b.name \in DOMAIN pvcs
      /\ pvcs' = [pvcs EXCEPT ![b.name] = o]
      /\ bind' = [bind EXCEPT ![p].claims[i].obj = o, ![p].claimsDone = i]
  BY <1>1, <1>2, UpdateClaimFacts DEF LInv
<1>4. bind \in [Pods -> Binders]
  BY DEF LInv, BInv, TypesOK
<1>5. PICK t : t = [w.claims EXCEPT ![i].obj = o]
  OBVIOUS
<1>6. w \in [stage : {"update"}, node : Nodes, bindings : Seq(Bindings),
             claims : Seq(Provisionings), volumesDone : Nat, claimsDone : Nat]
  BY <1>3, UpdatingBinder
<1>7. bind'[p] = [w EXCEPT !.claims = t, !.claimsDone = i]
  BY <1>1, <1>3, <1>4, <1>5
<1>8. /\ bind'[p].stage = "update" /\ bind'[p].claims = t /\ bind'[p].bindings = w.bindings
      /\ bind'[p].volumesDone = w.volumesDone /\ bind'[p].node = w.node
  BY <1>6, <1>7
<1>9. /\ DOMAIN t = DOMAIN w.claims
      /\ \A j \in DOMAIN t : t[j].name = w.claims[j].name
      /\ \A j \in DOMAIN t : j # i => t[j] = w.claims[j]
      /\ t[i].obj = o
  <2>1. \A x \in Provisionings : {"name", "obj"} \subseteq DOMAIN x
    BY DEF Provisionings
  <2>2. QED
    BY <1>3, <1>5, <2>1, ObjReplaced
<1>10. pvcs'[b.name] = o
  BY <1>3
<1>11. \A j \in DOMAIN w.claims :
          /\ t[j].name = w.claims[j].name
          /\ t[j] = w.claims[j] \/ t[j].obj = pvcs'[w.claims[j].name]
  BY <1>2, <1>9, <1>10
<1>12. DOMAIN bind'[p].claims = DOMAIN w.claims
  BY <1>8, <1>9
<1>13. \A j \in DOMAIN w.claims :
          /\ bind'[p].claims[j].name = w.claims[j].name
          /\ \/ bind'[p].claims[j] = w.claims[j]
             \/ bind'[p].claims[j].obj = pvcs'[w.claims[j].name]
  BY <1>8, <1>11
<1>14. w.stage = "update" /\ bind'[p].stage = "update"
  BY <1>3, <1>8
<1>15. bind'[p].bindings = w.bindings /\ bind'[p].node = w.node
       /\ bind'[p].volumesDone = w.volumesDone
  BY <1>8
<1>16. QED
  BY <1>1, <1>12, <1>13, <1>14, <1>15, Zenon

(* A goroutine that begins has the decision, and has written nothing.      *)
LEMMA WriterBegins ==
    ASSUME BInv, NEW p \in Pods, BindPodVolumes(p), bind'[p].stage = "update"
    PROVE  LET n == bind[p].node
           IN  /\ bind[p].stage = "assumed" /\ HasDecision(p, n) /\ bind'[p].node = n
               /\ bind'[p].bindings = decisions[p][n].bindings
               /\ bind'[p].claims = decisions[p][n].provisionings
               /\ bind'[p].volumesDone = 0
<1>1. bind \in [Pods -> Binders] /\ None.stage # "update"
  BY NoneType DEF BInv, TypesOK
<1>2. PICK n, d : n = bind[p].node /\ d = decisions[p][n]
  OBVIOUS
<1>3. bind'[p] = IF HasDecision(p, n)
                 THEN [stage |-> "update", node |-> n, bindings |-> d.bindings,
                       claims |-> d.provisionings, volumesDone |-> 0, claimsDone |-> 0]
                 ELSE None
  BY <1>1, <1>2 DEF BindPodVolumes
<1>4. HasDecision(p, n)
  BY <1>1, <1>3
<1>5. bind[p].stage = "assumed"
  BY DEF BindPodVolumes
<1>6. QED
  BY <1>2, <1>3, <1>4, <1>5

-----------------------------------------------------------------------------
(* The goroutines that are writing after a step.                           *)
LEMMA StepsOfWriters ==
    ASSUME LInv, [Next]_vars, NEW p \in Pods, bind'[p].stage = "update"
    PROVE  bind'[p] = bind[p] \/ BindPodVolumes(p) \/ UpdateVolume(p) \/ UpdateClaim(p)
<1>0. bind \in [Pods -> Binders] /\ None.stage # "update" /\ BInv
  BY NoneType DEF LInv, BInv, TypesOK
<1>1. ASSUME p = loop.pod, LoopStep PROVE bind'[p] = bind[p]
  <2>1. p # Nil /\ bind[p] = None
    BY <1>1, NilIsNoPod DEF LInv, LoopAlone
  <2>2. CASE FindsNone \/ \E n \in Nodes : FindPodVolumes(n)
    BY <2>2 DEF FindsNone, FindPodVolumes
  <2>3. ASSUME NEW n \in Nodes, AssumePodVolumes(n) PROVE bind'[p] = bind[p]
    <3>1. UNCHANGED bind \/ bind' = [bind EXCEPT ![p] = [stage |-> "assumed", node |-> n]]
      BY <1>0, <1>1, <2>3, AssumeOutcome
    <3>2. QED
      BY <1>0, <3>1
  <2>4. QED
    BY <1>1, <2>2, <2>3 DEF LoopStep
<1>2. ~Restart
  BY <1>0 DEF Restart
<1>3. ASSUME UpdateFails(p) \/ PollSucceeds(p) \/ PollFails(p) PROVE FALSE
  <2>1. bind' = [bind EXCEPT ![p] = None]
    BY <1>3 DEF UpdateFails, PollSucceeds, PollFails
  <2>2. QED
    BY <1>0, <2>1
<1>4. ASSUME DeletePod(p) PROVE bind'[p] = bind[p]
  BY <1>4 DEF DeletePod
<1>5. Apart(p) => bind'[p] = bind[p]
  BY DEF Apart
<1>6. QED
  BY <1>0, <1>1, <1>2, <1>3, <1>4, <1>5, StepsOfPods, Zenon DEF PodStep

LEMMA ClaimStillFollows ==
    ASSUME BInv, BInv', ClaimsMove, NEW o \in ClaimObjects, NEW c \in DOMAIN pvcs',
           ClaimFollows(o, pvcs[c])
    PROVE  c \in DOMAIN pvcs /\ ClaimFollows(o, pvcs'[c])
<1>1. c \in DOMAIN pvcs /\ Moved(pvcs[c], pvcs'[c])
  BY DEF ClaimsMove
<1>2. pvcs[c] \in ClaimObjects /\ pvcs'[c] \in ClaimObjects
  BY <1>1 DEF BInv, TypesOK
<1>3. QED
  BY <1>1, <1>2, ClaimFollowsMoved

(* A decision's objects were shown by the informer, and what it shows the  *)
(* API server has had.                                                     *)
LEMMA DecidedClaimsFollow ==
    ASSUME BInv, ApiTrue, NEW p, NEW n, HasDecision(p, n),
           NEW j \in DOMAIN decisions[p][n].provisionings
    PROVE  LET c == decisions[p][n].provisionings[j]
           IN  /\ c.obj \in ClaimObjects
               /\ c.name \in DOMAIN pvcs => ClaimFollows(c.obj, pvcs[c.name])
<1> DEFINE c == decisions[p][n].provisionings[j]
<1>1. DecisionFollows(decisions[p][n], n)
  BY DEF BInv, DecisionsFollow, HasDecision
<1>2. c \in Provisionings /\ ProvisioningFollows(c, n)
  BY <1>1 DEF DecisionFollows
<1>3. c.obj \in ClaimObjects
  BY <1>2 DEF Provisionings
<1> HIDE DEF c
<1>4. ASSUME c.name \in DOMAIN pvcs PROVE ClaimFollows(c.obj, pvcs[c.name])
  <2>1. PICK shown : shown = pvcCache[c.name].api
    OBVIOUS
  <2>2. /\ c.name \in DOMAIN pvcCache /\ shown \in ClaimObjects
        /\ pvcs[c.name] \in ClaimObjects
    BY <1>4, <2>1, CachedClaim DEF BInv, TypesOK
  <2>3. ClaimFollows(c.obj, shown)
    BY <1>2, <2>1, <2>2 DEF ProvisioningFollows
  <2>4. /\ shown.version <= pvcs[c.name].version
        /\ shown.version = pvcs[c.name].version => shown = pvcs[c.name]
    BY <1>4, <2>1, <2>2 DEF ApiTrue
  <2>5. Moved(shown, pvcs[c.name])
    BY <2>2, <2>4 DEF Moved, ClaimObjects
  <2>6. QED
    BY <1>3, <2>2, <2>3, <2>5, ClaimFollowsMoved
<1>5. QED
  BY <1>3, <1>4 DEF c

LEMMA WrittenClaimType ==
    ASSUME BInv, NEW p \in Pods, bind[p].stage = "update", NEW j \in DOMAIN bind[p].claims
    PROVE  bind[p].claims[j].obj \in ClaimObjects
<1>1. bind[p].claims \in Seq(Provisionings)
  BY UpdatingLeft
<1>2. bind[p].claims[j] \in Provisionings
  BY <1>1
<1>3. QED
  BY <1>2 DEF Provisionings

LEMMA WrittenClaimsFollow ==
    ASSUME LInv, BInv', BinderClaimsFollow, ClaimsMove, [Next]_vars
    PROVE  BinderClaimsFollow'
<1>0. BInv /\ ApiTrue
  BY DEF LInv
<1>1. ASSUME NEW p \in Pods, bind[p].stage = "update", NEW j \in DOMAIN bind[p].claims,
             bind[p].claims[j].name \in DOMAIN pvcs'
      PROVE  ClaimFollows(bind[p].claims[j].obj, pvcs'[bind[p].claims[j].name])
  <2>1. PICK o, c : o = bind[p].claims[j].obj /\ c = bind[p].claims[j].name
    OBVIOUS
  <2>2. c \in DOMAIN pvcs /\ c \in DOMAIN pvcs'
    BY <1>1, <2>1 DEF ClaimsMove
  <2>3. o \in ClaimObjects /\ ClaimFollows(o, pvcs[c])
    BY <1>0, <1>1, <2>1, <2>2, WrittenClaimType DEF BinderClaimsFollow
  <2>4. ClaimFollows(o, pvcs'[c])
    BY <1>0, <2>2, <2>3, ClaimStillFollows
  <2>5. QED
    BY <2>1, <2>4
<1>2. ASSUME NEW p \in Pods, bind'[p].stage = "update", NEW j \in DOMAIN bind'[p].claims,
             bind'[p].claims[j].name \in DOMAIN pvcs'
      PROVE  ClaimFollows(bind'[p].claims[j].obj, pvcs'[bind'[p].claims[j].name])
  <2>1. CASE bind'[p] = bind[p]
    <3>1. PICK w : w = bind[p] /\ w = bind'[p]
      BY <2>1
    <3>2. QED
      BY <1>1, <1>2, <3>1
  <2>2. CASE BindPodVolumes(p)
    <3>1. PICK n : n = bind[p].node
      OBVIOUS
    <3>2. HasDecision(p, n) /\ bind'[p].claims = decisions[p][n].provisionings
      BY <1>0, <1>2, <2>2, <3>1, WriterBegins
    <3>3. PICK c : c = decisions[p][n].provisionings[j]
      OBVIOUS
    <3>4. bind'[p].claims[j] = c /\ j \in DOMAIN decisions[p][n].provisionings
      BY <1>2, <3>2, <3>3
    <3>5. /\ c.obj \in ClaimObjects
          /\ c.name \in DOMAIN pvcs => ClaimFollows(c.obj, pvcs[c.name])
      BY <1>0, <3>2, <3>3, <3>4, DecidedClaimsFollow
    <3>6. UNCHANGED pvcs
      BY <2>2 DEF BindPodVolumes, api
    <3>7. QED
      BY <1>2, <3>4, <3>5, <3>6
  <2>3. CASE UpdateVolume(p)
    <3>1. bind'[p].claims = bind[p].claims /\ bind[p].stage = "update"
      BY <2>3, VolumeWriter
    <3>2. PICK cs : cs = bind[p].claims
      OBVIOUS
    <3>3. QED
      BY <1>1, <1>2, <3>1, <3>2
  <2>4. CASE UpdateClaim(p)
    <3>1. PICK old, new : old = bind[p].claims[j] /\ new = bind'[p].claims[j]
      OBVIOUS
    <3>2. /\ bind[p].stage = "update" /\ j \in DOMAIN bind[p].claims
          /\ new.name = old.name /\ (new = old \/ new.obj = pvcs'[old.name])
      BY <1>2, <2>4, <3>1, ClaimWriter
    <3>3. new.name \in DOMAIN pvcs' /\ pvcs'[new.name] \in ClaimObjects
      BY <1>2, <3>1 DEF BInv, TypesOK
    <3>4. CASE new = old
      BY <1>1, <3>1, <3>2, <3>3, <3>4
    <3>5. CASE new.obj = pvcs'[old.name]
      <4>1. ClaimFollows(pvcs'[new.name], pvcs'[new.name])
        BY <3>3, FollowsSelf
      <4>2. QED
        BY <3>1, <3>2, <3>5, <4>1
    <3>6. QED
      BY <3>2, <3>4, <3>5
  <2>5. QED
    BY <1>2, <2>1, <2>2, <2>3, <2>4, StepsOfWriters
<1>3. QED
  BY <1>2 DEF BinderClaimsFollow

-----------------------------------------------------------------------------
(* Volumes that were written for a claim, and others that refer to it.     *)
LEMMA HistoriesGrow ==
    ASSUME [Next]_vars
    PROVE  twice \subseteq twice' /\ deleted \subseteq deleted'
<1>1. ASSUME NEW p \in Pods, UpdateVolume(p)
      PROVE  twice \subseteq twice' /\ deleted \subseteq deleted'
  <2>1. \E x : twice' = twice \cup {x} \/ twice' = twice
    BY <1>1 DEF UpdateVolume
  <2>2. UNCHANGED deleted
    BY <1>1 DEF UpdateVolume
  <2>3. QED
    BY <2>1, <2>2
<1>2. ASSUME \/ FindsNone \/ Restart \/ UNCHANGED vars
             \/ \E p \in Pods : \/ TakePod(p) \/ BindPodVolumes(p) \/ UpdateClaim(p)
                                \/ UpdateFails(p) \/ PollSucceeds(p) \/ PollFails(p)
             \/ \E n \in Nodes : FindPodVolumes(n) \/ AssumePodVolumes(n)
             \/ \E v \in Volumes : \/ ShowVolume(v) \/ ControllerTakesVolume(v)
                                   \/ ControllerBindsClaim(v) \/ ControllerUnbinds(v)
             \/ \E c \in Claims : \/ ShowClaim(c) \/ ProvisioningFails(c) \/ DeleteClaim(c)
                                  \/ \E v \in Volumes : Provision(c, v)
      PROVE  UNCHANGED <<twice, deleted>>
  BY <1>2 DEF FindsNone, Restart, vars, pods, TakePod, BindPodVolumes, UpdateClaim, UpdateFails,
              PollSucceeds, PollFails, FindPodVolumes, AssumePodVolumes, ShowVolume,
              ControllerTakesVolume, ControllerBindsClaim, ControllerUnbinds, ShowClaim,
              ProvisioningFails, DeleteClaim, Provision
<1>3. ASSUME NEW p \in Pods, DeletePod(p)
      PROVE  twice \subseteq twice' /\ deleted \subseteq deleted'
  BY <1>3 DEF DeletePod
<1>4. QED
  BY <1>1, <1>2, <1>3, Zenon DEF Next

(* What UpdateVolume records of the claim that it writes.                  *)
LEMMA RecordedTwice ==
    ASSUME NEW p, UpdateVolume(p), NEW v \in DOMAIN pvs,
           v # bind[p].bindings[bind[p].volumesDone + 1].name,
           pvs[v].claim = bind[p].bindings[bind[p].volumesDone + 1].claim
    PROVE  bind[p].bindings[bind[p].volumesDone + 1].claim \in twice'
<1> DEFINE b == bind[p].bindings[bind[p].volumesDone + 1]
<1>1. twice' = IF \E x \in DOMAIN pvs \ {b.name} : pvs[x].claim = b.claim
               THEN twice \cup {b.claim} ELSE twice
  BY DEF UpdateVolume
<1> HIDE DEF b
<1>2. v \in DOMAIN pvs \ {b.name} /\ pvs[v].claim = b.claim
  BY DEF b
<1>3. b.claim \in twice'
  BY <1>1, <1>2
<1>4. QED
  BY <1>3 DEF b

(* The only volume of a claim stays so, unless another one is given it.    *)
LEMMA StaysAlone ==
    ASSUME LInv, LInv', ClaimsBoundTo, [Next]_vars, NEW claim \in Claims, NEW name,
           name \in DOMAIN pvs, Alone(claim, name)
    PROVE  Alone(claim, name)'
<1>0. BInv /\ TypesOK /\ claim # Nil
  BY VolumeAssumption DEF LInv, BInv
<1>1. SUFFICES ASSUME claim \in DOMAIN pvcs' \ twice'
               PROVE  \A v \in DOMAIN pvs' : (pvs'[v].claim = claim) <=> (v = name)
  BY DEF Alone
<1>2. /\ claim \in DOMAIN pvcs \ twice
      /\ \A v \in DOMAIN pvs : (pvs[v].claim = claim) <=> (v = name)
  <2>1. ClaimsMove
    BY <1>0, StepMoves DEF Moves
  <2>2. claim \in DOMAIN pvcs \ twice
    BY <1>1, <2>1, HistoriesGrow DEF ClaimsMove
  <2>3. QED
    BY <2>2 DEF Alone
<1>3. CASE UNCHANGED pvs
  BY <1>2, <1>3
<1>4. ASSUME NEW p \in Pods, UpdateVolume(p)
      PROVE  \A v \in DOMAIN pvs' : (pvs'[v].claim = claim) <=> (v = name)
  <2>1. PICK b : b = bind[p].bindings[bind[p].volumesDone + 1]
    OBVIOUS
  <2>2. b.name \in DOMAIN pvs /\ pvs[b.name].claim \in {Nil, b.claim}
    BY <1>4, <2>1, VolumeWriter
  <2>3. PICK o : pvs' = [pvs EXCEPT ![b.name] = o] /\ o.claim = b.claim
    BY <1>4, <2>1, VolumeWriter
  <2>4. ASSUME b.claim = claim PROVE b.name = name
    <3>1. CASE name # b.name
      <4>1. pvs[name].claim = b.claim
        BY <1>2, <2>4
      <4>2. claim \in twice'
        BY <1>4, <2>1, <2>4, <3>1, <4>1, RecordedTwice
      <4>3. QED
        BY <1>1, <4>2
    <3>2. QED
      BY <3>1
  <2>5. QED
    BY <1>0, <1>2, <2>2, <2>3, <2>4
<1>5. ASSUME NEW v \in Volumes, ControllerTakesVolume(v)
      PROVE  \A x \in DOMAIN pvs' : (pvs'[x].claim = claim) <=> (x = name)
  <2>1. v \in DOMAIN pvs
    BY <1>5 DEF ControllerTakesVolume
  <2>2. PICK o : pvs' = [pvs EXCEPT ![v] = o] /\ o.claim = pvs[v].claim
    BY <1>0, <1>5, <2>1, ControllerClaims
  <2>3. QED
    BY <1>2, <2>1, <2>2
<1>6. ASSUME NEW v \in Volumes, ControllerUnbinds(v)
      PROVE  \A x \in DOMAIN pvs' : (pvs'[x].claim = claim) <=> (x = name)
  <2>1. /\ v \in DOMAIN pvs
        /\ pvs[v].claim \in DOMAIN pvcs => pvcs[pvs[v].claim].volume \notin {Nil, v}
    BY <1>6 DEF ControllerUnbinds
  <2>2. PICK o : pvs' = [pvs EXCEPT ![v] = o] /\ o.claim \in {Nil, pvs[v].claim}
    BY <1>0, <1>6, <2>1, ControllerClaims
  <2>3. v # name
    <3>1. CASE v = name
      <4>1. pvcs[claim].volume \notin {Nil, name}
        BY <1>2, <2>1, <3>1
      <4>2. /\ pvcs[claim].volume \in DOMAIN pvs
            /\ pvs[pvcs[claim].volume].claim = claim
        BY <1>2, <4>1 DEF ClaimsBoundTo
      <4>3. QED
        BY <1>2, <4>1, <4>2
    <3>2. QED
      BY <3>1
  <2>4. QED
    BY <1>0, <1>2, <2>1, <2>2, <2>3
<1>7. ASSUME NEW c \in Claims, NEW v \in Volumes, Provision(c, v)
      PROVE  \A x \in DOMAIN pvs' : (pvs'[x].claim = claim) <=> (x = name)
  <2>1. /\ v \notin DOMAIN pvs /\ \A w \in DOMAIN pvs : pvs[w].claim # c
        /\ pvs' = Put(pvs, v, [NewVolume EXCEPT !.claim = c, !.full = TRUE, !.ours = TRUE,
                                                !.phase = "Bound"])
    BY <1>7 DEF Provision
  <2>2. PICK o : o.claim = c /\ pvs' = Put(pvs, v, o)
    <3>1. [NewVolume EXCEPT !.claim = c, !.full = TRUE, !.ours = TRUE, !.phase = "Bound"].claim = c
      BY DEF NewVolume
    <3>2. QED
      BY <2>1, <3>1
  <2>3. c # claim
    BY <1>2, <2>1
  <2>4. v # name
    BY <2>1
  <2>5. QED
    BY <1>2, <2>1, <2>2, <2>3, <2>4 DEF Put
<1>8. QED
  BY <1>3, <1>4, <1>5, <1>6, <1>7, VolumeSteps

LEMMA WrittenBinding ==
    ASSUME BInv, NEW p \in Pods, bind[p].stage = "update", NEW j \in DOMAIN bind[p].bindings
    PROVE  bind[p].bindings[j].claim \in Claims /\ bind[p].bindings[j].name \in DOMAIN pvs
<1>1. bind[p].bindings \in Seq(Bindings)
  BY UpdatingLeft
<1>2. bind[p].bindings[j] \in Bindings
  BY <1>1
<1>3. QED
  BY <1>2 DEF Bindings, BInv, BindersFollow

LEMMA WrittenStayAlone ==
    ASSUME LInv, LInv', ClaimsBoundTo, WrittenAlone, [Next]_vars
    PROVE  WrittenAlone'
<1>0. BInv /\ VolumeAssumption
  BY VolumeAssumption DEF LInv
<1>1. ASSUME NEW p \in Pods, bind[p].stage = "update", NEW j \in 1..bind[p].volumesDone,
             j \in DOMAIN bind[p].bindings, NEW claim, NEW name,
             claim = bind[p].bindings[j].claim, name = bind[p].bindings[j].name
      PROVE  Alone(claim, name)'
  <2>1. claim \in Claims /\ name \in DOMAIN pvs
    BY <1>0, <1>1, WrittenBinding
  <2>2. Alone(claim, name)
    BY <1>1 DEF WrittenAlone
  <2>3. QED
    BY <2>1, <2>2, StaysAlone
<1>2. ASSUME NEW p \in Pods, bind'[p].stage = "update", NEW j \in 1..bind'[p].volumesDone,
             j \in DOMAIN bind'[p].bindings, NEW claim, NEW name,
             claim = bind'[p].bindings[j].claim, name = bind'[p].bindings[j].name
      PROVE  Alone(claim, name)'
  <2>1. CASE bind'[p] = bind[p]
    <3>1. PICK w : w = bind[p] /\ w = bind'[p]
      BY <2>1
    <3>2. QED
      BY <1>1, <1>2, <3>1
  <2>2. CASE BindPodVolumes(p)
    <3>1. bind'[p].volumesDone = 0
      BY <1>0, <1>2, <2>2, WriterBegins
    <3>2. QED
      BY <1>2, <3>1
  <2>3. CASE UpdateVolume(p)
    <3>1. PICK i, b : i = bind[p].volumesDone + 1 /\ b = bind[p].bindings[i]
      OBVIOUS
    <3>2. /\ i \in DOMAIN bind[p].bindings /\ i \in Nat /\ bind[p].volumesDone \in Nat
          /\ bind[p].stage = "update" /\ bind'[p].volumesDone = i
          /\ b.name \in DOMAIN pvs
          /\ \E o : pvs' = [pvs EXCEPT ![b.name] = o] /\ o.claim = b.claim
          /\ DOMAIN bind'[p].bindings = DOMAIN bind[p].bindings
      BY <2>3, <3>1, VolumeWriter
    <3>3. claim = bind[p].bindings[j].claim /\ name = bind[p].bindings[j].name
      <4>1. \A k \in DOMAIN bind[p].bindings :
                /\ bind'[p].bindings[k].claim = bind[p].bindings[k].claim
                /\ bind'[p].bindings[k].name = bind[p].bindings[k].name
        BY <2>3, VolumeWriter
      <4>2. j \in DOMAIN bind[p].bindings
        BY <1>2, <3>2
      <4>3. QED
        BY <1>2, <4>1, <4>2
    <3>4. CASE j # i
      <4>1. j \in 1..bind[p].volumesDone
        BY <1>2, <3>1, <3>2, <3>4
      <4>2. QED
        BY <1>1, <1>2, <3>2, <3>3, <4>1
    <3>5. CASE j = i
      <4>1. claim = b.claim /\ name = b.name
        BY <3>1, <3>3, <3>5
      <4>2. PICK o : pvs' = [pvs EXCEPT ![name] = o] /\ o.claim = claim
        BY <3>2, <4>1
      <4>3. ASSUME claim \notin twice' PROVE \A v \in DOMAIN pvs : v # name => pvs[v].claim # claim
        BY <2>3, <3>1, <4>1, <4>3, RecordedTwice
      <4>4. QED
        BY <3>2, <4>1, <4>2, <4>3 DEF Alone
    <3>6. QED
      BY <3>4, <3>5
  <2>4. CASE UpdateClaim(p)
    <3>1. /\ bind[p].stage = "update" /\ bind'[p].bindings = bind[p].bindings
          /\ bind'[p].volumesDone = bind[p].volumesDone
      BY <2>4, ClaimWriter
    <3>2. PICK bs, k : bs = bind[p].bindings /\ k = bind[p].volumesDone
      OBVIOUS
    <3>3. QED
      BY <1>1, <1>2, <3>1, <3>2
  <2>5. QED
    BY <1>2, <2>1, <2>2, <2>3, <2>4, StepsOfWriters
<1>3. ASSUME NEW p \in Pods, bind'[p].stage = "update", NEW j \in 1..bind'[p].volumesDone,
             j \in DOMAIN bind'[p].bindings
      PROVE  Alone(bind[p].bindings[j].claim, bind[p].bindings[j].name)'
  <2>1. PICK claim, name : claim = bind'[p].bindings[j].claim /\ name = bind'[p].bindings[j].name
    OBVIOUS
  <2>2. Alone(claim, name)'
    BY <1>2, <1>3, <2>1
  <2>3. QED
    BY <2>1, <2>2 DEF Alone
<1>4. QED
  BY <1>3 DEF WrittenAlone

-----------------------------------------------------------------------------
(* What is covered stays so.                                               *)
LEMMA SettledStays ==
    ASSUME ClaimVolumesStay, NEW c, NEW n, Settled(c, n)
    PROVE  Settled(c, n)'
  BY DEF ClaimVolumesStay, Settled

LEMMA CoveredStays ==
    ASSUME ClaimVolumesStay, uses' = uses, NEW p, NEW n, NEW bs, NEW cs, NEW newbs, NEW newcs,
           Covered(p, n, bs, cs),
           DOMAIN bs \subseteq DOMAIN newbs, DOMAIN cs \subseteq DOMAIN newcs,
           \A i \in DOMAIN bs : newbs[i].claim = bs[i].claim,
           \A i \in DOMAIN cs : newcs[i].name = cs[i].name
    PROVE  Covered(p, n, newbs, newcs)'
<1>1. ASSUME NEW c \in uses[p]
      PROVE  \/ \E i \in DOMAIN newbs : newbs[i].claim = c
             \/ \E i \in DOMAIN newcs : newcs[i].name = c
             \/ Settled(c, n)'
  <2>1. \/ \E i \in DOMAIN bs : bs[i].claim = c
        \/ \E i \in DOMAIN cs : cs[i].name = c
        \/ Settled(c, n)
    BY DEF Covered
  <2>2. QED
    BY <2>1, SettledStays
<1>2. QED
  BY <1>1 DEF Covered

LEMMA DecisionCoverStays ==
    ASSUME ClaimVolumesStay, uses' = uses, NEW p, NEW n, CoveredBy(p, n),
           HasDecision(p, n)' <=> HasDecision(p, n),
           HasDecision(p, n) => decisions'[p][n] = decisions[p][n]
    PROVE  CoveredBy(p, n)'
<1>1. CASE HasDecision(p, n)
  <2>1. PICK bs, cs : bs = decisions[p][n].bindings /\ cs = decisions[p][n].provisionings
    OBVIOUS
  <2>2. Covered(p, n, bs, cs)
    BY <1>1, <2>1 DEF CoveredBy
  <2>3. Covered(p, n, bs, cs)'
    BY <2>2, CoveredStays
  <2>4. HasDecision(p, n)' /\ bs = decisions'[p][n].bindings /\ cs = decisions'[p][n].provisionings
    BY <1>1, <2>1
  <2>5. QED
    BY <2>3, <2>4 DEF CoveredBy, Covered
<1>2. CASE ~HasDecision(p, n)
  <2>1. Covered(p, n, <<>>, <<>>)
    BY <1>2 DEF CoveredBy
  <2>2. Covered(p, n, <<>>, <<>>)'
    BY <2>1, CoveredStays
  <2>3. QED
    BY <1>2, <2>2 DEF CoveredBy
<1>3. QED
  BY <1>1, <1>2

-----------------------------------------------------------------------------
(* The nodes found usable.                                                 *)
LEMMA ApartCovers ==
    ASSUME ClaimVolumesStay, uses' = uses, NEW p, NEW n, Apart(p), CoveredBy(p, n)
    PROVE  CoveredBy(p, n)'
<1>1. /\ HasDecision(p, n)' <=> HasDecision(p, n)
      /\ HasDecision(p, n) => decisions'[p][n] = decisions[p][n]
  BY DEF Apart, HasDecision
<1>2. QED
  BY <1>1, DecisionCoverStays

LEMMA FindCovers ==
    ASSUME LInv, VolumeShownRight, LoopCovers, ClaimVolumesStay, uses' = uses,
           NEW m \in Nodes, FindPodVolumes(m), loop.pod \notin deleted,
           NEW n \in loop'.fit
    PROVE  /\ loop'.pod = loop.pod /\ n \notin loop'.left
           /\ CoveredBy(loop.pod, n)'
<1>1. PICK p : p = loop.pod /\ p # Nil /\ m \in loop.left
  BY DEF FindPodVolumes
<1>2. PICK r \in FindResults(p, m) :
         /\ loop' = [loop EXCEPT !.left = @ \ {m},
                                 !.fit = IF r.code = "yes" THEN @ \cup {m} ELSE @]
         /\ IF r.bindings = <<>> /\ r.provisionings = <<>> THEN ClearBindings(p, m)
            ELSE LET w == WithObjects(r) IN UpdateBindings(p, m, w.bindings, w.provisionings)
  BY <1>1, Zenon DEF FindPodVolumes
<1>3. loop \in [pod : Pods \cup {Nil}, left : SUBSET Nodes, fit : SUBSET Nodes]
  BY DEF LInv, BInv, TypesOK
<1>4. /\ loop'.pod = p /\ loop'.left = loop.left \ {m}
      /\ n \in loop.fit \/ (n = m /\ r.code = "yes")
  <2>1. PICK fit : loop' = [loop EXCEPT !.left = @ \ {m}, !.fit = fit]
                   /\ fit = IF r.code = "yes" THEN loop.fit \cup {m} ELSE loop.fit
    BY <1>2
  <2>2. loop'.fit = fit /\ loop'.pod = p /\ loop'.left = loop.left \ {m}
    BY <1>1, <1>3, <2>1
  <2>3. QED
    BY <2>1, <2>2
<1>5. p \in Pods
  BY <1>1, <1>3
<1>6. CASE n \in loop.fit
  <2>1. n \notin loop.left /\ CoveredBy(p, n)
    BY <1>1, <1>6 DEF LoopCovers
  <2>2. n # m
    BY <1>1, <2>1
  <2>3. /\ HasDecision(p, n)' <=> HasDecision(p, n)
        /\ HasDecision(p, n) => decisions'[p][n] = decisions[p][n]
    <3>1. CASE ClearBindings(p, m)
      <4>1. CASE p \in DOMAIN decisions
        <5>1. /\ DOMAIN decisions' = DOMAIN decisions
              /\ decisions'[p] = Restrict(decisions[p], DOMAIN decisions[p] \ {m})
          BY <3>1, <4>1 DEF ClearBindings
        <5>2. QED
          BY <2>2, <4>1, <5>1 DEF HasDecision, Restrict
      <4>2. CASE p \notin DOMAIN decisions
        BY <3>1, <4>2 DEF ClearBindings, HasDecision
      <4>3. QED
        BY <4>1, <4>2
    <3>2. ASSUME NEW bs, NEW cs, UpdateBindings(p, m, bs, cs)
          PROVE  /\ HasDecision(p, n)' <=> HasDecision(p, n)
                 /\ HasDecision(p, n) => decisions'[p][n] = decisions[p][n]
      <4>1. PICK d : decisions' = Put(decisions, p, Put(GetDecisions(p), m, d))
        BY <3>2 DEF UpdateBindings
      <4>2. /\ p \in DOMAIN decisions' /\ decisions'[p] = Put(GetDecisions(p), m, d)
        BY <4>1 DEF Put
      <4>3. /\ n \in DOMAIN decisions'[p] <=> n \in DOMAIN GetDecisions(p)
            /\ n \in DOMAIN GetDecisions(p) => decisions'[p][n] = GetDecisions(p)[n]
        BY <2>2, <4>2 DEF Put
      <4>4. CASE p \in DOMAIN decisions
        BY <4>2, <4>3, <4>4 DEF HasDecision, GetDecisions
      <4>5. CASE p \notin DOMAIN decisions
        <5>1. GetDecisions(p) = <<>> /\ DOMAIN <<>> = {}
          BY <4>5 DEF GetDecisions
        <5>2. QED
          BY <4>3, <4>5, <5>1 DEF HasDecision
      <4>6. QED
        BY <4>4, <4>5
    <3>3. QED
      BY <1>2, <3>1, <3>2, Zenon
  <2>4. CoveredBy(p, n)'
    BY <2>1, <2>3, DecisionCoverStays
  <2>5. QED
    BY <1>1, <1>4, <2>1, <2>4
<1>7. CASE n = m /\ r.code = "yes"
  <2>1. \A c \in uses[p] : \/ \E i \in DOMAIN r.bindings : r.bindings[i].claim = c
                           \/ \E i \in DOMAIN r.provisionings : r.provisionings[i] = c
                           \/ Settled(c, m)
    BY <1>2, <1>5, <1>7, FoundCovers DEF LInv
  <2>2. CASE r.bindings = <<>> /\ r.provisionings = <<>>
    <3>1. Covered(p, m, <<>>, <<>>)
      BY <2>1, <2>2 DEF Covered
    <3>2. Covered(p, m, <<>>, <<>>)'
      BY <3>1, CoveredStays
    <3>3. ClearBindings(p, m)
      BY <1>2, <2>2
    <3>4. ~HasDecision(p, m)'
      BY <3>3 DEF ClearBindings, HasDecision, Restrict
    <3>5. CoveredBy(p, m)'
      BY <3>2, <3>4 DEF CoveredBy
    <3>6. QED
      BY <1>1, <1>4, <1>7, <3>5
  <2>3. CASE ~(r.bindings = <<>> /\ r.provisionings = <<>>)
    <3>1. PICK bs, cs : bs = WithObjects(r).bindings /\ cs = WithObjects(r).provisionings
      OBVIOUS
    <3>2. Covered(p, m, bs, cs)
      BY <2>1, <3>1, ObjectsCover
    <3>3. Covered(p, m, bs, cs)'
      BY <3>2, CoveredStays
    <3>4. UpdateBindings(p, m, bs, cs)
      BY <1>2, <2>3, <3>1
    <3>5. PICK d : d = [bindings |-> bs, provisionings |-> cs]
      OBVIOUS
    <3>6. decisions' = Put(decisions, p, Put(GetDecisions(p), m, d))
      BY <3>4, <3>5 DEF UpdateBindings
    <3>7. HasDecision(p, m)' /\ decisions'[p][m] = d
      BY <3>6 DEF Put, HasDecision
    <3>8. d.bindings = bs /\ d.provisionings = cs
      BY <3>5
    <3>9. CoveredBy(p, m)'
      BY <3>3, <3>7, <3>8 DEF CoveredBy
    <3>10. QED
      BY <1>1, <1>4, <1>7, <3>9
  <2>4. QED
    BY <2>2, <2>3
<1>8. QED
  BY <1>4, <1>6, <1>7

LEMMA LoopStaysCovered ==
    ASSUME LInv, LInv', VolumeShownRight, LoopCovers, ClaimVolumesStay, uses' = uses, [Next]_vars
    PROVE  LoopCovers'
<1>0. BInv
  BY DEF LInv
<1>1. SUFFICES ASSUME loop'.pod # Nil, loop'.pod \notin deleted', NEW n \in loop'.fit
               PROVE  n \notin loop'.left /\ CoveredBy(loop.pod, n)'
  BY DEF LoopCovers, CoveredBy, Covered
<1>2. deleted \subseteq deleted'
  BY HistoriesGrow
<1>3. ASSUME NEW p \in Pods, TakePod(p) PROVE FALSE
  BY <1>1, <1>3 DEF TakePod
<1>4. ASSUME FindsNone \/ Restart \/ \E m \in Nodes : AssumePodVolumes(m) PROVE FALSE
  <2>1. loop' = Idle
    BY <1>4 DEF FindsNone, Restart, AssumePodVolumes
  <2>2. QED
    BY <1>1, <2>1 DEF Idle
<1>5. ASSUME NEW m \in Nodes, FindPodVolumes(m)
      PROVE  n \notin loop'.left /\ CoveredBy(loop.pod, n)'
  <2>1. loop'.pod = loop.pod
    <3>1. PICK left, fit : loop' = [loop EXCEPT !.left = left, !.fit = fit]
      BY <1>5, Zenon DEF FindPodVolumes
    <3>2. loop \in [pod : Pods \cup {Nil}, left : SUBSET Nodes, fit : SUBSET Nodes]
      BY <1>0 DEF BInv, TypesOK
    <3>3. QED
      BY <3>1, <3>2
  <2>2. loop.pod \notin deleted
    BY <1>1, <1>2, <2>1
  <2>3. PICK p : p = loop.pod /\ p = loop'.pod
    BY <2>1
  <2>4. n \notin loop'.left /\ CoveredBy(p, n)'
    BY <1>5, <2>2, <2>3, FindCovers
  <2>5. QED
    BY <2>3, <2>4 DEF CoveredBy, Covered, HasDecision
<1>6. CASE UNCHANGED loop /\ ~Restart /\ ~LoopStep
  <2>1. PICK p : p = loop.pod /\ p = loop'.pod
    BY <1>6
  <2>2. p \in Pods /\ bind[p] = None /\ p \notin deleted'
    BY <1>0, <1>1, <1>6, <2>1 DEF BInv, TypesOK, LInv, LoopAlone
  <2>3. ~PodStep(p)
    BY <2>2 DEF PodStep, BindPodVolumes, UpdateVolume, UpdateClaim, UpdateFails, PollSucceeds,
                PollFails, UpdatesVolume, UpdatesClaim, Polls, DeletePod, None
  <2>4. Apart(p)
    BY <1>0, <1>6, <2>2, <2>3, StepsOfPods
  <2>5. n \notin loop.left /\ CoveredBy(p, n)
    BY <1>1, <1>2, <1>6, <2>1 DEF LoopCovers
  <2>6. CoveredBy(p, n)'
    BY <2>4, <2>5, ApartCovers
  <2>7. QED
    BY <1>6, <2>1, <2>5, <2>6 DEF CoveredBy, Covered, HasDecision
<1>7. ASSUME \/ UNCHANGED vars
             \/ \E p \in Pods : PodStep(p)
             \/ \E v \in Volumes : \/ ShowVolume(v) \/ ControllerTakesVolume(v)
                                   \/ ControllerBindsClaim(v) \/ ControllerUnbinds(v)
             \/ \E c \in Claims : \/ ShowClaim(c) \/ ProvisioningFails(c) \/ DeleteClaim(c)
                                  \/ \E v \in Volumes : Provision(c, v)
      PROVE  UNCHANGED loop
  BY <1>7 DEF vars, PodStep, BindPodVolumes, UpdateVolume, UpdateClaim, UpdateFails, PollSucceeds,
              PollFails, DeletePod, ShowVolume, ControllerTakesVolume, ControllerBindsClaim,
              ControllerUnbinds, ShowClaim, ProvisioningFails, DeleteClaim, Provision
<1>8. QED
  BY <1>3, <1>4, <1>5, <1>6, <1>7, Zenon DEF Next, LoopStep, PodStep

-----------------------------------------------------------------------------
(* What AssumePodVolumes is to bind and to give the node covers what the   *)
(* decision covers.                                                        *)
LEMMA AssumedCovers ==
    ASSUME NEW p, NEW n, CoveredBy(p, n)
    PROVE  Covered(p, n, NewBindings(p, n), NewProvisionedPVCs(p, n))
<1>1. CASE ~HasDecision(p, n)
  BY <1>1 DEF CoveredBy, NewBindings, NewProvisionedPVCs
<1>2. CASE HasDecision(p, n)
  <2>1. PICK bs, cs : bs = decisions[p][n].bindings /\ cs = decisions[p][n].provisionings
    OBVIOUS
  <2>2. PICK newbs, newcs : newbs = NewBindings(p, n) /\ newcs = NewProvisionedPVCs(p, n)
    OBVIOUS
  <2>3. DOMAIN newbs = DOMAIN bs /\ \A i \in DOMAIN bs : newbs[i].claim = bs[i].claim
    BY <1>2, <2>1, <2>2 DEF NewBindings
  <2>4. DOMAIN newcs = DOMAIN cs /\ \A i \in DOMAIN cs : newcs[i].name = cs[i].name
    BY <1>2, <2>1, <2>2 DEF NewProvisionedPVCs
  <2>5. Covered(p, n, bs, cs)
    BY <1>2, <2>1 DEF CoveredBy
  <2>6. Covered(p, n, newbs, newcs)
    BY <2>3, <2>4, <2>5 DEF Covered
  <2>7. QED
    BY <2>2, <2>6
<1>3. QED
  BY <1>1, <1>2

LEMMA AssumeCovers ==
    ASSUME LInv, LoopCovers, ClaimVolumesStay, uses' = uses,
           NEW n \in Nodes, AssumePodVolumes(n), NEW p, p = loop.pod, p \notin deleted
    PROVE  BinderCovers(p)'
<1>1. p \in Pods /\ p # Nil /\ n \in loop.fit /\ bind[p] = None
  BY AssumeOutcome DEF LInv, LoopAlone, AssumePodVolumes
<1>2. bind \in [Pods -> Binders] /\ None.stage = "none"
  BY DEF LInv, BInv, TypesOK, None
<1>3. CASE UNCHANGED bind
  BY <1>1, <1>2, <1>3 DEF BinderCovers
<1>4. CASE /\ decisions' = Put(decisions, p, Put(<<>>, n,
                               [bindings |-> NewBindings(p, n),
                                provisionings |-> NewProvisionedPVCs(p, n)]))
           /\ bind' = [bind EXCEPT ![p] = [stage |-> "assumed", node |-> n]]
  <2>1. PICK bs, cs : bs = NewBindings(p, n) /\ cs = NewProvisionedPVCs(p, n)
    OBVIOUS
  <2>2. PICK d : d = [bindings |-> bs, provisionings |-> cs]
    OBVIOUS
  <2>3. Covered(p, n, bs, cs)
    BY <1>1, <2>1, AssumedCovers DEF LoopCovers
  <2>4. Covered(p, n, bs, cs)'
    BY <2>3, CoveredStays
  <2>5. decisions'[p][n] = d /\ HasDecision(p, n)'
    BY <1>4, <2>1, <2>2 DEF Put, HasDecision
  <2>6. d.bindings = bs /\ d.provisionings = cs
    BY <2>2
  <2>7. CoveredBy(p, n)'
    BY <2>4, <2>5, <2>6 DEF CoveredBy
  <2>8. bind'[p].stage = "assumed" /\ bind'[p].node = n
    BY <1>1, <1>2, <1>4
  <2>9. QED
    BY <2>7, <2>8 DEF BinderCovers, CoveredBy, Covered, HasDecision
<1>5. QED
  BY <1>1, <1>3, <1>4, AssumeOutcome DEF LInv

-----------------------------------------------------------------------------
(* The goroutines.                                                         *)
LEMMA NoneCovers ==
    ASSUME NEW p, bind'[p] = None
    PROVE  BinderCovers(p)'
<1>1. None.stage # "assumed" /\ None.stage # "update"
  BY DEF None
<1>2. bind'[p].stage # "assumed" /\ bind'[p].stage # "update"
  BY <1>1
<1>3. QED
  BY <1>2 DEF BinderCovers

LEMMA ApartBinderCovers ==
    ASSUME ClaimVolumesStay, uses' = uses, NEW p, Apart(p), BinderCovers(p)
    PROVE  BinderCovers(p)'
<1>1. PICK w, n : w = bind[p] /\ n = bind[p].node /\ w = bind'[p] /\ n = bind'[p].node
  BY DEF Apart
<1>2. CASE w.stage = "assumed" /\ HasDecision(p, n)'
  <2>1. HasDecision(p, n)
    BY <1>2 DEF Apart, HasDecision
  <2>2. CoveredBy(p, n)
    BY <1>1, <1>2, <2>1 DEF BinderCovers
  <2>3. CoveredBy(p, n)'
    BY <2>2, ApartCovers
  <2>4. QED
    BY <1>1, <1>2, <2>3 DEF BinderCovers, CoveredBy, Covered, HasDecision
<1>3. CASE w.stage = "update"
  <2>1. PICK bs, cs : bs = w.bindings /\ cs = w.claims
    OBVIOUS
  <2>2. Covered(p, n, bs, cs)
    BY <1>1, <1>3, <2>1 DEF BinderCovers
  <2>3. Covered(p, n, bs, cs)'
    BY <2>2, CoveredStays
  <2>4. QED
    BY <1>1, <1>3, <2>1, <2>3 DEF BinderCovers, Covered
<1>4. QED
  BY <1>1, <1>2, <1>3 DEF BinderCovers, HasDecision

LEMMA BindCovers ==
    ASSUME BInv, ClaimVolumesStay, uses' = uses, NEW p \in Pods, BindPodVolumes(p),
           BinderCovers(p)
    PROVE  BinderCovers(p)'
<1>1. bind' = [bind EXCEPT ![p] = bind'[p]] /\ bind'[p].stage # "assumed"
  <2>1. bind \in [Pods -> Binders] /\ None.stage # "assumed"
    BY DEF BInv, TypesOK, None
  <2>2. PICK n, d : n = bind[p].node /\ d = decisions[p][n]
    OBVIOUS
  <2>3. bind' = [bind EXCEPT ![p] =
                   IF HasDecision(p, n)
                   THEN [stage |-> "update", node |-> n, bindings |-> d.bindings,
                         claims |-> d.provisionings, volumesDone |-> 0, claimsDone |-> 0]
                   ELSE None]
    BY <2>2 DEF BindPodVolumes
  <2>4. QED
    BY <2>1, <2>3
<1>2. CASE bind'[p].stage = "update"
  <2>1. PICK n : n = bind[p].node
    OBVIOUS
  <2>2. PICK bs, cs : bs = decisions[p][n].bindings /\ cs = decisions[p][n].provisionings
    OBVIOUS
  <2>3. /\ bind[p].stage = "assumed" /\ HasDecision(p, n) /\ bind'[p].node = n
        /\ bind'[p].bindings = bs /\ bind'[p].claims = cs
    BY <1>2, <2>1, <2>2, WriterBegins
  <2>4. Covered(p, n, bs, cs)
    BY <2>1, <2>2, <2>3 DEF BinderCovers, CoveredBy
  <2>5. Covered(p, n, bs, cs)'
    BY <2>4, CoveredStays
  <2>6. QED
    BY <1>2, <2>3, <2>5 DEF BinderCovers, Covered
<1>3. QED
  BY <1>1, <1>2 DEF BinderCovers

LEMMA WriteCovers ==
    ASSUME LInv, ClaimVolumesStay, uses' = uses, NEW p \in Pods,
           UpdateVolume(p) \/ UpdateClaim(p), BinderCovers(p)
    PROVE  BinderCovers(p)'
<1>1. PICK n, bs, cs : n = bind[p].node /\ bs = bind[p].bindings /\ cs = bind[p].claims
  OBVIOUS
<1>2. PICK newbs, newcs : newbs = bind'[p].bindings /\ newcs = bind'[p].claims
  OBVIOUS
<1>3. /\ bind[p].stage = "update" /\ bind'[p].stage = "update" /\ bind'[p].node = n
      /\ DOMAIN newbs = DOMAIN bs /\ DOMAIN newcs = DOMAIN cs
      /\ \A j \in DOMAIN bs : newbs[j].claim = bs[j].claim
      /\ \A j \in DOMAIN cs : newcs[j].name = cs[j].name
  <2>1. CASE UpdateVolume(p)
    BY <1>1, <1>2, <2>1, VolumeWriter
  <2>2. CASE UpdateClaim(p)
    BY <1>1, <1>2, <2>2, ClaimWriter
  <2>3. QED
    BY <2>1, <2>2
<1>4. Covered(p, n, bs, cs)
  BY <1>1, <1>3 DEF BinderCovers
<1>5. Covered(p, n, newbs, newcs)'
  BY <1>3, <1>4, CoveredStays
<1>6. QED
  BY <1>2, <1>3, <1>5 DEF BinderCovers, Covered

LEMMA BindersStayCovered ==
    ASSUME LInv, LoopCovers, BindersCover, ClaimVolumesStay, uses' = uses, [Next]_vars
    PROVE  BindersCover'
<1>0. BInv /\ bind \in [Pods -> Binders]
  BY DEF LInv, BInv, TypesOK
<1>1. SUFFICES ASSUME NEW p \in Pods, p \notin deleted' PROVE BinderCovers(p)'
  BY DEF BindersCover
<1>2. p \notin deleted /\ BinderCovers(p)
  BY <1>1, HistoriesGrow DEF BindersCover
<1>3. CASE Apart(p)
  BY <1>2, <1>3, ApartBinderCovers
<1>4. CASE Restart
  <2>1. bind'[p] = None
    BY <1>4 DEF Restart
  <2>2. QED
    BY <2>1, NoneCovers
<1>5. CASE p = loop.pod /\ LoopStep
  <2>1. ASSUME NEW n \in Nodes, AssumePodVolumes(n) PROVE BinderCovers(p)'
    BY <1>2, <1>5, <2>1, AssumeCovers
  <2>2. CASE FindsNone \/ \E n \in Nodes : FindPodVolumes(n)
    <3>1. UNCHANGED bind /\ loop.pod # Nil
      BY <2>2 DEF FindsNone, FindPodVolumes
    <3>2. bind'[p] = None
      BY <1>5, <3>1 DEF LInv, LoopAlone
    <3>3. QED
      BY <3>2, NoneCovers
  <2>3. QED
    BY <1>5, <2>1, <2>2 DEF LoopStep
<1>6. CASE PodStep(p)
  <2>1. CASE BindPodVolumes(p)
    BY <1>0, <1>2, <2>1, BindCovers
  <2>2. CASE UpdateVolume(p) \/ UpdateClaim(p)
    BY <1>2, <2>2, WriteCovers
  <2>3. CASE UpdateFails(p) \/ PollSucceeds(p) \/ PollFails(p)
    <3>1. bind'[p] = None
      BY <1>0, <2>3 DEF UpdateFails, PollSucceeds, PollFails
    <3>2. QED
      BY <3>1, NoneCovers
  <2>4. CASE DeletePod(p)
    BY <1>1, <2>4 DEF DeletePod
  <2>5. QED
    BY <1>6, <2>1, <2>2, <2>3, <2>4 DEF PodStep
<1>7. QED
  BY <1>0, <1>3, <1>4, <1>5, <1>6, StepsOfPods

-----------------------------------------------------------------------------
(* The invariant for the volumes of bound pods.                            *)
LEMMA RInitHolds == Init => RInv
<1> SUFFICES ASSUME Init PROVE RInv
  OBVIOUS
<1>1. LInv
  BY LInitHolds
<1>2. /\ pvcCache = [c \in DOMAIN pvcs |-> [latest |-> pvcs[c], api |-> pvcs[c]]]
      /\ \A c \in DOMAIN pvcs : pvcs[c] = NewClaim
      /\ loop = Idle /\ bind = [p \in Pods |-> None]
  BY DEF Init, Listed, Both
<1>3. \A c \in DOMAIN pvcs : pvcs[c].volume = Nil /\ pvcCache[c].api.volume = Nil
  BY <1>2 DEF NewClaim
<1>4. ClaimsBoundTo /\ VolumeShownRight
  BY <1>3 DEF ClaimsBoundTo, VolumeShownRight
<1>5. \A p \in Pods : bind[p].stage = "none"
  BY <1>2 DEF None
<1>6. BinderClaimsFollow /\ WrittenAlone /\ BindersCover
  BY <1>5 DEF BinderClaimsFollow, WrittenAlone, BindersCover, BinderCovers
<1>7. LoopCovers
  BY <1>2 DEF LoopCovers, Idle
<1>8. QED
  BY <1>1, <1>4, <1>6, <1>7 DEF RInv

LEMMA RStepHolds == RInv /\ [Next]_vars => RInv'
<1> SUFFICES ASSUME RInv, [Next]_vars PROVE RInv'
  OBVIOUS
<1>0. /\ LInv /\ ClaimsBoundTo /\ VolumeShownRight /\ BinderClaimsFollow /\ WrittenAlone
      /\ LoopCovers /\ BindersCover
  BY DEF RInv
<1>1. LInv' /\ BInv /\ BInv'
  BY <1>0, LStepHolds DEF LInv
<1>2. uses' = uses /\ ClaimsMove /\ ShownAsIs
  BY <1>1, StepMoves DEF Moves
<1>3. ClaimVolumesStay
  BY <1>0, <1>1, VolumesOfClaimsStay
<1>4. ClaimRefsStep
  BY <1>0, ClaimRefsOfVolumes
<1>5. ClaimsBoundTo'
  BY <1>0, <1>3, <1>4, ClaimsStayBound
<1>6. VolumeShownRight'
  BY <1>0, <1>1, <1>2, <1>3, ShownStaysRight
<1>7. BinderClaimsFollow'
  BY <1>0, <1>1, <1>2, WrittenClaimsFollow
<1>8. WrittenAlone'
  BY <1>0, <1>1, WrittenStayAlone
<1>9. LoopCovers'
  BY <1>0, <1>1, <1>2, <1>3, LoopStaysCovered
<1>10. BindersCover'
  BY <1>0, <1>2, <1>3, BindersStayCovered
<1>11. QED
  BY <1>1, <1>5, <1>6, <1>7, <1>8, <1>9, <1>10 DEF RInv

-----------------------------------------------------------------------------
(* A check that succeeds has found every binding and every claim done.     *)
LEMMA AllAnswersOk ==
    ASSUME LInv, NEW p \in Pods, bind[p].stage = "update", CheckBindings(p) = "ok"
    PROVE  /\ \A i \in DOMAIN bind[p].bindings :
                 CheckBinding(bind[p].bindings[i], bind[p].node) = "ok"
           /\ \A i \in DOMAIN bind[p].claims :
                 CheckProvision(bind[p].claims[i], bind[p].node) = "ok"
<1>1. PICK w, n : w = bind[p] /\ n = bind[p].node
  OBVIOUS
<1>2. w.bindings \in Seq(Bindings) /\ w.claims \in Seq(Provisionings)
  BY <1>1, UpdatingLeft DEF LInv
<1>3. PICK s, u : /\ s = [i \in DOMAIN w.bindings |-> CheckBinding(w.bindings[i], n)]
                  /\ u = [i \in DOMAIN w.claims |-> CheckProvision(w.claims[i], n)]
  OBVIOUS
<1>4. PICK S : S = {"ok", "error", "wait"}
  OBVIOUS
<1>5. s \in Seq(S) /\ u \in Seq(S)
  <2>1. \A b : CheckBinding(b, n) \in S
    BY <1>4 DEF CheckBinding
  <2>2. \A b : CheckProvision(b, n) \in S
    BY <1>4 DEF CheckProvision
  <2>3. /\ Len(w.bindings) \in Nat /\ DOMAIN w.bindings = 1..Len(w.bindings)
        /\ Len(w.claims) \in Nat /\ DOMAIN w.claims = 1..Len(w.claims)
    BY <1>2
  <2>4. s \in [1..Len(w.bindings) -> S] /\ u \in [1..Len(w.claims) -> S]
    BY <1>3, <2>1, <2>2, <2>3
  <2>5. QED
    BY <2>3, <2>4
<1>6. PICK q : q = s \o u
  OBVIOUS
<1>7. PICK open : open = {i \in DOMAIN q : q[i] # "ok"}
  OBVIOUS
<1>8. (IF open = {} THEN "ok" ELSE q[Min(open)]) = "ok"
  <2>1. (IF p \notin DOMAIN decisions THEN "error"
         ELSE IF open = {} THEN "ok" ELSE q[Min(open)]) = "ok"
    BY <1>1, <1>3, <1>6, <1>7 DEF CheckBindings
  <2>2. QED
    BY <2>1
<1>9. open = {}
  <2>1. SUFFICES ASSUME open # {} PROVE FALSE
    OBVIOUS
  <2>2. open \subseteq Nat
    <3>1. DOMAIN q \subseteq Nat
      BY <1>5, <1>6
    <3>2. QED
      BY <1>7, <3>1
  <2>3. \E m \in open : \A i \in open : m <= i
    BY <2>1, <2>2, NatHasLeast
  <2>4. Min(open) \in open
    BY <2>3 DEF Min
  <2>5. QED
    BY <1>7, <1>8, <2>1, <2>4
<1>10. \A i \in DOMAIN q : q[i] = "ok"
  BY <1>7, <1>9
<1>11. /\ \A i \in DOMAIN s : i \in DOMAIN q /\ q[i] = s[i]
       /\ \A i \in DOMAIN u : Len(s) + i \in DOMAIN q /\ q[Len(s) + i] = u[i]
  BY <1>5, <1>6, InBoth
<1>12. (\A i \in DOMAIN s : s[i] = "ok") /\ (\A i \in DOMAIN u : u[i] = "ok")
  BY <1>10, <1>11
<1>13. QED
  BY <1>1, <1>3, <1>12

-----------------------------------------------------------------------------
(* What the check of one binding or one claim has seen.                    *)
LEMMA BindingOk ==
    ASSUME NEW b, NEW n, CheckBinding(b, n) = "ok"
    PROVE  CheckNodeAffinity(b.name, n) /\ pvcCache[b.claim].api.volume # Nil
<1>1. /\ ~(~Known(pvCache, b.name) \/ ~Known(pvcCache, b.claim))
      /\ ~(b.obj.version > GetAPIObj(pvCache, b.name).version)
      /\ CheckNodeAffinity(b.name, n)
      /\ IsPVCFullyBound(GetAPIObj(pvcCache, b.claim))
  BY DEF CheckBinding
<1>2. QED
  BY <1>1 DEF IsPVCFullyBound, GetAPIObj

LEMMA ProvisionOk ==
    ASSUME NEW item, NEW n, CheckProvision(item, n) = "ok"
    PROVE  /\ pvcCache[item.name].api.volume # Nil
           /\ CheckNodeAffinity(pvcCache[item.name].api.volume, n)
<1>1. PICK cl : cl = pvcCache[item.name].api
  OBVIOUS
<1>2. /\ ~(cl.volume # Nil /\ ~CheckNodeAffinity(cl.volume, n))
      /\ IsPVCFullyBound(cl)
  BY <1>1 DEF CheckProvision, GetAPIObj
<1>3. QED
  BY <1>1, <1>2 DEF IsPVCFullyBound

(* A goroutine that polls has written every volume.                        *)
LEMMA AllVolumesWritten ==
    ASSUME LInv, NEW p \in Pods, Polls(p)
    PROVE  /\ bind[p].stage = "update"
           /\ DOMAIN bind[p].bindings \subseteq 1..bind[p].volumesDone
<1>1. PICK w : w = bind[p]
  OBVIOUS
<1>2. w.stage = "update" /\ WorkOf(p)
  BY <1>1 DEF Polls, LInv, WorkComplete
<1>3. w.bindings \in Seq(Bindings) /\ w.volumesDone \in Nat
  BY <1>1, <1>2, UpdatingLeft DEF LInv
<1>4. ~(w.volumesDone < Len(w.bindings))
  BY <1>1, <1>2 DEF Polls, UpdatesVolume
<1>5. DOMAIN w.bindings = 1..Len(w.bindings) /\ Len(w.bindings) \in Nat
  BY <1>3
<1>6. DOMAIN w.bindings \subseteq 1..w.volumesDone
  BY <1>3, <1>4, <1>5
<1>7. QED
  BY <1>1, <1>2, <1>6

LEMMA PolledReachable ==
    ASSUME RInv, NEW p \in Pods \ deleted, Polls(p), CheckBindings(p) = "ok",
           NEW c \in uses[p] \cap DOMAIN pvcs
    PROVE  /\ pvcs[c].volume # Nil
           /\ c \notin twice => CheckNodeAffinity(pvcs[c].volume, bind[p].node)
<1>1. PICK n, bs, cs : n = bind[p].node /\ bs = bind[p].bindings /\ cs = bind[p].claims
  OBVIOUS
<1>2. bind[p].stage = "update" /\ DOMAIN bs \subseteq 1..bind[p].volumesDone
  BY <1>1, AllVolumesWritten DEF RInv
<1>3. /\ \A i \in DOMAIN bs : CheckBinding(bs[i], n) = "ok"
      /\ \A i \in DOMAIN cs : CheckProvision(cs[i], n) = "ok"
  BY <1>1, <1>2, AllAnswersOk DEF RInv
<1>4. pvcCache[c].api.volume # Nil => pvcs[c].volume = pvcCache[c].api.volume
  BY DEF RInv, VolumeShownRight
<1>5. ASSUME NEW i \in DOMAIN bs, bs[i].claim = c
      PROVE  /\ pvcs[c].volume # Nil
             /\ c \notin twice => CheckNodeAffinity(pvcs[c].volume, n)
  <2>1. PICK name : name = bs[i].name
    OBVIOUS
  <2>2. CheckNodeAffinity(name, n) /\ pvcs[c].volume # Nil
    BY <1>3, <1>4, <1>5, <2>1, BindingOk
  <2>3. pvcs[c].volume \in DOMAIN pvs /\ pvs[pvcs[c].volume].claim = c
    BY <2>2 DEF RInv, ClaimsBoundTo
  <2>4. Alone(c, name)
    BY <1>1, <1>2, <1>5, <2>1 DEF RInv, WrittenAlone
  <2>5. c \notin twice => pvcs[c].volume = name
    BY <2>3, <2>4 DEF Alone
  <2>6. QED
    BY <2>2, <2>5
<1>6. ASSUME NEW i \in DOMAIN cs, cs[i].name = c
      PROVE  pvcs[c].volume # Nil /\ CheckNodeAffinity(pvcs[c].volume, n)
  <2>1. pvcCache[c].api.volume # Nil /\ CheckNodeAffinity(pvcCache[c].api.volume, n)
    BY <1>3, <1>6, ProvisionOk
  <2>2. QED
    BY <1>4, <2>1
<1>7. \/ \E i \in DOMAIN bs : bs[i].claim = c
      \/ \E i \in DOMAIN cs : cs[i].name = c
      \/ Settled(c, n)
  BY <1>1, <1>2 DEF RInv, BindersCover, BinderCovers, Covered
<1>8. QED
  BY <1>1, <1>5, <1>6, <1>7 DEF Settled

(* The node of a pod is entered by AssumePodVolumes or by the goroutine.   *)
LEMMA BoundSteps ==
    ASSUME [Next]_vars
    PROVE  \/ UNCHANGED bound
           \/ \E p \in Pods : PollSucceeds(p)
           \/ \E n \in Nodes : AssumePodVolumes(n)
<1>1. ASSUME \/ UNCHANGED vars
             \/ \E p \in Pods : \/ TakePod(p) \/ BindPodVolumes(p) \/ UpdateVolume(p)
                                \/ UpdateClaim(p) \/ UpdateFails(p) \/ PollFails(p)
                                \/ DeletePod(p)
             \/ \E n \in Nodes : FindPodVolumes(n)
             \/ FindsNone \/ Restart
             \/ \E v \in Volumes : \/ ShowVolume(v) \/ ControllerTakesVolume(v)
                                   \/ ControllerBindsClaim(v) \/ ControllerUnbinds(v)
             \/ \E c \in Claims : \/ ShowClaim(c) \/ ProvisioningFails(c) \/ DeleteClaim(c)
                                  \/ \E v \in Volumes : Provision(c, v)
      PROVE  UNCHANGED bound
  BY <1>1 DEF vars, pods, TakePod, BindPodVolumes, UpdateVolume, UpdateClaim, UpdateFails,
              PollFails, DeletePod, FindPodVolumes, FindsNone, Restart, ShowVolume,
              ControllerTakesVolume, ControllerBindsClaim, ControllerUnbinds, ShowClaim,
              ProvisioningFails, DeleteClaim, Provision
<1>2. QED
  BY <1>1, Zenon DEF Next

(* Every pod has an entry in bound.                                        *)
EveryPodListed == DOMAIN bound = Pods

LEMMA PodsStayListed == EveryPodListed /\ [Next]_vars => EveryPodListed'
  BY BoundSteps DEF EveryPodListed, PollSucceeds, AssumePodVolumes

LEMMA NewlyBoundReachable ==
    ASSUME RInv, EveryPodListed, [Next]_vars, NEW p \in Pods \ deleted, Polls(p),
           bound'[p] # bound[p], NEW c \in uses[p] \cap DOMAIN pvcs
    PROVE  /\ pvcs[c].volume # Nil
           /\ c \notin twice => CheckNodeAffinity(pvcs[c].volume, bound'[p])
<1>1. ASSUME NEW n \in Nodes, AssumePodVolumes(n) PROVE FALSE
  <2>1. bind[loop.pod] = None
    BY <1>1 DEF RInv, LInv, LoopAlone, AssumePodVolumes
  <2>2. p # loop.pod
    BY <2>1 DEF Polls, None
  <2>3. bound' = bound \/ bound' = [bound EXCEPT ![loop.pod] = n]
    BY <1>1 DEF AssumePodVolumes
  <2>4. QED
    BY <2>2, <2>3 DEF EveryPodListed
<1>2. ASSUME NEW q \in Pods, PollSucceeds(q) PROVE q = p /\ bound'[p] = bind[p].node
  BY <1>2 DEF PollSucceeds, EveryPodListed
<1>3. CheckBindings(p) = "ok" /\ bound'[p] = bind[p].node
  BY <1>1, <1>2, BoundSteps DEF PollSucceeds
<1>4. QED
  BY <1>3, PolledReachable

(* When BindPodVolumes succeeds for a pod that is not deleted, its claims  *)
(* are bound, and its node reaches the volume of each claim that never had *)
(* two volumes refer to it, for any number of pods binding at a time.      *)
THEOREM VolumesOfPodsReachable == Spec => BoundVolumesReachable
<1>1. Init => RInv /\ EveryPodListed
  BY RInitHolds DEF Init, EveryPodListed
<1>2. (RInv /\ EveryPodListed) /\ [Next]_vars => (RInv /\ EveryPodListed)'
  BY RStepHolds, PodsStayListed
<1>3. RInv /\ EveryPodListed /\ [Next]_vars =>
         [\A p \in Pods \ deleted : Polls(p) /\ bound'[p] # bound[p] =>
            \A c \in uses[p] \cap DOMAIN pvcs :
               /\ pvcs[c].volume # Nil
               /\ c \notin twice => CheckNodeAffinity(pvcs[c].volume, bound'[p])]_vars
  BY NewlyBoundReachable
<1>4. QED
  BY <1>1, <1>2, <1>3, PTL DEF Spec, BoundVolumesReachable
=============================================================================
