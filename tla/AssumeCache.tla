----------------------------- MODULE AssumeCache -----------------------------
(***************************************************************************)
(* The assume cache of the volume binder, as operators.  A cache is a      *)
(* function from the names it holds to two objects: the last one of the    *)
(* informer (api), and that one or what the scheduler assumes of it        *)
(* (latest).  Objects have a version, the API server's resourceVersion.    *)
(* Each method holds the lock from beginning to end.                       *)
(***************************************************************************)
EXTENDS Naturals, Sequences, SequencesExt, Functions

EmptyCache == <<>>

(* The function f with x sent to v.                                        *)
Put(f, x, v) == [y \in DOMAIN f \cup {x} |-> IF y = x THEN v ELSE f[y]]

Known(cache, name) == name \in DOMAIN cache

Both(obj) == [latest |-> obj, api |-> obj]

(* Mutant: the informer's object does not replace an assumed one. *)
CacheAddUnder(cache, name, obj) ==
    IF Known(cache, name)
    THEN [cache EXCEPT ![name].api = obj]
    ELSE Put(cache, name, Both(obj))

(* add and update of the informer: only a newer object is taken.           *)
CacheAdd(cache, name, obj) ==
    IF Known(cache, name) /\ obj.version <= cache[name].latest.version THEN cache
    ELSE Put(cache, name, Both(obj))

CacheDelete(cache, name) == Restrict(cache, DOMAIN cache \ {name})

GetLatest(cache, name) == cache[name].latest
GetAPIObj(cache, name) == cache[name].api

CanAssume(cache, name, obj) ==
    Known(cache, name) /\ obj.version >= cache[name].latest.version

CacheAssume(cache, name, obj) == [cache EXCEPT ![name].latest = obj]

(* Restore for each of some names; one that has gone is skipped.           *)
CacheRestore(cache, names) ==
    [x \in DOMAIN cache |-> IF x \in names THEN Both(cache[x].api) ELSE cache[x]]

(* Assume in turn a sequence of [name, obj, dirty], those that are dirty:   *)
(* the number of the first that cannot be assumed, or 0, and the cache with *)
(* those before it assumed.                                                *)
AssumeNext(items, acc, i) ==
    IF acc.failed # 0 \/ ~items[i].dirty THEN acc
    ELSE IF CanAssume(acc.cache, items[i].name, items[i].obj)
         THEN [acc EXCEPT !.cache = CacheAssume(@, items[i].name, items[i].obj)]
         ELSE [acc EXCEPT !.failed = i]

AssumeAll(cache, items) ==
    FoldLeft(LAMBDA acc, i : AssumeNext(items, acc, i), [cache |-> cache, failed |-> 0],
             [i \in 1..Len(items) |-> i])

(* Names under which the cache shows an assumption.                        *)
AssumedNames(cache) == {x \in DOMAIN cache : cache[x].latest # cache[x].api}
=============================================================================
