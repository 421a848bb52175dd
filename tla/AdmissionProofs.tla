-------------------------- MODULE AdmissionProofs --------------------------
(***************************************************************************)
(* Which pods get on a node together, for any pods, nodes and terms: what  *)
(* the filters see of a pod that was shown is enough to keep the pods that *)
(* know of each other apart, whatever happened to their nodes before.      *)
(***************************************************************************)
EXTENDS Admission, ListTheorems

-----------------------------------------------------------------------------
(* Amounts of resources.                                                   *)
LEMMA MaxOfTwo ==
    ASSUME NEW a \in Nat, NEW b \in Nat
    PROVE  Max({a, b}) \in Nat /\ Max({a, b}) \in {a, b} /\ Max({a, b}) >= a /\ Max({a, b}) >= b
<1>1. IsFiniteSet({a, b})
  <2>1. IsFiniteSet({a}) /\ {a, b} = {a} \cup {b}
    BY FS_Singleton
  <2>2. QED
    BY <2>1, FS_AddElement
<1>2. {a, b} \in SUBSET Int /\ {a, b} # {}
  OBVIOUS
<1>3. Max({a, b}) \in {a, b} /\ \A y \in {a, b} : Max({a, b}) >= y
  BY <1>1, <1>2, MaxOf
<1>4. QED
  BY <1>3

LEMMA AmountsKept ==
    ASSUME NEW a \in Amounts, NEW b \in Amounts
    PROVE  Added(a, b) \in Amounts /\ Largest(a, b) \in Amounts
<1>1. \A r \in Resources : a[r] \in Nat /\ b[r] \in Nat
  BY DEF Amounts
<1>2. \A r \in Resources : a[r] + b[r] \in Nat /\ Max({a[r], b[r]}) \in Nat
  BY <1>1, MaxOfTwo
<1>3. QED
  BY <1>2 DEF Added, Largest, Amounts

(* The loops of PodRequest over containers and init containers: the folds *)
(* of the library choose functions on sets of indices, which exist, and    *)
(* whose values on 1..k are those of a loop.                               *)
AddedAt(c, q, s) == IF s = {} THEN NoRequest ELSE Added(c[s \ {Max(s)}], q[Max(s)])
IsAddedFold(c, q) == c = [s \in SUBSET DOMAIN q |-> AddedAt(c, q, s)]

LEMMA AddedExists ==
    ASSUME NEW q \in Seq(Amounts)
    PROVE  \E c : IsAddedFold(c, q)
<1> DEFINE n == Len(q)
           g == [w \in (1..n) \X Amounts |-> Added(w[2], q[w[1]])]
<1>1. n \in Nat /\ DOMAIN q = 1..n /\ \A i \in 1..n : q[i] \in Amounts
  OBVIOUS
<1>2. NoRequest \in Amounts
  BY DEF NoRequest, Amounts
<1>3. \A i \in 1..n, v \in Amounts : g[<<i, v>>] = Added(v, q[i]) /\ g[<<i, v>>] \in Amounts
  BY <1>1, AmountsKept
<1> HIDE DEF n, g
<1>4. PICK c : LastFirst(c, n, Amounts, NoRequest, g)
  BY <1>1, <1>2, <1>3, LastFirstExists
<1>5. /\ c \in [SUBSET (1..n) -> Amounts] /\ c[{}] = NoRequest
      /\ \A s \in SUBSET (1..n) :
            s # {} => Max(s) \in s /\ c[s] = g[<<Max(s), c[s \ {Max(s)}]>>]
  BY <1>4, Zenon DEF LastFirst
<1>6. ASSUME NEW s \in SUBSET (1..n) PROVE c[s] = AddedAt(c, q, s)
  <2>1. CASE s = {}
    BY <1>5, <2>1 DEF AddedAt
  <2>2. CASE s # {}
    <3>1. Max(s) \in 1..n /\ c[s \ {Max(s)}] \in Amounts
      BY <1>5, <2>2
    <3>2. c[s] = Added(c[s \ {Max(s)}], q[Max(s)])
      BY <1>3, <1>5, <2>2, <3>1
    <3>3. QED
      BY <2>2, <3>2 DEF AddedAt
  <2>3. QED
    BY <2>1, <2>2
<1>7. c = [s \in SUBSET (1..n) |-> AddedAt(c, q, s)]
  <2>1. c = [s \in SUBSET (1..n) |-> c[s]]
    BY <1>5
  <2>2. QED
    BY <1>6, <2>1, Zenon
<1>8. QED
  BY <1>1, <1>7, Zenon DEF IsAddedFold

LEMMA AddedSteps ==
    ASSUME NEW q \in Seq(Amounts)
    PROVE  \E h : /\ h[0] = NoRequest /\ FoldLeft(Added, NoRequest, q) = h[Len(q)]
                 /\ \A k \in 1..Len(q) : h[k] = Added(h[k-1], q[k])
<1> DEFINE c == CHOOSE d : IsAddedFold(d, q)
           n == Len(q)
           h == [k \in 0..n |-> c[1..k]]
<1>1. FoldLeft(Added, NoRequest, q) = c[DOMAIN q]
  BY Zenon DEF FoldLeft, MapThenFoldSet, IsAddedFold, AddedAt
<1>2. IsAddedFold(c, q)
  BY AddedExists, Zenon
<1> HIDE DEF c
<1>3. n \in Nat /\ DOMAIN q = 1..n
  OBVIOUS
<1>4. \A s \in SUBSET (1..n) : c[s] = AddedAt(c, q, s)
  BY <1>2, <1>3 DEF IsAddedFold
<1>5. \A k \in 0..n : h[k] = c[1..k]
  OBVIOUS
<1> HIDE DEF h, n
<1>6. h[0] = NoRequest
  <2>1. 1..0 = {} /\ 0 \in 0..n
    BY <1>3
  <2>2. c[{}] = NoRequest
    BY <1>4 DEF AddedAt
  <2>3. QED
    BY <1>5, <2>1, <2>2
<1>7. ASSUME NEW k \in 1..n PROVE h[k] = Added(h[k-1], q[k])
  <2>1. Max(1..k) = k /\ (1..k) \ {k} = 1..k-1
    BY <1>3, PrefixFacts
  <2>2. 1..k \in SUBSET (1..n) /\ 1..k # {} /\ k \in 0..n /\ k-1 \in 0..n
    <3>1. k \in Nat /\ 1 <= k /\ k <= n
      BY <1>3
    <3>2. k \in 1..k /\ k \in 0..n /\ k-1 \in 0..n
      BY <1>3, <3>1
    <3>3. \A i \in 1..k : i \in 1..n
      BY <1>3, <3>1
    <3>4. QED
      BY <3>2, <3>3
  <2>3. c[1..k] = Added(c[1..k-1], q[k])
    BY <1>4, <2>1, <2>2 DEF AddedAt
  <2>4. QED
    BY <1>5, <2>2, <2>3
<1>8. h[n] = c[1..n]
  BY <1>3, <1>5
<1>9. QED
  BY <1>1, <1>3, <1>6, <1>7, <1>8 DEF n

LargestAt(c, b, q, s) == IF s = {} THEN b ELSE Largest(c[s \ {Max(s)}], q[Max(s)])
IsLargestFold(c, b, q) == c = [s \in SUBSET DOMAIN q |-> LargestAt(c, b, q, s)]

LEMMA LargestExists ==
    ASSUME NEW b \in Amounts, NEW q \in Seq(Amounts)
    PROVE  \E c : IsLargestFold(c, b, q)
<1> DEFINE n == Len(q)
           g == [w \in (1..n) \X Amounts |-> Largest(w[2], q[w[1]])]
<1>1. n \in Nat /\ DOMAIN q = 1..n /\ \A i \in 1..n : q[i] \in Amounts
  OBVIOUS
<1>2. b \in Amounts
  OBVIOUS
<1>3. \A i \in 1..n, v \in Amounts : g[<<i, v>>] = Largest(v, q[i]) /\ g[<<i, v>>] \in Amounts
  BY <1>1, AmountsKept
<1> HIDE DEF n, g
<1>4. PICK c : LastFirst(c, n, Amounts, b, g)
  BY <1>1, <1>2, <1>3, LastFirstExists
<1>5. /\ c \in [SUBSET (1..n) -> Amounts] /\ c[{}] = b
      /\ \A s \in SUBSET (1..n) :
            s # {} => Max(s) \in s /\ c[s] = g[<<Max(s), c[s \ {Max(s)}]>>]
  BY <1>4, Zenon DEF LastFirst
<1>6. ASSUME NEW s \in SUBSET (1..n) PROVE c[s] = LargestAt(c, b, q, s)
  <2>1. CASE s = {}
    BY <1>5, <2>1 DEF LargestAt
  <2>2. CASE s # {}
    <3>1. Max(s) \in 1..n /\ c[s \ {Max(s)}] \in Amounts
      BY <1>5, <2>2
    <3>2. c[s] = Largest(c[s \ {Max(s)}], q[Max(s)])
      BY <1>3, <1>5, <2>2, <3>1
    <3>3. QED
      BY <2>2, <3>2 DEF LargestAt
  <2>3. QED
    BY <2>1, <2>2
<1>7. c = [s \in SUBSET (1..n) |-> LargestAt(c, b, q, s)]
  <2>1. c = [s \in SUBSET (1..n) |-> c[s]]
    BY <1>5
  <2>2. QED
    BY <1>6, <2>1, Zenon
<1>8. QED
  BY <1>1, <1>7, Zenon DEF IsLargestFold

LEMMA LargestSteps ==
    ASSUME NEW b \in Amounts, NEW q \in Seq(Amounts)
    PROVE  \E h : /\ h[0] = b /\ FoldLeft(Largest, b, q) = h[Len(q)]
                 /\ \A k \in 1..Len(q) : h[k] = Largest(h[k-1], q[k])
<1> DEFINE c == CHOOSE d : IsLargestFold(d, b, q)
           n == Len(q)
           h == [k \in 0..n |-> c[1..k]]
<1>1. FoldLeft(Largest, b, q) = c[DOMAIN q]
  BY Zenon DEF FoldLeft, MapThenFoldSet, IsLargestFold, LargestAt
<1>2. IsLargestFold(c, b, q)
  BY LargestExists, Zenon
<1> HIDE DEF c
<1>3. n \in Nat /\ DOMAIN q = 1..n
  OBVIOUS
<1>4. \A s \in SUBSET (1..n) : c[s] = LargestAt(c, b, q, s)
  BY <1>2, <1>3 DEF IsLargestFold
<1>5. \A k \in 0..n : h[k] = c[1..k]
  OBVIOUS
<1> HIDE DEF h, n
<1>6. h[0] = b
  <2>1. 1..0 = {} /\ 0 \in 0..n
    BY <1>3
  <2>2. c[{}] = b
    BY <1>4 DEF LargestAt
  <2>3. QED
    BY <1>5, <2>1, <2>2
<1>7. ASSUME NEW k \in 1..n PROVE h[k] = Largest(h[k-1], q[k])
  <2>1. Max(1..k) = k /\ (1..k) \ {k} = 1..k-1
    BY <1>3, PrefixFacts
  <2>2. 1..k \in SUBSET (1..n) /\ 1..k # {} /\ k \in 0..n /\ k-1 \in 0..n
    <3>1. k \in Nat /\ 1 <= k /\ k <= n
      BY <1>3
    <3>2. k \in 1..k /\ k \in 0..n /\ k-1 \in 0..n
      BY <1>3, <3>1
    <3>3. \A i \in 1..k : i \in 1..n
      BY <1>3, <3>1
    <3>4. QED
      BY <3>2, <3>3
  <2>3. c[1..k] = Largest(c[1..k-1], q[k])
    BY <1>4, <2>1, <2>2 DEF LargestAt
  <2>4. QED
    BY <1>5, <2>2, <2>3
<1>8. h[n] = c[1..n]
  BY <1>3, <1>5
<1>9. QED
  BY <1>1, <1>3, <1>6, <1>7, <1>8 DEF n

(* What the containers request is the sum, resource by resource.           *)
ValuesOf(q, r) == [i \in DOMAIN q |-> q[i][r]]

LEMMA AddedAll ==
    ASSUME NEW q \in Seq(Amounts)
    PROVE  /\ FoldLeft(Added, NoRequest, q) \in Amounts
           /\ \A r \in Resources : FoldLeft(Added, NoRequest, q)[r] = SumFunction(ValuesOf(q, r))
<1> DEFINE n == Len(q)
           sums(r) == PartialSums(ValuesOf(q, r))
<1>1. n \in Nat /\ DOMAIN q = 1..n /\ \A i \in 1..n : q[i] \in Amounts
  OBVIOUS
<1>2. PICK h : /\ h[0] = NoRequest /\ FoldLeft(Added, NoRequest, q) = h[n]
               /\ \A k \in 1..n : h[k] = Added(h[k-1], q[k])
  BY AddedSteps
<1>3. ASSUME NEW r \in Resources
      PROVE  /\ DOMAIN ValuesOf(q, r) = 1..n /\ IntegersOn(ValuesOf(q, r))
             /\ \A i \in 1..n : ValuesOf(q, r)[i] = q[i][r]
  <2>1. DOMAIN ValuesOf(q, r) = 1..n /\ \A i \in 1..n : ValuesOf(q, r)[i] = q[i][r]
    BY <1>1 DEF ValuesOf
  <2>2. \A i \in 1..n : q[i][r] \in Int
    BY <1>1 DEF Amounts
  <2>3. IsFiniteSet(1..n)
    BY <1>1, FS_Interval
  <2>4. QED
    BY <2>1, <2>2, <2>3 DEF IntegersOn
<1>4. ASSUME NEW r \in Resources
      PROVE  /\ SumFunction(ValuesOf(q, r)) = sums(r)[1..n] /\ sums(r)[{}] = 0
             /\ \A s \in SUBSET (1..n) : \A i \in s : sums(r)[s] = q[i][r] + sums(r)[s \ {i}]
  <2> HIDE DEF n
  <2>1. \A s \in SUBSET (1..n) : \A i \in s : i \in 1..n
    OBVIOUS
  <2> DEFINE f == ValuesOf(q, r)
  <2>2. IntegersOn(f) /\ DOMAIN f = 1..n /\ \A i \in 1..n : f[i] = q[i][r]
    BY <1>3
  <2> HIDE DEF f
  <2>3. /\ SumFunction(f) = PartialSums(f)[1..n] /\ PartialSums(f)[{}] = 0
        /\ \A s \in SUBSET (1..n) :
              \A i \in s : PartialSums(f)[s] = f[i] + PartialSums(f)[s \ {i}]
    <3>1. /\ SumFunction(f) = PartialSums(f)[DOMAIN f] /\ PartialSums(f)[{}] = 0
          /\ \A s \in SUBSET DOMAIN f :
                \A i \in s : PartialSums(f)[s] = f[i] + PartialSums(f)[s \ {i}]
      BY <2>2, SumFacts
    <3>2. DOMAIN f = 1..n
      BY <2>2
    <3>3. QED
      BY <3>1, <3>2, Zenon
  <2>4. QED
    <3>1. \A s \in SUBSET (1..n) :
             \A i \in s : PartialSums(f)[s] = q[i][r] + PartialSums(f)[s \ {i}]
      BY <2>1, <2>2, <2>3, ZenonT(60)
    <3>2. QED
      BY <2>3, <3>1, Zenon DEF f
<1> HIDE DEF n, sums
<1> DEFINE T == {k \in 0..n : h[k] \in Amounts /\ \A r \in Resources : h[k][r] = sums(r)[1..k]}
<1>5. 0 \in T
  <2>1. 1..0 = {} /\ 0 \in 0..n
    BY <1>1
  <2>2. NoRequest \in Amounts /\ \A r \in Resources : NoRequest[r] = 0
    BY DEF NoRequest, Amounts
  <2>3. QED
    BY <1>2, <1>4, <2>1, <2>2
<1>6. ASSUME NEW k \in 0..n, k < n, k \in T PROVE k + 1 \in T
  <2>1. k + 1 \in 1..n /\ k + 1 \in 0..n /\ (k + 1) - 1 = k
    BY <1>1, <1>6
  <2>2. h[k+1] = Added(h[k], q[k+1]) /\ q[k+1] \in Amounts /\ h[k] \in Amounts
    BY <1>1, <1>2, <1>6, <2>1
  <2>3. h[k+1] \in Amounts
    BY <2>2, AmountsKept
  <2>4. ASSUME NEW r \in Resources PROVE h[k+1][r] = sums(r)[1..k+1]
    <3>1. h[k+1][r] = h[k][r] + q[k+1][r] /\ h[k][r] \in Nat /\ q[k+1][r] \in Nat
      BY <2>2 DEF Added, Amounts
    <3>2. (1..k+1) \ {k+1} = 1..k /\ k+1 \in 1..k+1 /\ 1..k+1 \in SUBSET (1..n)
      <4>1. k \in Nat /\ k + 1 <= n
        BY <2>1
      <4>2. \A i \in 1..k+1 : i \in 1..n
        BY <1>1, <4>1
      <4>3. QED
        BY <4>1, <4>2
    <3>3. sums(r)[1..k+1] = q[k+1][r] + sums(r)[1..k]
      <4>1. sums(r)[1..k+1] = q[k+1][r] + sums(r)[(1..k+1) \ {k+1}]
        BY <1>4, <3>2, Zenon
      <4>2. QED
        BY <3>2, <4>1, Zenon
    <3>4. h[k][r] = sums(r)[1..k]
      BY <1>6
    <3>5. h[k][r] + q[k+1][r] = q[k+1][r] + h[k][r]
      BY <3>1
    <3>6. QED
      BY <3>1, <3>3, <3>4, <3>5
  <2>5. QED
    BY <2>1, <2>3, <2>4
<1> HIDE DEF T
<1>7. n \in T
  BY <1>1, <1>5, <1>6, UpTo
<1>8. QED
  BY <1>2, <1>4, <1>7 DEF T

(* With the init containers, it is the largest amount, and one of them.    *)
LEMMA LargestAll ==
    ASSUME NEW b \in Amounts, NEW q \in Seq(Amounts)
    PROVE  LET v == FoldLeft(Largest, b, q)
           IN  /\ v \in Amounts
               /\ \A r \in Resources :
                     /\ v[r] >= b[r] /\ \A i \in DOMAIN q : v[r] >= q[i][r]
                     /\ v[r] = b[r] \/ \E i \in DOMAIN q : v[r] = q[i][r]
<1> DEFINE n == Len(q)
           Top(v, k, r) == /\ v[r] >= b[r] /\ \A i \in 1..k : v[r] >= q[i][r]
                           /\ v[r] = b[r] \/ \E i \in 1..k : v[r] = q[i][r]
<1>1. n \in Nat /\ DOMAIN q = 1..n /\ \A i \in 1..n : q[i] \in Amounts
  OBVIOUS
<1>2. PICK h : /\ h[0] = b /\ FoldLeft(Largest, b, q) = h[n]
               /\ \A k \in 1..n : h[k] = Largest(h[k-1], q[k])
  BY LargestSteps
<1> HIDE DEF n
<1> DEFINE T == {k \in 0..n : h[k] \in Amounts /\ \A r \in Resources : Top(h[k], k, r)}
<1>3. 0 \in T
  <2>1. 0 \in 0..n /\ \A r \in Resources : b[r] \in Nat
    BY <1>1 DEF Amounts
  <2>2. \A r \in Resources : Top(b, 0, r)
    BY <2>1
  <2>3. QED
    BY <1>2, <2>1, <2>2
<1>4. ASSUME NEW k \in 0..n, k < n, k \in T PROVE k + 1 \in T
  <2>1. k + 1 \in 1..n /\ k + 1 \in 0..n /\ (k + 1) - 1 = k
    BY <1>1, <1>4
  <2>2. h[k+1] = Largest(h[k], q[k+1]) /\ q[k+1] \in Amounts /\ h[k] \in Amounts
    BY <1>1, <1>2, <1>4, <2>1
  <2>3. h[k+1] \in Amounts
    BY <2>2, AmountsKept
  <2>4. ASSUME NEW r \in Resources PROVE Top(h[k+1], k+1, r)
    <3> DEFINE x == h[k][r]
               y == q[k+1][r]
               z == h[k+1][r]
    <3>1. x \in Nat /\ y \in Nat /\ b[r] \in Nat
      BY <2>2 DEF Amounts
    <3>2. z = Max({x, y})
      BY <2>2 DEF Largest
    <3>3. Top(h[k], k, r)
      BY <1>4
    <3>4. /\ x >= b[r] /\ \A i \in 1..k : x >= q[i][r]
          /\ x = b[r] \/ \E i \in 1..k : x = q[i][r]
      BY <3>3
    <3>5. \A i \in 1..k+1 : i \in 1..k \/ i = k + 1
      BY <1>1
    <3>6. \A i \in 1..k : q[i][r] \in Nat /\ i \in 1..k+1
      <4>1. \A i \in 1..k : i \in 1..n /\ i \in 1..k+1
        BY <1>1, <2>1
      <4>2. QED
        BY <1>1, <4>1 DEF Amounts
    <3>7. k + 1 \in 1..k+1
      BY <1>1
    <3> HIDE DEF x, z
    <3>8. z \in {x, y} /\ z >= x /\ z >= y /\ z \in Nat
      BY <3>1, <3>2, MaxOfTwo
    <3>9. z >= b[r]
      BY <3>1, <3>4, <3>8
    <3>10. ASSUME NEW i \in 1..k+1 PROVE z >= q[i][r]
      <4>1. CASE i \in 1..k
        BY <3>1, <3>4, <3>6, <3>8, <4>1
      <4>2. CASE i = k + 1
        BY <3>8, <4>2
      <4>3. QED
        BY <3>5, <4>1, <4>2
    <3>11. z = b[r] \/ \E i \in 1..k+1 : z = q[i][r]
      <4>1. CASE z = x
        BY <3>4, <3>6, <4>1
      <4>2. CASE z = y
        BY <3>7, <4>2
      <4>3. QED
        BY <3>8, <4>1, <4>2
    <3>12. QED
      BY <3>9, <3>10, <3>11 DEF z
  <2>5. QED
    BY <2>1, <2>3, <2>4
<1> HIDE DEF T
<1>5. n \in T
  BY <1>1, <1>3, <1>4, UpTo
<1>6. h[n] \in Amounts /\ \A r \in Resources : Top(h[n], n, r)
  BY <1>5 DEF T
<1>7. QED
  BY <1>1, <1>2, <1>6

(* What PodRequest computes is what the pod needs at its largest stage.    *)
LEMMA RequestFacts ==
    ASSUME NEW pod \in PodShapes
    PROVE  /\ PodRequest(pod) \in Amounts
           /\ \A r \in Resources : Max({s[r] : s \in Stages(pod)}) = PodRequest(pod)[r]
<1> DEFINE b == FoldLeft(Added, NoRequest, pod.containers)
           v == FoldLeft(Largest, b, pod.inits)
           all == [r \in Resources |-> pod.overhead[r] +
                      SumFunction([c \in DOMAIN pod.containers |-> pod.containers[c][r]])]
           stage(i) == [r \in Resources |-> pod.overhead[r] + pod.inits[i][r]]
<1>1. /\ pod.containers \in Seq(Amounts) /\ pod.inits \in Seq(Amounts)
      /\ pod.overhead \in Amounts
  BY AdmissionAssumption
<1>2. /\ b \in Amounts
      /\ \A r \in Resources : b[r] = SumFunction(ValuesOf(pod.containers, r))
  BY <1>1, AddedAll
<1>3. PodRequest(pod) = Added(v, pod.overhead)
  BY DEF PodRequest
<1>4. Stages(pod) = {stage(i) : i \in DOMAIN pod.inits} \cup {all}
  BY DEF Stages
<1>5. \A r \in Resources : all[r] = pod.overhead[r] + b[r]
  BY <1>2 DEF ValuesOf
<1>6. \A i : \A r \in Resources : stage(i)[r] = pod.overhead[r] + pod.inits[i][r]
  OBVIOUS
<1> HIDE DEF b, all, stage
<1>7. /\ v \in Amounts
      /\ \A r \in Resources :
            /\ v[r] >= b[r] /\ \A i \in DOMAIN pod.inits : v[r] >= pod.inits[i][r]
            /\ v[r] = b[r] \/ \E i \in DOMAIN pod.inits : v[r] = pod.inits[i][r]
  BY <1>1, <1>2, LargestAll
<1> HIDE DEF v
<1>8. PodRequest(pod) \in Amounts
  BY <1>1, <1>3, <1>7, AmountsKept
<1>9. ASSUME NEW r \in Resources
      PROVE  Max({s[r] : s \in Stages(pod)}) = PodRequest(pod)[r]
  <2> DEFINE A == {s[r] : s \in Stages(pod)}
             x == PodRequest(pod)[r]
  <2>1. /\ x = v[r] + pod.overhead[r]
        /\ v[r] \in Nat /\ pod.overhead[r] \in Nat /\ b[r] \in Nat
        /\ \A i \in DOMAIN pod.inits : pod.inits[i][r] \in Nat
    <3>1. \A i \in DOMAIN pod.inits : pod.inits[i] \in Amounts
      BY <1>1
    <3>2. QED
      BY <1>1, <1>2, <1>3, <1>7, <3>1 DEF Added, Amounts
  <2>2. A = {pod.overhead[r] + pod.inits[i][r] : i \in DOMAIN pod.inits}
              \cup {pod.overhead[r] + b[r]}
    <3>1. A = {stage(i)[r] : i \in DOMAIN pod.inits} \cup {all[r]}
      BY <1>4
    <3>2. QED
      BY <1>5, <1>6, <3>1
  <2> HIDE DEF A, x
  <2>3. x \in A
    <3>1. CASE v[r] = b[r]
      <4>1. x = pod.overhead[r] + b[r]
        BY <2>1, <3>1
      <4>2. QED
        BY <2>2, <4>1
    <3>2. ASSUME NEW i \in DOMAIN pod.inits, v[r] = pod.inits[i][r] PROVE x \in A
      <4>1. x = pod.overhead[r] + pod.inits[i][r]
        BY <2>1, <3>2
      <4>2. QED
        BY <2>2, <4>1
    <3>3. QED
      BY <1>7, <3>1, <3>2
  <2>4. ASSUME NEW y \in A PROVE x >= y
    <3>1. CASE y = pod.overhead[r] + b[r]
      BY <1>7, <2>1, <3>1
    <3>2. ASSUME NEW i \in DOMAIN pod.inits, y = pod.overhead[r] + pod.inits[i][r]
          PROVE  x >= y
      BY <1>7, <2>1, <3>2
    <3>3. QED
      BY <2>2, <3>1, <3>2
  <2>5. A \subseteq Nat
    BY <2>1, <2>2
  <2>6. Max(A) \in A /\ \A y \in A : Max(A) >= y
    <3>1. \E m \in A : \A y \in A : m >= y
      BY <2>3, <2>4
    <3>2. QED
      BY <3>1, Zenon DEF Max
  <2>7. Max(A) = x
    <3>1. Max(A) >= x /\ x >= Max(A)
      BY <2>3, <2>4, <2>6
    <3>2. Max(A) \in Nat /\ x \in Nat
      BY <2>3, <2>5, <2>6
    <3>3. QED
      BY <3>1, <3>2
  <2>8. QED
    BY <2>7 DEF A, x
<1>10. QED
  BY <1>8, <1>9

-----------------------------------------------------------------------------
(* The sums of requests over sets of pods.                                 *)
LEMMA RequestedFacts ==
    ASSUME shape \in [Pods -> PodShapes], NEW S \in SUBSET Pods, IsFiniteSet(S),
           NEW r \in Resources
    PROVE  /\ Requested(S)[r] \in Nat
           /\ \A p \in S : Requested(S)[r] = PodRequest(shape[p])[r] + Requested(S \ {p})[r]
           /\ \A R \in SUBSET S : Requested(R)[r] <= Requested(S)[r]
<1> DEFINE f(R) == [p \in R |-> PodRequest(shape[p])[r]]
<1>1. \A R : Requested(R)[r] = SumFunction(f(R))
  BY DEF Requested
<1>2. \A p \in S : PodRequest(shape[p])[r] \in Nat
  BY RequestFacts DEF Amounts
<1>3. ASSUME NEW R \in SUBSET S
      PROVE  /\ DOMAIN f(R) = R /\ IsFiniteSet(R)
             /\ \A p \in R : f(R)[p] = PodRequest(shape[p])[r] /\ f(R)[p] \in Nat
  BY <1>2, FS_Subset
<1>4. S \in SUBSET S
  OBVIOUS
<1> HIDE DEF f
<1>5. \A R \in SUBSET S : IntegersOn(f(R))
  BY <1>3 DEF IntegersOn
<1>6. Requested(S)[r] \in Nat
  BY <1>1, <1>3, <1>4, SumIsNat
<1>7. ASSUME NEW p \in S
      PROVE  Requested(S)[r] = PodRequest(shape[p])[r] + Requested(S \ {p})[r]
  <2>1. /\ IntegersOn(f(S)) /\ p \in DOMAIN f(S) /\ DOMAIN f(S \ {p}) = DOMAIN f(S) \ {p}
        /\ \A y \in DOMAIN f(S \ {p}) : f(S \ {p})[y] = f(S)[y]
    BY <1>3, <1>4, <1>5
  <2>2. SumFunction(f(S)) = f(S)[p] + SumFunction(f(S \ {p}))
    BY <2>1, SumSplit
  <2>3. f(S)[p] = PodRequest(shape[p])[r]
    BY <1>3, <1>4
  <2>4. QED
    BY <1>1, <2>2, <2>3
<1>8. ASSUME NEW R \in SUBSET S
      PROVE  Requested(R)[r] <= Requested(S)[r]
  <2>1. /\ IntegersOn(f(S)) /\ IntegersOn(f(R)) /\ DOMAIN f(R) \subseteq DOMAIN f(S)
    BY <1>3, <1>4, <1>5
  <2>2. \A x \in DOMAIN f(S) : f(S)[x] >= 0
    BY <1>3, <1>4
  <2>3. \A x \in DOMAIN f(R) : f(R)[x] <= f(S)[x]
    <3>1. \A x \in R : f(R)[x] = f(S)[x] /\ f(S)[x] \in Nat
      BY <1>3, <1>4
    <3>2. QED
      BY <1>3, <3>1
  <2>4. SumFunction(f(R)) <= SumFunction(f(S))
    BY <2>1, <2>2, <2>3, SumBelow
  <2>5. QED
    BY <1>1, <2>4
<1>9. QED
  BY <1>6, <1>7, <1>8

(* A reservation of a node is never negative.                              *)
LEMMA ReservedIsNat ==
    ASSUME NEW n \in Nodes, NEW rec \in NodeShapes(n), NEW r \in Resources
    PROVE  Reserved(rec, r) \in Nat
<1>1. CASE r \in Scalar
  BY <1>1 DEF Reserved
<1>2. CASE r \notin Scalar
  <2> DEFINE V == {w \in rec.reserved : ~w.expired}
             f == [v \in V |-> v.amount[r]]
  <2>1. r \in Computed
    BY <1>2 DEF Resources
  <2>2. IsFiniteSet(rec.reserved) /\ \A v \in rec.reserved : v.amount \in [Computed -> Nat]
    BY AdmissionAssumption
  <2>3. DOMAIN f = V /\ \A v \in V : f[v] = v.amount[r] /\ v.amount[r] \in Nat
    BY <2>1, <2>2
  <2>4. IsFiniteSet(V)
    BY <2>2, FS_Subset
  <2>5. Reserved(rec, r) = SumFunction(f)
    BY <1>2 DEF Reserved
  <2> HIDE DEF f, V
  <2>6. SumFunction(f) \in Nat
    BY <2>3, <2>4, SumIsNat
  <2>7. QED
    BY <2>5, <2>6
<1>3. QED
  BY <1>1, <1>2

-----------------------------------------------------------------------------
(* The inductive invariant.  PortsTaken: on a node where no two pods have  *)
(* shown one port, the used ports include those of every pod that is       *)
(* shown, and no two of these have one.                                    *)
TypesOK ==
    /\ shape \in [Pods -> PodShapes]
    /\ alive \subseteq Pods /\ seen \subseteq Pods
    /\ bound \in [Pods -> Nodes \cup {Nil}]
    /\ DOMAIN used = Nodes
    /\ blind \in [Pods -> SUBSET Pods]
    /\ \A p \in seen : bound[p] \in Nodes
    /\ IsFiniteSet(alive) /\ IsFiniteSet(seen)
    /\ \A n \in Nodes : node[n] \in NodeShapes(n)

PortsTaken ==
    \A n \in Nodes \ doubled : \A p \in Shown(n) :
        /\ HostPorts(shape[p]) \subseteq used[n]
        /\ \A q \in Shown(n) : p # q => HostPorts(shape[p]) \cap HostPorts(shape[q]) = {}

(* RoomUnlessBlind in terms of what the filters add up.                    *)
RoomKept ==
    \A n \in Nodes : \A S \in SUBSET Running(n) :
        (\A p, q \in S : Aware(p, q)) =>
            /\ Cardinality(S) <= node[n].allowedPods
            /\ \A r \in Resources : Requested(S)[r] <= node[n].allocatable[r]

AInv ==
    /\ TypesOK
    /\ RoomKept
    /\ PortsTaken
    /\ PortsUnlessBlind
    /\ DisksUnlessBlind
    /\ AntiAffinityUnlessBlind

LEMMA RoomIsKept ==
    ASSUME shape \in [Pods -> PodShapes], alive \subseteq Pods, RoomKept
    PROVE  RoomUnlessBlind
<1>1. ASSUME NEW S \in SUBSET alive, NEW r \in Resources
      PROVE  SumFunction([p \in S |-> Max({s[r] : s \in Stages(shape[p])})]) = Requested(S)[r]
  <2> DEFINE f == [p \in S |-> Max({s[r] : s \in Stages(shape[p])})]
             g == [p \in S |-> PodRequest(shape[p])[r]]
  <2>1. \A p \in S : Max({s[r] : s \in Stages(shape[p])}) = PodRequest(shape[p])[r]
    <3>1. \A p \in S : shape[p] \in PodShapes
      OBVIOUS
    <3>2. QED
      BY <3>1, RequestFacts
  <2>2. f = g
    BY <2>1, Zenon
  <2>3. Requested(S)[r] = SumFunction(g)
    BY DEF Requested
  <2>4. QED
    BY <2>2, <2>3
<1>2. \A n \in Nodes : \A S \in SUBSET Running(n) : S \in SUBSET alive
  BY DEF Running
<1>3. QED
  BY <1>1, <1>2, Zenon DEF RoomKept, RoomUnlessBlind

-----------------------------------------------------------------------------
(* What a successful run of the filters says of each plugin.               *)
LEMMA FiltersPassed ==
    ASSUME NEW p, NEW n, n \in Feasible(p)
    PROVE  /\ n \in Nodes
           /\ FitsResources(shape[p], node[n], Shown(n), Requested(Shown(n)))
           /\ FitsPorts(shape[p], used[n])
           /\ DisksFree(shape[p], {shape[q] : q \in Shown(n)})
           /\ SatisfiesExistingAntiAffinity(PreFilterState(p), node[n])
           /\ SatisfiesAffinity(shape, PreFilterState(p), p, node[n])
           /\ SatisfiesAntiAffinity(shape, PreFilterState(p), p, node[n])
<1> DEFINE codes == FilterCodes(p, n)
<1>1. n \in Nodes /\ DOMAIN RunFilterPlugins(p, n) = {}
  BY DEF Feasible
<1>2. \A pl \in DOMAIN codes : codes[pl] = "Success"
  BY <1>1 DEF RunFilterPlugins
<1>3. /\ codes.NodeResourcesFit = "Success" /\ codes.NodePorts = "Success"
      /\ codes.VolumeRestrictions = "Success" /\ codes.InterPodAffinity = "Success"
  BY <1>2 DEF FilterCodes
<1>4. /\ codes.NodeResourcesFit =
            Code(FitsResources(shape[p], node[n], Shown(n), Requested(Shown(n))), "Unschedulable")
      /\ codes.NodePorts = Code(FitsPorts(shape[p], used[n]), "Unschedulable")
      /\ codes.VolumeRestrictions =
            Code(DisksFree(shape[p], {shape[q] : q \in Shown(n)}), "Unschedulable")
      /\ codes.InterPodAffinity = AffinityFilter(shape, PreFilterState(p), p, node[n])
  BY DEF FilterCodes
<1> HIDE DEF codes
<1>5. /\ FitsResources(shape[p], node[n], Shown(n), Requested(Shown(n)))
      /\ FitsPorts(shape[p], used[n])
      /\ DisksFree(shape[p], {shape[q] : q \in Shown(n)})
  BY <1>3, <1>4 DEF Code
<1>6. /\ SatisfiesExistingAntiAffinity(PreFilterState(p), node[n])
      /\ SatisfiesAffinity(shape, PreFilterState(p), p, node[n])
      /\ SatisfiesAntiAffinity(shape, PreFilterState(p), p, node[n])
  BY <1>3, <1>4 DEF AffinityFilter
<1>7. QED
  BY <1>1, <1>5, <1>6

-----------------------------------------------------------------------------
(* A host port of a pod is a taken one exactly when the check says so.     *)
LEMMA PortsConflict ==
    ASSUME NEW a \in PodShapes, NEW b \in PodShapes, NEW taken,
           HostPorts(b) \subseteq taken, FitsPorts(a, taken),
           NEW cp \in a.ports, NEW cq \in b.ports
    PROVE  ~SamePort(cp, cq) /\ ~SamePort(cq, cp)
<1>1. /\ cp = [ip |-> cp.ip, port |-> cp.port] /\ cp.port \in Nat
      /\ cq = [ip |-> cq.ip, port |-> cq.port] /\ cq.port \in Nat
  BY AdmissionAssumption
<1>2. ~CheckConflict(taken, cp)
  BY DEF FitsPorts
<1>3. /\ Sanitized(cp).ip = IF cp.ip = NoIP THEN AnyIP ELSE cp.ip
      /\ Sanitized(cq).ip = IF cq.ip = NoIP THEN AnyIP ELSE cq.ip
      /\ Sanitized(cq).port = cq.port
  BY <1>1 DEF Sanitized
<1>4. SamePort(cp, cq) <=> SamePort(cq, cp)
  <2>1. {cp.ip, cq.ip} = {cq.ip, cp.ip}
    OBVIOUS
  <2>2. cp.port = cq.port => (cp.port > 0 <=> cq.port > 0)
    OBVIOUS
  <2>3. QED
    BY <2>1, <2>2 DEF SamePort
<1>5. ASSUME SamePort(cp, cq) PROVE FALSE
  <2>1. cp.port > 0 /\ cq.port = cp.port /\ cq.port > 0
    BY <1>5 DEF SamePort
  <2>2. Sanitized(cq) \in taken
    BY <2>1 DEF HostPorts
  <2>3. Sanitized(cp).ip # AnyIP => Sanitized(cq).ip \in {AnyIP, Sanitized(cp).ip}
    BY <1>3, <1>5 DEF SamePort
  <2>4. CheckConflict(taken, cp)
    BY <1>3, <2>1, <2>2, <2>3 DEF CheckConflict
  <2>5. QED
    BY <1>2, <2>4
<1>6. QED
  BY <1>4, <1>5

(* A pod the filters see on the node it is to get on.                      *)
LEMMA ShownPodsApart ==
    ASSUME TypesOK, PortsTaken, NEW p \in Pods, NEW n, n \in Feasible(p),
           NEW q \in Shown(n)
    PROVE  /\ n \notin doubled =>
                 \A cp \in shape[p].ports, cq \in shape[q].ports :
                     ~SamePort(cp, cq) /\ ~SamePort(cq, cp)
           /\ \A v \in shape[p].disks, w \in shape[q].disks :
                 ~DiskConflict(v, w)
<1>1. n \in Nodes /\ q \in Pods /\ shape[p] \in PodShapes /\ shape[q] \in PodShapes
  BY FiltersPassed DEF Shown, TypesOK
<1>2. ASSUME n \notin doubled, NEW cp \in shape[p].ports, NEW cq \in shape[q].ports
      PROVE  ~SamePort(cp, cq) /\ ~SamePort(cq, cp)
  <2>1. HostPorts(shape[q]) \subseteq used[n]
    BY <1>1, <1>2 DEF PortsTaken
  <2>2. FitsPorts(shape[p], used[n])
    BY FiltersPassed
  <2>3. QED
    BY <1>1, <1>2, <2>1, <2>2, PortsConflict
<1>3. ASSUME NEW v \in shape[p].disks, NEW w \in shape[q].disks
      PROVE  ~DiskConflict(v, w)
  BY FiltersPassed DEF DisksFree
<1>4. QED
  BY <1>2, <1>3

(* With the pods of all nodes listed, no term of a shown pod forbids the   *)
(* new one on its node, nor one of its own terms the shown pod.            *)
LEMMA ShownTermsKept ==
    ASSUME TypesOK, shared, NEW p \in Pods, NEW n, n \in Feasible(p),
           NEW q \in seen, NEW t
    PROVE  /\ t \in shape[q].anti /\ TermMatches(shape, q, t, p) => ~SameDomain(t.key, bound[q], n)
           /\ t \in shape[p].anti /\ TermMatches(shape, p, t, q) => ~SameDomain(t.key, n, bound[q])
<1> DEFINE m  == bound[q]
           on == [x \in Nodes |-> Shown(x)]
<1>1. m \in Nodes /\ q \in Shown(m)
  BY DEF TypesOK, Shown
<1>2. PreFilterState(p) = PreFilter(shape, node, on, p)
  BY DEF PreFilterState, Listed
<1>3. DOMAIN on = Nodes /\ on[m] = Shown(m)
  BY <1>1
<1>4. /\ SatisfiesExistingAntiAffinity(PreFilterState(p), node[n])
      /\ SatisfiesAntiAffinity(shape, PreFilterState(p), p, node[n])
  BY FiltersPassed
<1> HIDE DEF m, on
<1>5. ASSUME t \in shape[q].anti, TermMatches(shape, q, t, p), SameDomain(t.key, m, n)
      PROVE  FALSE
  <2> DEFINE pair  == <<t.key, node[m].labels[t.key]>>
             terms == {u \in shape[q].anti : TermMatches(shape, q, u, p)}
  <2>1. t \in terms /\ t.key \in DOMAIN node[m].labels
    BY <1>5 DEF SameDomain
  <2>2. pair \in Pairs(node, m, terms)
    BY <2>1 DEF Pairs
  <2> HIDE DEF pair
  <2>3. pair \in ExistingPairs(shape, node, on, p)
    <3> DEFINE at(k) == UNION {Pairs(node, k, {u \in shape[x].anti : TermMatches(shape, x, u, p)}) :
                                 x \in on[k]}
    <3>1. ExistingPairs(shape, node, on, p) = UNION {at(k) : k \in DOMAIN on}
      BY DEF ExistingPairs
    <3>2. pair \in at(m)
      <4>1. q \in on[m]
        BY <1>1, <1>3
      <4>2. QED
        BY <4>1, <2>2, Zenon
    <3>3. m \in DOMAIN on
      BY <1>1, <1>3
    <3> HIDE DEF at
    <3>4. QED
      BY <3>1, <3>2, <3>3
  <2>4. pair \in PreFilterState(p).existing
    BY <1>2, <2>3 DEF PreFilter
  <2>5. t.key \in DOMAIN node[n].labels /\ pair = <<t.key, node[n].labels[t.key]>>
    BY <1>5 DEF SameDomain, pair
  <2>6. QED
    BY <1>4, <2>4, <2>5 DEF SatisfiesExistingAntiAffinity
<1>6. ASSUME t \in shape[p].anti, TermMatches(shape, p, t, q), SameDomain(t.key, n, m)
      PROVE  FALSE
  <2> DEFINE pair  == <<t.key, node[m].labels[t.key]>>
             terms == {u \in shape[p].anti : TermMatches(shape, p, u, q)}
  <2>1. t \in terms /\ t.key \in DOMAIN node[m].labels
    BY <1>6 DEF SameDomain
  <2>2. pair \in Pairs(node, m, terms)
    BY <2>1 DEF Pairs
  <2> HIDE DEF pair
  <2>3. pair \in AntiPairs(shape, node, on, p)
    <3> DEFINE at(k) == UNION {Pairs(node, k, {u \in shape[p].anti : TermMatches(shape, p, u, x)}) :
                                 x \in on[k]}
    <3>1. AntiPairs(shape, node, on, p) = UNION {at(k) : k \in DOMAIN on}
      BY DEF AntiPairs
    <3>2. pair \in at(m)
      <4>1. q \in on[m]
        BY <1>1, <1>3
      <4>2. QED
        BY <4>1, <2>2, Zenon
    <3>3. m \in DOMAIN on
      BY <1>1, <1>3
    <3> HIDE DEF at
    <3>4. QED
      BY <3>1, <3>2, <3>3
  <2>4. pair \in PreFilterState(p).anti
    BY <1>2, <2>3 DEF PreFilter
  <2>5. t.key \in DOMAIN node[n].labels /\ pair = <<t.key, node[n].labels[t.key]>>
    BY <1>6 DEF SameDomain, pair
  <2>6. MatchesAnyTopologyTerm(PreFilterState(p).anti, shape[p].anti, node[n])
    BY <1>6, <2>4, <2>5 DEF MatchesAnyTopologyTerm
  <2>7. QED
    BY <1>4, <2>6 DEF SatisfiesAntiAffinity
<1>7. QED
  BY <1>5, <1>6 DEF m

-----------------------------------------------------------------------------
(* A step that places no pod and makes no two pods aware of each other     *)
(* keeps what holds of pairs of pods.                                      *)
LEMMA PairsStay ==
    ASSUME AInv, UNCHANGED <<shape, node, shared>>, doubled \subseteq doubled',
           \A p \in alive' : bound'[p] # Nil => p \in alive /\ bound'[p] = bound[p],
           \A p, q \in alive' : bound'[p] # Nil /\ bound'[q] # Nil =>
              \/ blind'[p] = blind[p] /\ blind'[q] = blind[q]
              \/ (q \in blind[p] => q \in blind'[p]) /\ (p \in blind[q] => p \in blind'[q])
    PROVE  (RoomKept /\ PortsUnlessBlind /\ DisksUnlessBlind /\ AntiAffinityUnlessBlind)'
<1>1. ASSUME NEW p \in alive', NEW q \in alive', bound'[p] # Nil, bound'[q] # Nil,
             p \notin blind'[q] /\ q \notin blind'[p]
      PROVE  /\ p \in alive /\ bound'[p] = bound[p]
             /\ q \in alive /\ bound'[q] = bound[q]
             /\ Aware(p, q)
  BY <1>1 DEF Aware
<1>2. PortsUnlessBlind'
  <2> SUFFICES ASSUME NEW p \in alive', NEW q \in alive', p # q, bound'[p] = bound'[q],
                      bound'[p] \in Nodes \ doubled', p \notin blind'[q] /\ q \notin blind'[p],
                      NEW cp \in shape[p].ports, NEW cq \in shape[q].ports
               PROVE  ~SamePort(cp, cq)
    BY Zenon DEF PortsUnlessBlind, Aware
  <2>1. bound'[p] # Nil /\ bound'[q] # Nil
    BY AdmissionAssumption
  <2>2. /\ p \in alive /\ bound'[p] = bound[p]
        /\ q \in alive /\ bound'[q] = bound[q]
        /\ Aware(p, q)
    BY <1>1, <2>1
  <2>3. bound[p] = bound[q] /\ bound[p] \in Nodes \ doubled
    BY <2>2
  <2>4. QED
    BY <2>2, <2>3 DEF AInv, PortsUnlessBlind
<1>3. DisksUnlessBlind'
  <2> SUFFICES ASSUME NEW p \in alive', NEW q \in alive', p # q, bound'[p] = bound'[q],
                      bound'[p] # Nil, p \notin blind'[q] /\ q \notin blind'[p],
                      NEW v \in shape[p].disks, NEW w \in shape[q].disks,
                      v.kind = w.kind /\ v.id = w.id /\ v.parts \cap w.parts # {}
               PROVE  v.ro /\ w.ro
    BY SMT DEF DisksUnlessBlind, Aware
  <2>1. /\ p \in alive /\ bound'[p] = bound[p]
        /\ q \in alive /\ bound'[q] = bound[q]
        /\ Aware(p, q)
    BY <1>1
  <2>2. bound[p] = bound[q] /\ bound[p] # Nil
    BY <2>1
  <2>3. QED
    BY <2>1, <2>2, Zenon DEF AInv, DisksUnlessBlind
<1>4. AntiAffinityUnlessBlind'
  <2> SUFFICES ASSUME shared, NEW p \in alive', NEW q \in alive', p # q, bound'[p] # Nil,
                      bound'[q] # Nil, p \notin blind'[q] /\ q \notin blind'[p]
               PROVE  ~Forbids(p, q)'
    BY Zenon DEF AntiAffinityUnlessBlind, Aware
  <2>1. /\ p \in alive /\ bound'[p] = bound[p]
        /\ q \in alive /\ bound'[q] = bound[q]
        /\ Aware(p, q)
    BY <1>1
  <2>2. bound[p] # Nil /\ bound[q] # Nil
    BY <2>1
  <2>3. ~Forbids(p, q)
    BY <2>1, <2>2, Zenon DEF AInv, AntiAffinityUnlessBlind
  <2>4. QED
    BY <2>1, <2>3 DEF Forbids, SameDomain
<1>5. RoomKept'
  <2> SUFFICES ASSUME NEW n \in Nodes, NEW S \in SUBSET Running(n)', \A p, q \in S : Aware(p, q)'
               PROVE  /\ Cardinality(S) <= node[n].allowedPods
                      /\ \A r \in Resources : Requested(S)[r] <= node[n].allocatable[r]
    BY Zenon DEF RoomKept, Requested
  <2>1. \A p \in S : p \in alive' /\ bound'[p] = n /\ bound'[p] # Nil
    BY AdmissionAssumption DEF Running
  <2>2. ASSUME NEW p \in S, NEW q \in S
        PROVE  p \in Running(n) /\ Aware(p, q)
    BY <1>1, <2>1 DEF Running, Aware
  <2>3. S \in SUBSET Running(n) /\ \A p, q \in S : Aware(p, q)
    BY <2>2
  <2>4. QED
    BY <2>3, Zenon DEF AInv, RoomKept
<1>6. QED
  BY <1>2, <1>3, <1>4, <1>5

LEMMA CreateKeeps ==
    ASSUME AInv, NEW p \in Pods, Create(p)
    PROVE  AInv'
<1>1. /\ UNCHANGED <<shape, node, shared, seen, used, doubled>>
      /\ p \notin alive /\ p \notin seen /\ alive' = alive \cup {p}
      /\ \A q \in Pods : bound'[q] = IF q = p THEN Nil ELSE bound[q]
      /\ blind' = [q \in Pods |-> IF q = p THEN {} ELSE blind[q] \ {p}]
  BY DEF Create, AInv, TypesOK, cache
<1>2. TypesOK'
  BY <1>1, FS_AddElement DEF AInv, TypesOK, Create
<1>3. PortsTaken'
  <2>1. \A n : Shown(n)' = Shown(n)
    BY <1>1 DEF Shown, AInv, TypesOK
  <2>2. QED
    BY <1>1, <2>1 DEF AInv, PortsTaken
<1>4. \A q \in alive' : bound'[q] # Nil =>
         q # p /\ q \in alive /\ q \in Pods /\ bound'[q] = bound[q]
  BY <1>1 DEF AInv, TypesOK
<1>5. \A q, x \in alive' : bound'[q] # Nil /\ bound'[x] # Nil =>
         \/ blind'[q] = blind[q] /\ blind'[x] = blind[x]
         \/ (x \in blind[q] => x \in blind'[q]) /\ (q \in blind[x] => q \in blind'[x])
  BY <1>1, <1>4
<1>6. QED
  BY <1>1, <1>2, <1>3, <1>4, <1>5, PairsStay DEF AInv

LEMMA DeleteKeeps ==
    ASSUME AInv, NEW p \in Pods, Delete(p)
    PROVE  AInv'
<1>1. /\ UNCHANGED <<shape, node, shared, bound, seen, used, blind, doubled>>
      /\ alive' = alive \ {p}
  BY DEF Delete, cache
<1>2. TypesOK' /\ PortsTaken'
  <2>1. IsFiniteSet(alive')
    BY <1>1, FS_Subset DEF AInv, TypesOK
  <2>2. TypesOK'
    BY <1>1, <2>1 DEF AInv, TypesOK
  <2>3. PortsTaken'
    BY <1>1 DEF AInv, PortsTaken, Shown
  <2>4. QED
    BY <2>2, <2>3
<1>3. QED
  BY <1>1, <1>2, PairsStay DEF AInv

LEMMA HideKeeps ==
    ASSUME AInv, NEW p \in Pods, Hide(p)
    PROVE  AInv'
<1>1. /\ UNCHANGED <<shape, node, shared, alive, bound, blind, doubled>>
      /\ p \in seen /\ seen' = seen \ {p}
      /\ bound[p] \in Nodes
      /\ DOMAIN used' = Nodes
      /\ \A n \in Nodes : used'[n] = IF n = bound[p] THEN used[n] \ HostPorts(shape[p]) ELSE used[n]
  BY DEF Hide, cluster, AInv, TypesOK, RemovePorts
<1>2. TypesOK'
  BY <1>1, FS_RemoveElement DEF AInv, TypesOK
<1>3. PortsTaken'
  <2> SUFFICES ASSUME NEW n \in Nodes \ doubled, NEW q \in Shown(n)'
               PROVE  /\ HostPorts(shape[q]) \subseteq used'[n]
                      /\ \A x \in Shown(n)' :
                            q # x => HostPorts(shape[q]) \cap HostPorts(shape[x]) = {}
    BY <1>1 DEF PortsTaken
  <2>1. Shown(n)' = Shown(n) \ {p}
    BY <1>1 DEF Shown
  <2>2. /\ HostPorts(shape[q]) \subseteq used[n]
        /\ \A x \in Shown(n) : q # x => HostPorts(shape[q]) \cap HostPorts(shape[x]) = {}
    BY <2>1 DEF AInv, PortsTaken
  <2>3. n = bound[p] => HostPorts(shape[q]) \cap HostPorts(shape[p]) = {}
    <3>1. n = bound[p] => p \in Shown(n) /\ p # q
      BY <1>1, <2>1 DEF Shown
    <3>2. QED
      BY <2>2, <3>1
  <2>4. HostPorts(shape[q]) \subseteq used'[n]
    BY <1>1, <2>2, <2>3
  <2>5. QED
    BY <2>1, <2>2, <2>4
<1>4. QED
  BY <1>1, <1>2, <1>3, PairsStay DEF AInv

LEMMA ShowKeeps ==
    ASSUME AInv, NEW p \in Pods, Show(p)
    PROVE  AInv'
<1>1. /\ UNCHANGED <<shape, node, shared, alive, bound, blind>>
      /\ p \notin seen /\ seen' = seen \cup {p}
      /\ bound[p] \in Nodes
      /\ DOMAIN used' = Nodes
      /\ \A n \in Nodes :
            used'[n] = IF n = bound[p] THEN used[n] \cup HostPorts(shape[p]) ELSE used[n]
      /\ doubled \subseteq doubled'
      /\ bound[p] \notin doubled' => HostPorts(shape[p]) \cap used[bound[p]] = {}
  BY DEF Show, cluster, AInv, TypesOK, AddPorts
<1>2. TypesOK'
  BY <1>1, FS_AddElement DEF AInv, TypesOK
<1>3. PortsTaken'
  <2> SUFFICES ASSUME NEW n \in Nodes, n \notin doubled'
               PROVE  \A q \in Shown(n)' :
                        /\ HostPorts(shape[q]) \subseteq used'[n]
                        /\ \A x \in Shown(n)' :
                              q # x => HostPorts(shape[q]) \cap HostPorts(shape[x]) = {}
    BY <1>1 DEF PortsTaken
  <2>1. \A q \in Shown(n) :
           /\ HostPorts(shape[q]) \subseteq used[n]
           /\ \A x \in Shown(n) : q # x => HostPorts(shape[q]) \cap HostPorts(shape[x]) = {}
    BY <1>1 DEF AInv, PortsTaken
  <2>2. CASE n # bound[p]
    <3>1. Shown(n)' = Shown(n)
      BY <1>1, <2>2 DEF Shown
    <3>2. QED
      BY <1>1, <2>1, <2>2, <3>1
  <2>3. CASE n = bound[p]
    <3>1. Shown(n)' = Shown(n) \cup {p}
      BY <1>1, <2>3 DEF Shown
    <3>2. used'[n] = used[n] \cup HostPorts(shape[p]) /\ HostPorts(shape[p]) \cap used[n] = {}
      BY <1>1, <2>3
    <3>3. \A q \in Shown(n) : HostPorts(shape[p]) \cap HostPorts(shape[q]) = {}
      BY <2>1, <3>2
    <3>4. QED
      BY <2>1, <3>1, <3>2, <3>3
  <2>4. QED
    BY <2>2, <2>3
<1>4. QED
  BY <1>1, <1>2, <1>3, PairsStay DEF AInv

(* Whatever the new pod is not blind to has been shown.                    *)
LEMMA PlaceFacts ==
    ASSUME AInv, NEW p \in Pods, Place(p)
    PROVE  /\ UNCHANGED <<shape, node, shared, alive, seen, used, doubled>>
           /\ p \in alive /\ p \notin seen /\ bound[p] = Nil
           /\ bound'[p] \in Feasible(p) /\ bound'[p] \in Nodes
           /\ \A q \in Pods : q # p => bound'[q] = bound[q] /\ blind'[q] = blind[q]
           /\ \A q \in alive : q # p /\ bound'[q] # Nil /\ q \notin blind'[p] => q \in seen
           /\ TypesOK'
<1>1. PICK n \in Feasible(p) : bound' = [bound EXCEPT ![p] = n]
  BY DEF Place
<1>2. n \in Nodes
  BY FiltersPassed
<1>3. /\ UNCHANGED <<shape, node, shared, alive, seen, used, doubled>>
      /\ p \in alive /\ bound[p] = Nil
      /\ blind' = [blind EXCEPT ![p] = {q \in alive \ seen : bound[q] # Nil}]
  BY DEF Place, cache
<1>4. p \notin seen
  BY <1>3, AdmissionAssumption DEF AInv, TypesOK
<1>5. bound'[p] = n /\ \A q \in Pods : q # p => bound'[q] = bound[q]
  BY <1>1 DEF AInv, TypesOK
<1>6. /\ blind'[p] = {q \in alive \ seen : bound[q] # Nil}
      /\ \A q \in Pods : q # p => blind'[q] = blind[q]
  BY <1>3 DEF AInv, TypesOK
<1>7. TypesOK'
  BY <1>1, <1>2, <1>3, <1>4 DEF AInv, TypesOK
<1>8. \A q \in alive : q # p /\ bound'[q] # Nil /\ q \notin blind'[p] => q \in seen
  BY <1>5, <1>6 DEF AInv, TypesOK
<1>9. QED
  BY <1>2, <1>3, <1>4, <1>5, <1>6, <1>7, <1>8

(* The pods that know of each other on the chosen node are shown, but for  *)
(* the new one, so that NodeResourcesFit has counted them.                 *)
LEMMA PlaceRoom ==
    ASSUME AInv, NEW p \in Pods, Place(p)
    PROVE  RoomKept'
<1> SUFFICES ASSUME NEW n \in Nodes, NEW S \in SUBSET Running(n)', \A x, y \in S : Aware(x, y)'
             PROVE  /\ Cardinality(S) <= node[n].allowedPods
                    /\ \A r \in Resources : Requested(S)[r] <= node[n].allocatable[r]
  <2>1. UNCHANGED <<shape, node>>
    BY PlaceFacts
  <2>2. /\ \A n \in Nodes : node'[n] = node[n]
        /\ \A S : Requested(S)' = Requested(S)
    BY <2>1 DEF Requested
  <2>3. QED
    BY <2>2, Zenon DEF RoomKept
<1>1. /\ UNCHANGED <<shape, node, alive, seen>>
      /\ p \in alive /\ bound'[p] \in Feasible(p)
      /\ \A q \in Pods : q # p => bound'[q] = bound[q] /\ blind'[q] = blind[q]
      /\ \A q \in alive : q # p /\ bound'[q] # Nil /\ q \notin blind'[p] => q \in seen
  BY PlaceFacts
<1>2. /\ alive \subseteq Pods /\ seen \subseteq Pods /\ shape \in [Pods -> PodShapes]
      /\ IsFiniteSet(alive) /\ IsFiniteSet(seen) /\ node[n] \in NodeShapes(n)
  BY DEF AInv, TypesOK
<1>3. \A q \in S : q \in alive /\ q \in Pods /\ bound'[q] = n /\ bound'[q] # Nil
  BY <1>1, <1>2, AdmissionAssumption DEF Running
<1> DEFINE R == S \ {p}
<1>4. /\ R \in SUBSET Running(n) /\ \A x, y \in R : Aware(x, y)
  <2>1. ASSUME NEW x \in R, NEW y \in R PROVE x \in Running(n) /\ Aware(x, y)
    BY <1>1, <1>3 DEF Running, Aware
  <2>2. QED
    BY <2>1
<1>5. /\ Cardinality(R) <= node[n].allowedPods
      /\ \A r \in Resources : Requested(R)[r] <= node[n].allocatable[r]
  BY <1>4, Zenon DEF AInv, RoomKept
<1>6. CASE p \notin S
  <2>1. R = S
    BY <1>6
  <2>2. QED
    BY <1>5, <2>1
<1>7. CASE p \in S
  <2>1. n \in Feasible(p)
    BY <1>1, <1>3, <1>7
  <2>2. R \in SUBSET Shown(n)
    <3>1. ASSUME NEW q \in R PROVE q \in Shown(n)
      <4>1. q \notin blind'[p]
        BY <1>7 DEF Aware
      <4>2. QED
        BY <1>1, <1>3, <4>1 DEF Shown
    <3>2. QED
      BY <3>1
  <2> DEFINE shown   == Shown(n)
             request == PodRequest(shape[p])
  <2>3. shown \in SUBSET Pods /\ IsFiniteSet(shown)
    BY <1>2, FS_Subset DEF Shown
  <2>4. /\ Cardinality(shown) + 1 <= node[n].allowedPods
        /\ \A r \in Resources :
              ~ /\ \E s \in Resources : request[s] > 0
                /\ r \in Scalar => request[r] > 0
                /\ node[n].allocatable[r] <
                      request[r] + Requested(shown)[r] + Reserved(node[n], r)
    <3>1. FitsResources(shape[p], node[n], shown, Requested(shown))
      BY <2>1, FiltersPassed
    <3>2. Insufficient(request, node[n], shown, Requested(shown)) = {}
      BY <3>1 DEF FitsResources
    <3>3. ~(Cardinality(shown) + 1 > node[n].allowedPods)
      BY <3>2 DEF Insufficient
    <3>4. Cardinality(shown) \in Nat /\ node[n].allowedPods \in Nat
      BY <1>2, <2>3, FS_CardinalityType, AdmissionAssumption
    <3> HIDE DEF shown, request
    <3>5. QED
      BY <3>2, <3>3, <3>4 DEF Insufficient
  <2>5. IsFiniteSet(S) /\ S \in SUBSET Pods /\ R \in SUBSET S
    BY <1>2, <1>3, FS_Subset
  <2> HIDE DEF shown
  <2>6. Cardinality(S) <= node[n].allowedPods
    <3>1. Cardinality(R) = Cardinality(S) - 1 /\ Cardinality(S) \in Nat
      BY <1>7, <2>5, FS_RemoveElement, FS_CardinalityType
    <3>2. Cardinality(R) <= Cardinality(shown) /\ Cardinality(shown) \in Nat
      BY <2>2, <2>3, FS_Subset, FS_CardinalityType DEF shown
    <3>3. node[n].allowedPods \in Nat
      BY <1>2, AdmissionAssumption
    <3>4. QED
      BY <2>4, <3>1, <3>2, <3>3
  <2>7. ASSUME NEW r \in Resources PROVE Requested(S)[r] <= node[n].allocatable[r]
    <3>1. Requested(S)[r] = request[r] + Requested(R)[r]
      BY <1>2, <1>7, <2>5, RequestedFacts
    <3>2. Requested(R)[r] <= Requested(shown)[r] /\ Requested(shown)[r] \in Nat
      BY <1>2, <2>2, <2>3, RequestedFacts DEF shown
    <3>3. Requested(R)[r] \in Nat
      <4>1. IsFiniteSet(R) /\ R \in SUBSET Pods
        BY <2>5, FS_Subset
      <4>2. QED
        BY <1>2, <4>1, RequestedFacts
    <3>4. request \in Amounts /\ request[r] \in Nat
      BY <1>2, RequestFacts DEF Amounts
    <3>5. Reserved(node[n], r) \in Nat /\ node[n].allocatable[r] \in Nat
      <4>1. node[n].allocatable \in Amounts
        BY <1>2, AdmissionAssumption
      <4>2. Reserved(node[n], r) \in Nat
        BY <1>2, ReservedIsNat
      <4>3. QED
        BY <4>1, <4>2 DEF Amounts
    <3> HIDE DEF request
    <3>6. CASE request[r] = 0
      <4>1. Requested(S)[r] = Requested(R)[r]
        BY <3>1, <3>3, <3>6
      <4>2. Requested(R)[r] <= node[n].allocatable[r]
        BY <1>5
      <4>3. QED
        BY <4>1, <4>2
    <3>7. CASE request[r] # 0
      <4>1. request[r] > 0
        BY <3>4, <3>7
      <4>2. ~(node[n].allocatable[r] < request[r] + Requested(shown)[r] + Reserved(node[n], r))
        BY <2>4, <4>1
      <4>3. QED
        BY <3>1, <3>2, <3>3, <3>4, <3>5, <4>2
    <3>8. QED
      BY <3>6, <3>7
  <2>8. QED
    BY <2>6, <2>7
<1>8. QED
  BY <1>6, <1>7

LEMMA PlaceKeeps ==
    ASSUME AInv, NEW p \in Pods, Place(p)
    PROVE  AInv'
<1> DEFINE n == bound'[p]
<1>1. /\ UNCHANGED <<shape, node, shared, alive, seen, used, doubled>>
      /\ p \in alive /\ p \notin seen /\ bound[p] = Nil
      /\ n \in Feasible(p) /\ n \in Nodes
      /\ \A q \in Pods : q # p => bound'[q] = bound[q] /\ blind'[q] = blind[q]
      /\ \A q \in alive : q # p /\ bound'[q] # Nil /\ q \notin blind'[p] => q \in seen
      /\ TypesOK'
  BY PlaceFacts
<1>2. alive \subseteq Pods /\ seen \subseteq Pods /\ TypesOK /\ PortsTaken
  BY DEF AInv, TypesOK
<1>3. PortsTaken'
  <2>1. \A m : Shown(m)' = Shown(m)
    BY <1>1, <1>2 DEF Shown
  <2>2. QED
    BY <1>1, <1>2, <2>1 DEF PortsTaken
<1> HIDE DEF n
<1>4. ASSUME NEW q \in alive, q # p, bound'[q] # Nil, Aware(q, p)'
      PROVE  q \in seen /\ bound'[q] = bound[q] /\ q \in Shown(bound'[q])
  BY <1>1, <1>2, <1>4 DEF Aware, Shown
<1>5. ASSUME NEW x \in alive, NEW y \in alive, x # p, y # p, Aware(x, y)'
      PROVE  Aware(x, y) /\ bound'[x] = bound[x] /\ bound'[y] = bound[y]
  BY <1>1, <1>2, <1>5 DEF Aware
<1>6. ASSUME NEW x, NEW y PROVE Aware(x, y)' => Aware(y, x)'
  BY DEF Aware
<1>7. PortsUnlessBlind'
  <2> SUFFICES ASSUME NEW x \in alive, NEW y \in alive, x # y, bound'[x] = bound'[y],
                      bound'[x] \in Nodes \ doubled, Aware(x, y)',
                      NEW cx \in shape[x].ports, NEW cy \in shape[y].ports
               PROVE  ~SamePort(cx, cy)
    <3>1. ASSUME NEW x \in alive', NEW y \in alive', x # y /\ bound'[x] = bound'[y],
                 bound'[x] \in Nodes \ doubled', Aware(x, y)',
                 NEW cx \in shape'[x].ports, NEW cy \in shape'[y].ports
          PROVE  ~SamePort(cx, cy)
      <4>1. /\ x \in alive /\ y \in alive /\ bound'[x] \in Nodes \ doubled
            /\ cx \in shape[x].ports /\ cy \in shape[y].ports
        BY <1>1, <3>1
      <4>2. QED
        BY <3>1, <4>1, Zenon
    <3>2. QED
      BY <3>1, Zenon DEF PortsUnlessBlind
  <2>0. bound'[x] # Nil
    BY AdmissionAssumption
  <2>1. CASE x # p /\ y # p
    BY <1>5, <2>1 DEF AInv, PortsUnlessBlind
  <2>2. CASE x = p
    <3>1. y \in Shown(n) /\ n \notin doubled
      BY <1>4, <1>6, <2>0, <2>2 DEF n
    <3>2. QED
      BY <1>1, <1>2, <2>2, <3>1, ShownPodsApart
  <2>3. CASE y = p
    <3>1. x \in Shown(n) /\ n \notin doubled
      BY <1>4, <2>0, <2>3 DEF n
    <3>2. QED
      BY <1>1, <1>2, <2>3, <3>1, ShownPodsApart
  <2>4. QED
    BY <2>1, <2>2, <2>3
<1>8. DisksUnlessBlind'
  <2> SUFFICES ASSUME NEW x \in alive, NEW y \in alive, x # y, bound'[x] = bound'[y],
                      bound'[x] # Nil, Aware(x, y)',
                      NEW v \in shape[x].disks, NEW w \in shape[y].disks,
                      v.kind = w.kind /\ v.id = w.id /\ v.parts \cap w.parts # {}
               PROVE  v.ro /\ w.ro
    <3>1. ASSUME NEW x \in alive', NEW y \in alive', x # y /\ bound'[x] = bound'[y],
                 bound'[x] # Nil /\ Aware(x, y)',
                 NEW v \in shape'[x].disks, NEW w \in shape'[y].disks,
                 v.kind = w.kind /\ v.id = w.id /\ v.parts \cap w.parts # {}
          PROVE  v.ro /\ w.ro
      <4>1. x \in alive /\ y \in alive /\ v \in shape[x].disks /\ w \in shape[y].disks
        BY <1>1
      <4>2. QED
        BY <3>1, <4>1, Zenon
    <3>2. QED
      BY <3>1, Zenon DEF DisksUnlessBlind
  <2>1. CASE x # p /\ y # p
    <3>1. Aware(x, y) /\ bound[x] = bound[y] /\ bound[x] # Nil
      BY <1>5, <2>1
    <3>2. QED
      BY <3>1, Zenon DEF AInv, DisksUnlessBlind
  <2>2. CASE x = p
    <3>1. y \in Shown(n)
      BY <1>4, <1>6, <2>2 DEF n
    <3>2. ~DiskConflict(v, w)
      BY <1>1, <1>2, <2>2, <3>1, ShownPodsApart
    <3>3. QED
      BY <3>2, Zenon DEF DiskConflict
  <2>3. CASE y = p
    <3>1. x \in Shown(n)
      BY <1>4, <2>3 DEF n
    <3>2. ~DiskConflict(w, v)
      BY <1>1, <1>2, <2>3, <3>1, ShownPodsApart
    <3>3. w.kind = v.kind /\ w.id = v.id /\ w.parts \cap v.parts # {}
      OBVIOUS
    <3>4. QED
      BY <3>2, <3>3, Zenon DEF DiskConflict
  <2>4. QED
    BY <2>1, <2>2, <2>3
<1>9. AntiAffinityUnlessBlind'
  <2> SUFFICES ASSUME shared, NEW x \in alive, NEW y \in alive, x # y, bound'[x] # Nil,
                      bound'[y] # Nil, Aware(x, y)',
                      NEW t \in shape[x].anti, TermMatches(shape, x, t, y)
               PROVE  ~SameDomain(t.key, bound'[x], bound'[y])
    BY <1>1 DEF AntiAffinityUnlessBlind, Forbids, SameDomain
  <2>1. CASE x # p /\ y # p
    <3>1. Aware(x, y) /\ bound'[x] = bound[x] /\ bound'[y] = bound[y]
      BY <1>5, <2>1
    <3>2. ~Forbids(x, y)
      BY <3>1, Zenon DEF AInv, AntiAffinityUnlessBlind
    <3>3. QED
      BY <3>1, <3>2 DEF Forbids
  <2>2. CASE x = p
    <3>1. y \in seen /\ bound'[y] = bound[y]
      BY <1>4, <1>6, <2>2
    <3>2. QED
      BY <1>1, <1>2, <2>2, <3>1, ShownTermsKept DEF n
  <2>3. CASE y = p
    <3>1. x \in seen /\ bound'[x] = bound[x]
      BY <1>4, <2>3
    <3>2. QED
      BY <1>1, <1>2, <2>3, <3>1, ShownTermsKept DEF n
  <2>4. QED
    BY <2>1, <2>2, <2>3
<1>10. RoomKept'
  BY PlaceRoom
<1>11. QED
  BY <1>1, <1>3, <1>7, <1>8, <1>9, <1>10 DEF AInv

-----------------------------------------------------------------------------
LEMMA AdmissionInit == Init => AInv
<1> SUFFICES ASSUME Init
             PROVE  AInv
  OBVIOUS
<1>1. alive = {} /\ seen = {} /\ TypesOK
  BY FS_EmptySet DEF Init, TypesOK
<1>2. PortsTaken
  BY <1>1 DEF PortsTaken, Shown
<1>3. RoomKept
  <2> SUFFICES ASSUME NEW n \in Nodes
               PROVE  /\ Cardinality({}) <= node[n].allowedPods
                      /\ \A r \in Resources : Requested({})[r] <= node[n].allocatable[r]
    <3>1. \A m : \A S \in SUBSET Running(m) : S = {}
      BY <1>1 DEF Running
    <3>2. ASSUME NEW m \in Nodes, NEW S \in SUBSET Running(m)
          PROVE  /\ Cardinality(S) <= node[m].allowedPods
                 /\ \A r \in Resources : Requested(S)[r] <= node[m].allocatable[r]
      <4>1. S = {}
        BY <3>1
      <4>2. QED
        BY <4>1, Zenon
    <3>3. QED
      BY <3>2, Zenon DEF RoomKept
  <2>1. node[n].allowedPods \in Nat /\ node[n].allocatable \in Amounts
    BY <1>1, AdmissionAssumption DEF TypesOK
  <2>2. Cardinality({}) = 0
    BY FS_EmptySet
  <2>3. \A r \in Resources : Requested({})[r] = 0
    BY SumOfNone DEF Requested
  <2>4. QED
    BY <2>1, <2>2, <2>3 DEF Amounts
<1>4. QED
  BY <1>1, <1>2, <1>3 DEF AInv, PortsUnlessBlind, DisksUnlessBlind, AntiAffinityUnlessBlind

LEMMA AdmissionNext == AInv /\ [Next]_vars => AInv'
<1> SUFFICES ASSUME AInv, [Next]_vars
             PROVE  AInv'
  OBVIOUS
<1>1. ASSUME NEW p \in Pods, Create(p) \/ Place(p) \/ Show(p) \/ Delete(p) \/ Hide(p)
      PROVE  AInv'
  BY <1>1, CreateKeeps, PlaceKeeps, ShowKeeps, DeleteKeeps, HideKeeps
<1>2. CASE UNCHANGED vars
  <2>1. UNCHANGED <<shape, node, shared, alive, bound, seen, used, blind, doubled>>
    BY <1>2 DEF vars, cluster, cache
  <2>2. TypesOK' /\ PortsTaken'
    BY <2>1 DEF AInv, TypesOK, PortsTaken, Shown
  <2>3. QED
    BY <2>1, <2>2, PairsStay DEF AInv
<1>3. QED
  BY <1>1, <1>2 DEF Next

LEMMA AdmissionInvariant == Spec => []AInv
  BY AdmissionInit, AdmissionNext, PTL DEF Spec

(* Pods placed with knowledge of each other fit on their node together, at *)
(* the largest stage of each (fit.go: fitsRequest, computePodResource-     *)
(* Request, with the reservations of a node).                              *)
THEOREM AwarePodsFit == Spec => []RoomUnlessBlind
<1>1. AInv => RoomUnlessBlind
  BY RoomIsKept DEF AInv, TypesOK
<1>2. QED
  BY <1>1, AdmissionInvariant, PTL

(* Pods placed with knowledge of each other share neither a host port, on a*)
(* node where no two pods have shown one port, nor a disk one of them      *)
(* writes (node_ports.go, volume_restrictions.go).                         *)
THEOREM AwarePodsShareNothing == Spec => []NothingSharedUnlessBlind
<1>1. AInv => NothingSharedUnlessBlind
  BY DEF AInv, NothingSharedUnlessBlind
<1>2. QED
  BY <1>1, AdmissionInvariant, PTL

(* With a snapshot that is shared with the plugins, anti-affinity holds in *)
(* both directions between pods placed with knowledge of each other, though*)
(* PreFilter looks at topology pairs instead of pods (filtering.go).       *)
THEOREM AwarePodsKeepAway == Spec => []AntiAffinityUnlessBlind
<1>1. AInv => AntiAffinityUnlessBlind
  BY DEF AInv
<1>2. QED
  BY <1>1, AdmissionInvariant, PTL

-----------------------------------------------------------------------------
(* Only Place binds a pod.                                                 *)
LEMMA OnlyPlaceBinds ==
    ASSUME AInv, [Next]_vars, NEW p \in Pods, bound[p] = Nil, bound'[p] # Nil
    PROVE  Place(p)
<1>1. bound' # bound
  OBVIOUS
<1>2. PICK q \in Pods : Create(q) \/ Place(q) \/ Show(q) \/ Delete(q) \/ Hide(q)
  BY <1>1 DEF Next, vars, cluster
<1>3. ~Show(q) /\ ~Delete(q) /\ ~Hide(q)
  BY <1>1 DEF Show, Delete, Hide, cluster
<1>4. ~Create(q)
  BY DEF Create, AInv, TypesOK
<1>5. Place(q) => q = p
  BY PlaceFacts
<1>6. QED
  BY <1>2, <1>3, <1>4, <1>5

(* A label of a node is a pair that PreFilter has found when a pod that    *)
(* matches all terms runs on a node with it, and no other pair is found.   *)
LEMMA AffinityPairsAre ==
    ASSUME TypesOK, shared, NEW p, NEW t, NEW value
    PROVE  <<t, value>> \in PreFilterState(p).affinity <=>
              \E q \in seen : /\ MatchesAllTerms(shape, p, q)
                             /\ \E u \in shape[p].affinity : u.key = t
                             /\ t \in DOMAIN node[bound[q]].labels
                             /\ node[bound[q]].labels[t] = value
<1> DEFINE on == [x \in Nodes |-> Shown(x)]
           at(m) == Pairs(node, m, shape[p].affinity)
           M == {m \in Nodes : \E q \in Shown(m) : MatchesAllTerms(shape, p, q)}
<1>1. PreFilterState(p).affinity = UNION {at(m) : m \in M}
  <2>1. DOMAIN on = Nodes /\ \A m \in Nodes : on[m] = Shown(m)
    OBVIOUS
  <2>2. {m \in DOMAIN on : \E q \in on[m] : MatchesAllTerms(shape, p, q)} = M
    BY <2>1
  <2>3. PreFilterState(p).affinity = AffinityPairs(shape, node, on, p)
    BY DEF PreFilterState, Listed, PreFilter
  <2> HIDE DEF M, on
  <2>4. QED
    BY <2>2, <2>3 DEF AffinityPairs
<1>2. ASSUME NEW m
      PROVE  <<t, value>> \in at(m) <=> /\ \E u \in shape[p].affinity : u.key = t
                                       /\ t \in DOMAIN node[m].labels
                                       /\ node[m].labels[t] = value
  BY DEF Pairs
<1>3. \A m : m \in M <=> m \in Nodes /\ \E q \in seen : bound[q] = m /\ MatchesAllTerms(shape, p, q)
  BY DEF Shown
<1>4. \A q \in seen : bound[q] \in Nodes
  BY DEF TypesOK
<1> HIDE DEF at, M
<1>5. <<t, value>> \in PreFilterState(p).affinity <=> \E m \in M : <<t, value>> \in at(m)
  BY <1>1
<1>6. QED
  BY <1>2, <1>3, <1>4, <1>5

(* Where Place puts a pod, with a snapshot that is shared with the plugins:*)
(* next to pods that match all its terms, in a domain of each, or anywhere *)
(* when it matches its own terms as the first of a series                  *)
(* (filtering.go:340-390).                                                 *)
THEOREM PlacedByAffinity == Spec => AffinityWhenPlaced
<1>1. AInv /\ [Next]_vars =>
         [\A p \in Pods :
            LET matching == {q \in seen : MatchesAllTerms(shape, p, q)}
            IN  shared /\ bound[p] = Nil /\ bound'[p] # Nil =>
                  \/ \A t \in shape[p].affinity : \E q \in matching :
                        SameDomain(t.key, bound'[p], bound[q])
                  \/ /\ MatchesAllTerms(shape, p, p)
                     /\ \A q \in matching, t \in shape[p].affinity :
                            t.key \notin DOMAIN node[bound[q]].labels]_vars
  <2> SUFFICES ASSUME AInv, [Next]_vars, NEW p \in Pods, shared, bound[p] = Nil, bound'[p] # Nil
               PROVE  \/ \A t \in shape[p].affinity :
                           \E q \in seen : /\ MatchesAllTerms(shape, p, q)
                                          /\ SameDomain(t.key, bound'[p], bound[q])
                      \/ /\ MatchesAllTerms(shape, p, p)
                         /\ \A q \in seen, t \in shape[p].affinity :
                               MatchesAllTerms(shape, p, q) =>
                                 t.key \notin DOMAIN node[bound[q]].labels
    OBVIOUS
  <2> DEFINE n     == bound'[p]
             pairs == PreFilterState(p).affinity
  <2>1. n \in Feasible(p)
    BY OnlyPlaceBinds, PlaceFacts
  <2> HIDE DEF n
  <2>2. SatisfiesAffinity(shape, PreFilterState(p), p, node[n])
    BY <2>1, FiltersPassed
  <2>3. TypesOK
    BY DEF AInv
  <2>4. CASE MatchesAllTopologyTerms(pairs, shape[p].affinity, node[n])
    <3>1. ASSUME NEW t \in shape[p].affinity
          PROVE  \E q \in seen : MatchesAllTerms(shape, p, q) /\ SameDomain(t.key, n, bound[q])
      <4>1. t.key \in DOMAIN node[n].labels /\ <<t.key, node[n].labels[t.key]>> \in pairs
        BY <2>4 DEF MatchesAllTopologyTerms
      <4>2. PICK q \in seen : /\ MatchesAllTerms(shape, p, q)
                              /\ t.key \in DOMAIN node[bound[q]].labels
                              /\ node[bound[q]].labels[t.key] = node[n].labels[t.key]
        BY <2>3, <4>1, AffinityPairsAre
      <4>3. QED
        BY <4>1, <4>2 DEF SameDomain
    <3>2. QED
      BY <3>1 DEF n
  <2>5. CASE pairs = {} /\ MatchesAllTerms(shape, p, p)
    <3>1. ASSUME NEW q \in seen, NEW t \in shape[p].affinity, MatchesAllTerms(shape, p, q),
                 t.key \in DOMAIN node[bound[q]].labels
          PROVE  FALSE
      <4>1. <<t.key, node[bound[q]].labels[t.key]>> \in pairs
        BY <2>3, <3>1, AffinityPairsAre
      <4>2. QED
        BY <2>5, <4>1
    <3>2. QED
      BY <2>5, <3>1
  <2>6. QED
    BY <2>2, <2>4, <2>5 DEF SatisfiesAffinity
<1>2. QED
  BY <1>1, AdmissionInvariant, PTL DEF Spec, AffinityWhenPlaced

=============================================================================
