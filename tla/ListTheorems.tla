---------------------------- MODULE ListTheorems ----------------------------
(***************************************************************************)
(* What the sequence operators that stand for the linked list of the cache *)
(* and for the arrays of the node tree return: RemoveAt, RemoveFirst, Cons *)
(* and Append; and the induction that recursive functions need.            *)
(***************************************************************************)
EXTENDS Integers, SequencesExt, FiniteSetsExt, Functions, SequenceTheorems,
        FiniteSetTheorems, WellFoundedInduction, TLAPS

-----------------------------------------------------------------------------
(* A sequence without the element at position i.                           *)
LEMMA RemoveAtFacts ==
    ASSUME NEW S, NEW list \in Seq(S), NEW i \in 1..Len(list)
    PROVE  /\ RemoveAt(list, i) \in Seq(S)
           /\ Len(RemoveAt(list, i)) = Len(list) - 1
           /\ \A j \in 1..Len(list)-1 :
                 RemoveAt(list, i)[j] = IF j < i THEN list[j] ELSE list[j+1]
<1> DEFINE a == SubSeq(list, 1, i-1)
           b == SubSeq(list, i+1, Len(list))
<1>0. Len(list) \in Nat
  OBVIOUS
<1>1. a \in Seq(S) /\ Len(a) = i-1 /\ \A j \in 1..i-1 : a[j] = list[j]
  OBVIOUS
<1>2. b \in Seq(S) /\ Len(b) = Len(list)-i /\ \A j \in 1..Len(list)-i : b[j] = list[i+j]
  OBVIOUS
<1>3. RemoveAt(list, i) = a \o b
  BY DEF RemoveAt
<1> HIDE DEF a, b
<1>4. /\ a \o b \in Seq(S)
      /\ Len(a \o b) = Len(a) + Len(b)
      /\ \A j \in 1..Len(a)+Len(b) :
            (a \o b)[j] = IF j <= Len(a) THEN a[j] ELSE b[j - Len(a)]
  BY <1>1, <1>2, ConcatProperties
<1>5. Len(a \o b) = Len(list) - 1
  BY <1>0, <1>1, <1>2, <1>4
<1>6. ASSUME NEW j \in 1..Len(list)-1
      PROVE  (a \o b)[j] = IF j < i THEN list[j] ELSE list[j+1]
  <2>1. CASE j < i
    BY <1>0, <1>1, <1>2, <1>4, <2>1
  <2>2. CASE j >= i
    <3>1. (a \o b)[j] = b[j - (i-1)]
      BY <1>0, <1>1, <1>2, <1>4, <2>2
    <3>2. j - (i-1) \in 1..Len(list)-i
      BY <1>0, <2>2
    <3>3. QED
      BY <1>0, <1>2, <2>2, <3>1, <3>2
  <2>3. j < i \/ j >= i
    BY <1>0
  <2>4. QED
    BY <2>1, <2>2, <2>3
<1>7. QED
  BY <1>3, <1>4, <1>5, <1>6

(* The first element equal to x of a sequence that has one.                *)
LEMMA RemoveFirstIsRemoveAt ==
    ASSUME NEW S, NEW list \in Seq(S), NEW x, NEW i \in 1..Len(list), list[i] = x,
           \A j \in 1..Len(list) : list[j] = x => j = i
    PROVE  RemoveFirst(list, x) = RemoveAt(list, i)
<1>1. {k \in 1..Len(list) : list[k] = x} = {i}
  OBVIOUS
<1>2. Min({i}) = i
  BY DEF Min
<1>3. QED
  BY <1>1, <1>2 DEF RemoveFirst, SelectInSeq

(* A sequence that does not have x stays as it is.                         *)
LEMMA RemoveFirstAbsent ==
    ASSUME NEW S, NEW list \in Seq(S), NEW x, x \notin Range(list)
    PROVE  RemoveFirst(list, x) = list
  BY DEF RemoveFirst, Range

(* Removing x from a list without repetitions takes x off its range and    *)
(* keeps the order of the others.                                          *)
LEMMA RemoveFirstFacts ==
    ASSUME NEW S, NEW list \in Seq(S), NEW x, IsInjective(list)
    PROVE  /\ RemoveFirst(list, x) \in Seq(S)
           /\ Range(RemoveFirst(list, x)) = Range(list) \ {x}
           /\ \A i, j \in DOMAIN RemoveFirst(list, x) : i < j =>
                 \E k, l \in DOMAIN list :
                    /\ k < l
                    /\ list[k] = RemoveFirst(list, x)[i]
                    /\ list[l] = RemoveFirst(list, x)[j]
<1> DEFINE r == RemoveFirst(list, x)
<1>0. Len(list) \in Nat /\ DOMAIN list = 1..Len(list)
  OBVIOUS
<1>1. CASE x \notin Range(list)
  <2>1. r = list
    BY <1>1, RemoveFirstAbsent
  <2>2. QED
    BY <1>1, <2>1
<1>2. CASE x \in Range(list)
  <2>1. PICK p \in 1..Len(list) : list[p] = x
    BY <1>0, <1>2 DEF Range
  <2>2. \A j \in 1..Len(list) : list[j] = x => j = p
    BY <1>0, <2>1 DEF IsInjective
  <2>3. r = RemoveAt(list, p)
    BY <2>1, <2>2, RemoveFirstIsRemoveAt
  <2>4. /\ r \in Seq(S)
        /\ Len(r) = Len(list) - 1
        /\ \A j \in 1..Len(list)-1 : r[j] = IF j < p THEN list[j] ELSE list[j+1]
    BY <2>3, RemoveAtFacts
  <2> HIDE DEF r
  <2>5. DOMAIN r = 1..Len(list)-1
    BY <1>0, <2>4
  <2>6. Range(r) = Range(list) \ {x}
    <3>1. ASSUME NEW j \in DOMAIN r PROVE r[j] \in Range(list) \ {x}
      <4>1. CASE j < p
        BY <1>0, <2>1, <2>2, <2>4, <2>5, <4>1 DEF Range
      <4>2. CASE ~(j < p)
        <5>1. j + 1 \in 1..Len(list) /\ j + 1 # p /\ r[j] = list[j+1]
          BY <1>0, <2>4, <2>5, <4>2
        <5>2. QED
          BY <1>0, <2>2, <5>1 DEF Range
      <4>3. QED
        BY <4>1, <4>2
    <3>2. ASSUME NEW k \in DOMAIN list, list[k] # x PROVE list[k] \in Range(r)
      <4>1. CASE k < p
        <5>1. k \in DOMAIN r /\ r[k] = list[k]
          BY <1>0, <2>4, <2>5, <4>1
        <5>2. QED
          BY <5>1 DEF Range
      <4>2. CASE k > p
        <5>1. k - 1 \in DOMAIN r /\ r[k-1] = list[k]
          BY <1>0, <2>4, <2>5, <4>2
        <5>2. QED
          BY <5>1 DEF Range
      <4>3. QED
        BY <1>0, <2>1, <3>2, <4>1, <4>2
    <3>3. QED
      BY <3>1, <3>2 DEF Range
  <2>7. ASSUME NEW i \in DOMAIN r, NEW j \in DOMAIN r, i < j
        PROVE  \E k, l \in DOMAIN list : k < l /\ list[k] = r[i] /\ list[l] = r[j]
    <3>1. PICK k \in DOMAIN list : list[k] = r[i] /\ k = IF i < p THEN i ELSE i+1
      BY <1>0, <2>4, <2>5
    <3>2. PICK l \in DOMAIN list : list[l] = r[j] /\ l = IF j < p THEN j ELSE j+1
      BY <1>0, <2>4, <2>5
    <3>3. k < l
      BY <1>0, <2>5, <2>7, <3>1, <3>2
    <3>4. QED
      BY <3>1, <3>2, <3>3
  <2>8. QED
    BY <2>4, <2>6, <2>7 DEF r
<1>3. QED
  BY <1>1, <1>2

(* A new head shifts the rest by one.                                      *)
LEMMA ConsFacts ==
    ASSUME NEW S, NEW list \in Seq(S), NEW x \in S
    PROVE  /\ Cons(x, list) \in Seq(S)
           /\ DOMAIN Cons(x, list) = 1..Len(list)+1
           /\ Cons(x, list)[1] = x
           /\ \A i \in 2..Len(list)+1 : i-1 \in DOMAIN list /\ Cons(x, list)[i] = list[i-1]
           /\ Range(Cons(x, list)) = Range(list) \cup {x}
<1>0. Len(list) \in Nat /\ DOMAIN list = 1..Len(list)
  OBVIOUS
<1>1. <<x>> \in Seq(S) /\ Len(<<x>>) = 1 /\ <<x>>[1] = x
  OBVIOUS
<1>2. /\ Cons(x, list) \in Seq(S)
      /\ Len(Cons(x, list)) = 1 + Len(list)
      /\ \A i \in 1..1+Len(list) :
            Cons(x, list)[i] = IF i <= 1 THEN <<x>>[i] ELSE list[i-1]
  BY <1>1, ConcatProperties DEF Cons
<1>3. DOMAIN Cons(x, list) = 1..Len(list)+1
  BY <1>0, <1>2
<1>4. Cons(x, list)[1] = x
  BY <1>0, <1>1, <1>2
<1>5. \A i \in 2..Len(list)+1 : i-1 \in DOMAIN list /\ Cons(x, list)[i] = list[i-1]
  BY <1>0, <1>2
<1>6. Range(Cons(x, list)) = Range(list) \cup {x}
  <2>1. ASSUME NEW i \in DOMAIN list PROVE list[i] \in Range(Cons(x, list))
    <3>1. i+1 \in DOMAIN Cons(x, list) /\ Cons(x, list)[i+1] = list[i]
      BY <1>0, <1>3, <1>5
    <3>2. QED
      BY <3>1 DEF Range
  <2>2. x \in Range(Cons(x, list))
    BY <1>0, <1>3, <1>4 DEF Range
  <2>3. ASSUME NEW i \in DOMAIN Cons(x, list)
        PROVE  Cons(x, list)[i] \in Range(list) \cup {x}
    <3>1. CASE i = 1
      BY <1>4, <3>1
    <3>2. CASE i # 1
      BY <1>0, <1>3, <1>5, <3>2 DEF Range
    <3>3. QED
      BY <3>1, <3>2
  <2>4. QED
    BY <2>1, <2>2, <2>3 DEF Range
<1>7. QED
  BY <1>2, <1>3, <1>4, <1>5, <1>6

(* RemoveFirst leaves a list without repetitions without repetitions.      *)
LEMMA RemoveFirstInjective ==
    ASSUME NEW S, NEW list \in Seq(S), NEW x, IsInjective(list)
    PROVE  IsInjective(RemoveFirst(list, x))
<1> DEFINE r == RemoveFirst(list, x)
<1>1. /\ r \in Seq(S)
      /\ \A i, j \in DOMAIN r : i < j =>
            \E k, l \in DOMAIN list : k < l /\ list[k] = r[i] /\ list[l] = r[j]
  BY RemoveFirstFacts
<1> HIDE DEF r
<1>2. \A i, j \in DOMAIN r : i < j => r[i] # r[j]
  BY <1>1 DEF IsInjective
<1>3. \A i, j \in DOMAIN r : i < j \/ i = j \/ j < i
  BY <1>1
<1>4. QED
  BY <1>2, <1>3 DEF IsInjective, r

(* A new last element.                                                     *)
LEMMA AppendFacts ==
    ASSUME NEW S, NEW list \in Seq(S), NEW x \in S
    PROVE  /\ Append(list, x) \in Seq(S)
           /\ Append(list, x) # <<>>
           /\ Len(Append(list, x)) = Len(list) + 1
           /\ \A i \in 1..Len(list) : Append(list, x)[i] = list[i]
           /\ Append(list, x)[Len(list) + 1] = x
           /\ Range(Append(list, x)) = Range(list) \cup {x}
           /\ IsInjective(list) /\ x \notin Range(list) => IsInjective(Append(list, x))
<1> DEFINE a == Append(list, x)
<1>0. Len(list) \in Nat /\ DOMAIN list = 1..Len(list)
  OBVIOUS
<1>1. /\ a \in Seq(S) /\ a # <<>>
      /\ Len(a) = Len(list) + 1
      /\ \A i \in 1..Len(list) : a[i] = list[i]
      /\ a[Len(list) + 1] = x
  OBVIOUS
<1> HIDE DEF a
<1>2. DOMAIN a = 1..Len(list) + 1
  BY <1>0, <1>1
<1>3. Range(a) = Range(list) \cup {x}
  <2>1. ASSUME NEW i \in DOMAIN a PROVE a[i] \in Range(list) \cup {x}
    BY <1>0, <1>1, <1>2 DEF Range
  <2>2. ASSUME NEW i \in DOMAIN list PROVE list[i] \in Range(a)
    <3>1. i \in DOMAIN a /\ a[i] = list[i]
      BY <1>0, <1>1, <1>2
    <3>2. QED
      BY <3>1 DEF Range
  <2>3. x \in Range(a)
    BY <1>0, <1>1, <1>2 DEF Range
  <2>4. QED
    BY <2>1, <2>2, <2>3 DEF Range
<1>4. ASSUME IsInjective(list), x \notin Range(list) PROVE IsInjective(a)
  <2> SUFFICES ASSUME NEW i \in DOMAIN a, NEW j \in DOMAIN a, a[i] = a[j]
               PROVE  i = j
    BY DEF IsInjective
  <2>1. CASE i \in DOMAIN list /\ j \in DOMAIN list
    BY <1>0, <1>1, <1>4, <2>1 DEF IsInjective
  <2>2. CASE i \in DOMAIN list /\ j = Len(list) + 1
    BY <1>0, <1>1, <1>4, <2>2 DEF Range
  <2>3. CASE i = Len(list) + 1 /\ j \in DOMAIN list
    BY <1>0, <1>1, <1>4, <2>3 DEF Range
  <2>4. QED
    BY <1>0, <1>2, <2>1, <2>2, <2>3
<1>5. QED
  BY <1>1, <1>3, <1>4 DEF a

-----------------------------------------------------------------------------
(* Induction, in the form the provers can use: a set of naturals has a     *)
(* least element, so what fails somewhere fails somewhere first.           *)
LEMMA NatHasLeast ==
    ASSUME NEW T, T \subseteq Nat, T # {}
    PROVE  \E m \in T : \A n \in T : m <= n
<1>1. IsWellFoundedOn(OpToRel(<, Nat), Nat)
  BY NatLessThanWellFounded
<1>2. PICK m \in T : \A n \in T : ~(<<n, m>> \in OpToRel(<, Nat))
  BY <1>1, WFMin
<1>3. ASSUME NEW n \in T PROVE m <= n
  <2>1. ~(n < m)
    BY <1>2, Zenon DEF OpToRel
  <2>2. n \in Nat /\ m \in Nat
    OBVIOUS
  <2>3. QED
    BY <2>1, <2>2
<1>4. QED
  BY <1>3

(* What holds of 0 and of the successor of each number up to k it holds of,*)
(* holds of every number up to k; a property is the set it holds on.       *)
LEMMA UpTo ==
    ASSUME NEW k \in Nat, NEW T, 0 \in T, \A i \in 0..k : i < k /\ i \in T => i + 1 \in T
    PROVE  0..k \subseteq T
<1> SUFFICES ASSUME ~(0..k \subseteq T) PROVE FALSE
  OBVIOUS
<1>1. PICK m \in (0..k) \ T : \A n \in (0..k) \ T : m <= n
  <2>1. (0..k) \ T \subseteq Nat /\ (0..k) \ T # {}
    OBVIOUS
  <2>2. QED
    BY <2>1, NatHasLeast
<1>2. m # 0
  OBVIOUS
<1>3. m - 1 \in 0..k /\ m - 1 < k
  BY <1>2
<1>4. m - 1 \in T
  BY <1>1, <1>3
<1>5. (m - 1) + 1 \in T
  BY <1>3, <1>4
<1>6. QED
  BY <1>5

-----------------------------------------------------------------------------
(* Induction over the subsets of a finite set: a set of subsets to which   *)
(* every subset belongs if it does without any one of its elements.        *)
LEMMA SubsetsUpTo ==
    ASSUME NEW D, IsFiniteSet(D), NEW T,
           \A s \in SUBSET D : (\A x \in s : s \ {x} \in T) => s \in T
    PROVE  SUBSET D \subseteq T
<1> DEFINE n == Cardinality(D)
           U == {k \in 0..n : \A s \in SUBSET D : Cardinality(s) = k => s \in T}
<1>1. n \in Nat
  BY FS_CardinalityType
<1>2. \A s \in SUBSET D : IsFiniteSet(s) /\ Cardinality(s) \in 0..n
  BY FS_Subset, FS_CardinalityType
<1>3. 0 \in U
  <2>1. \A s \in SUBSET D : Cardinality(s) = 0 => s = {}
    BY <1>2, FS_EmptySet
  <2>2. {} \in T
    OBVIOUS
  <2>3. QED
    BY <1>1, <2>1, <2>2
<1>4. ASSUME NEW k \in 0..n, k < n, k \in U PROVE k + 1 \in U
  <2>1. ASSUME NEW s \in SUBSET D, Cardinality(s) = k + 1 PROVE s \in T
    <3>1. ASSUME NEW x \in s PROVE s \ {x} \in T
      <4>1. IsFiniteSet(s) /\ Cardinality(s \ {x}) = Cardinality(s) - 1
        BY <1>2, FS_RemoveElement
      <4>2. Cardinality(s \ {x}) = k /\ s \ {x} \in SUBSET D
        BY <2>1, <4>1
      <4>3. QED
        BY <1>4, <4>2
    <3>2. QED
      BY <3>1
  <2>2. k + 1 \in 0..n
    BY <1>1, <1>4
  <2>3. QED
    BY <2>1, <2>2
<1> HIDE DEF U
<1>5. 0..n \subseteq U
  BY <1>1, <1>3, <1>4, UpTo
<1>6. ASSUME NEW s \in SUBSET D PROVE s \in T
  BY <1>2, <1>5 DEF U
<1>7. QED
  BY <1>6

(* A finite set of integers has a greatest element.                        *)
LEMMA MaxOf ==
    ASSUME NEW D \in SUBSET Int, IsFiniteSet(D), D # {}
    PROVE  Max(D) \in D /\ \A y \in D : Max(D) >= y
<1> DEFINE Tops(s) == {x \in s : \A y \in s : x >= y}
           T == {s \in SUBSET D : s # {} => Tops(s) # {}}
<1>1. ASSUME NEW s \in SUBSET D, \A x \in s : s \ {x} \in T PROVE s \in T
  <2>1. SUFFICES ASSUME NEW x \in s PROVE Tops(s) # {}
    OBVIOUS
  <2>2. CASE s \ {x} = {}
    <3>1. s = {x} /\ x \in Int
      BY <2>2
    <3>2. x \in Tops(s)
      BY <3>1
    <3>3. QED
      BY <3>2
  <2>3. CASE s \ {x} # {}
    <3>1. PICK t \in s \ {x} : \A y \in s \ {x} : t >= y
      BY <1>1, <2>3
    <3>2. t \in Int /\ x \in Int /\ \A y \in s : y \in Int
      OBVIOUS
    <3>3. CASE t >= x
      BY <3>1, <3>3
    <3>4. CASE x >= t
      <4>1. \A y \in s : x >= y
        BY <3>1, <3>2, <3>4
      <4>2. x \in Tops(s)
        BY <4>1
      <4>3. QED
        BY <4>2
    <3>5. QED
      BY <3>2, <3>3, <3>4
  <2>4. QED
    BY <2>2, <2>3
<1> HIDE DEF T
<1>2. D \in T
  BY <1>1, SubsetsUpTo
<1>3. \E x \in D : \A y \in D : x >= y
  BY <1>2 DEF T
<1>4. QED
  BY <1>3, Zenon DEF Max

-----------------------------------------------------------------------------
(* The folds of the library take elements away, ch[s] from the set s, one  *)
(* by one; c[s] is what they compute of s.                                 *)
FoldAt(c, base, g, ch, s) == IF s = {} THEN base ELSE g[<<ch[s], c[s \ {ch[s]}]>>]

CanFold(D, V, base, g, ch) ==
    /\ IsFiniteSet(D) /\ base \in V
    /\ \A s \in SUBSET D : s # {} => ch[s] \in s
    /\ \A x \in D, v \in V : g[<<x, v>>] \in V

IsFoldOf(c, D, V, base, g, ch) ==
    /\ c \in [SUBSET D -> V]
    /\ \A s \in SUBSET D : c[s] = FoldAt(c, base, g, ch, s)

LEMMA FoldExists ==
    ASSUME NEW D, NEW V, NEW base, NEW g, NEW ch, CanFold(D, V, base, g, ch)
    PROVE  \E c : IsFoldOf(c, D, V, base, g, ch)
<1>0. /\ IsFiniteSet(D) /\ base \in V
      /\ \A s \in SUBSET D : s # {} => ch[s] \in s
      /\ \A x \in D, v \in V : g[<<x, v>>] \in V
  BY DEF CanFold
<1> DEFINE n == Cardinality(D)
           Good(c, k) == \A s \in SUBSET D :
                            Cardinality(s) <= k => c[s] = FoldAt(c, base, g, ch, s)
           U == {k \in 0..n : \E c \in [SUBSET D -> V] : Good(c, k)}
<1>1. n \in Nat
  BY <1>0, FS_CardinalityType
<1>2. \A s \in SUBSET D : IsFiniteSet(s) /\ Cardinality(s) \in 0..n
  BY <1>0, FS_Subset, FS_CardinalityType
<1>3. 0 \in U
  <2> DEFINE c == [s \in SUBSET D |-> base]
  <2>1. \A s \in SUBSET D : Cardinality(s) <= 0 => s = {}
    BY <1>2, FS_EmptySet
  <2>2. Good(c, 0)
    BY <2>1 DEF FoldAt
  <2>3. c \in [SUBSET D -> V]
    BY <1>0
  <2> HIDE DEF c
  <2>4. \E b \in [SUBSET D -> V] : Good(b, 0)
    BY <2>2, <2>3
  <2>5. QED
    BY <1>1, <2>4
<1>4. ASSUME NEW k \in 0..n, k < n, k \in U PROVE k + 1 \in U
  <2>1. PICK c \in [SUBSET D -> V] : Good(c, k)
    BY <1>4
  <2> DEFINE d == [s \in SUBSET D |->
                     IF Cardinality(s) <= k THEN c[s] ELSE FoldAt(c, base, g, ch, s)]
  <2>2. \A s \in SUBSET D : d[s] = FoldAt(c, base, g, ch, s) \/ Cardinality(s) > k + 1
    BY <1>2, <2>1
  <2>3. ASSUME NEW s \in SUBSET D, s # {}, Cardinality(s) <= k + 1
        PROVE  d[s \ {ch[s]}] = c[s \ {ch[s]}]
    <3>1. ch[s] \in s
      BY <1>0, <2>3
    <3>2. Cardinality(s \ {ch[s]}) = Cardinality(s) - 1
      BY <1>2, <3>1, FS_RemoveElement
    <3>3. Cardinality(s \ {ch[s]}) <= k
      BY <1>2, <1>4, <2>3, <3>2
    <3>4. QED
      BY <3>3
  <2>4. d \in [SUBSET D -> V]
    <3>1. ASSUME NEW s \in SUBSET D PROVE FoldAt(c, base, g, ch, s) \in V
      <4>1. CASE s = {}
        BY <1>0, <4>1 DEF FoldAt
      <4>2. CASE s # {}
        <5>1. ch[s] \in D /\ s \ {ch[s]} \in SUBSET D
          BY <1>0, <4>2
        <5>2. c[s \ {ch[s]}] \in V
          BY <2>1, <5>1
        <5>3. QED
          BY <1>0, <4>2, <5>1, <5>2 DEF FoldAt
      <4>3. QED
        BY <4>1, <4>2
    <3>2. \A s \in SUBSET D : c[s] \in V
      BY <2>1
    <3>3. QED
      BY <3>1, <3>2
  <2> HIDE DEF d
  <2>5. Good(d, k + 1)
    <3>1. ASSUME NEW s \in SUBSET D, Cardinality(s) <= k + 1
          PROVE  d[s] = FoldAt(d, base, g, ch, s)
      <4>1. d[s] = FoldAt(c, base, g, ch, s)
        BY <1>2, <1>4, <2>2, <3>1
      <4>2. s # {} => d[s \ {ch[s]}] = c[s \ {ch[s]}]
        BY <2>3, <3>1
      <4>3. QED
        BY <4>1, <4>2 DEF FoldAt
    <3>2. QED
      BY <3>1
  <2>6. \E b \in [SUBSET D -> V] : Good(b, k + 1)
    BY <2>4, <2>5
  <2>7. QED
    BY <1>1, <1>4, <2>6
<1> HIDE DEF U
<1>5. n \in U
  BY <1>1, <1>3, <1>4, UpTo
<1>6. PICK c \in [SUBSET D -> V] : Good(c, n)
  BY <1>5 DEF U
<1>7. \A s \in SUBSET D : c[s] = FoldAt(c, base, g, ch, s)
  BY <1>2, <1>6
<1>8. QED
  BY <1>6, <1>7, Zenon DEF IsFoldOf

-----------------------------------------------------------------------------
(* Sums of a function's values.                                            *)
OneOf(s)       == CHOOSE x \in s : TRUE
SumAt(c, f, s) == IF s = {} THEN 0 ELSE f[OneOf(s)] + c[s \ {OneOf(s)}]
IsSumOf(c, f)  == c = [s \in SUBSET DOMAIN f |-> SumAt(c, f, s)]
PartialSums(f) == CHOOSE c : IsSumOf(c, f)

IntegersOn(f) == IsFiniteSet(DOMAIN f) /\ \A x \in DOMAIN f : f[x] \in Int

LEMMA SumsExist ==
    ASSUME NEW f, IntegersOn(f)
    PROVE  IsSumOf(PartialSums(f), f)
<1> DEFINE D  == DOMAIN f
           ch == [s \in SUBSET D |-> OneOf(s)]
           g  == [w \in D \X Int |-> f[w[1]] + w[2]]
<1>1. IsFiniteSet(D) /\ \A x \in D : f[x] \in Int
  BY DEF IntegersOn
<1>2. \A s \in SUBSET D : s # {} => ch[s] \in s /\ ch[s] = OneOf(s)
  BY DEF OneOf
<1>3. \A x \in D, v \in Int : g[<<x, v>>] = f[x] + v /\ g[<<x, v>>] \in Int
  BY <1>1
<1> HIDE DEF ch, g
<1>4. PICK c \in [SUBSET D -> Int] : \A s \in SUBSET D : c[s] = FoldAt(c, 0, g, ch, s)
  <2>1. CanFold(D, Int, 0, g, ch)
    BY <1>1, <1>2, <1>3 DEF CanFold
  <2>2. PICK c : IsFoldOf(c, D, Int, 0, g, ch)
    BY <2>1, FoldExists, Zenon
  <2>3. QED
    BY <2>2, Zenon DEF IsFoldOf
<1>5. ASSUME NEW s \in SUBSET D PROVE c[s] = SumAt(c, f, s)
  <2>1. CASE s = {}
    BY <1>4, <2>1 DEF FoldAt, SumAt
  <2>2. CASE s # {}
    <3>1. ch[s] = OneOf(s) /\ OneOf(s) \in D /\ s \ {OneOf(s)} \in SUBSET D
      BY <1>2, <2>2
    <3>2. c[s \ {OneOf(s)}] \in Int
      BY <1>4, <3>1
    <3>3. c[s] = g[<<OneOf(s), c[s \ {OneOf(s)}]>>]
      BY <1>4, <2>2, <3>1 DEF FoldAt
    <3>4. QED
      BY <1>3, <2>2, <3>1, <3>2, <3>3 DEF SumAt
  <2>3. QED
    BY <2>1, <2>2
<1>6. c = [s \in SUBSET D |-> SumAt(c, f, s)]
  <2>1. c = [s \in SUBSET D |-> c[s]]
    BY <1>4
  <2>2. QED
    BY <1>5, <2>1, Zenon
<1>7. QED
  BY <1>6, Zenon DEF PartialSums, IsSumOf

(* Whichever element is taken first, the sum is the same.                  *)
LEMMA SumFacts ==
    ASSUME NEW f, IntegersOn(f)
    PROVE  LET c == PartialSums(f)
           IN  /\ SumFunction(f) = c[DOMAIN f]
               /\ c[{}] = 0
               /\ \A s \in SUBSET DOMAIN f :
                     c[s] \in Int /\ \A x \in s : c[s] = f[x] + c[s \ {x}]
<1> DEFINE c == PartialSums(f)
           D == DOMAIN f
           T == {s \in SUBSET D : c[s] \in Int /\ \A x \in s : c[s \ {x}] \in Int
                                                      /\ c[s] = f[x] + c[s \ {x}]}
<1>1. SumFunction(f) = c[D]
  BY Zenon DEF SumFunction, SumFunctionOnSet, FoldFunction, FoldFunctionOnSet, MapThenFoldSet,
               PartialSums, IsSumOf, SumAt, OneOf
<1>2. \A s \in SUBSET D : c[s] = SumAt(c, f, s)
  <2>1. c = [s \in SUBSET D |-> SumAt(c, f, s)]
    BY SumsExist DEF IsSumOf
  <2> HIDE DEF c
  <2>2. QED
    BY <2>1
<1> HIDE DEF c
<1>3. IsFiniteSet(D) /\ \A x \in D : f[x] \in Int
  BY DEF IntegersOn
<1>4. c[{}] = 0
  BY <1>2 DEF SumAt
<1>5. ASSUME NEW s \in SUBSET D, \A x \in s : s \ {x} \in T PROVE s \in T
  <2>1. CASE s = {}
    BY <1>4, <2>1
  <2>2. CASE s # {}
    <3> DEFINE y == OneOf(s)
    <3>1. y \in s /\ y \in D
      BY <2>2 DEF OneOf
    <3>2. c[s] = f[y] + c[s \ {y}]
      BY <1>2, <2>2 DEF SumAt
    <3>3. f[y] \in Int /\ c[s \ {y}] \in Int
      BY <1>3, <1>5, <3>1
    <3> HIDE DEF y
    <3>4. ASSUME NEW x \in s PROVE c[s] = f[x] + c[s \ {x}]
      <4>1. CASE x = y
        BY <3>2, <4>1
      <4>2. CASE x # y
        <5>1. x \in s \ {y} /\ y \in s \ {x} /\ (s \ {x}) \ {y} = (s \ {y}) \ {x}
          BY <3>1, <4>2
        <5>2. c[s \ {y}] = f[x] + c[(s \ {y}) \ {x}]
          BY <1>5, <3>1, <5>1
        <5>3. c[s \ {x}] = f[y] + c[(s \ {y}) \ {x}] /\ c[s \ {x}] \in Int
          BY <1>5, <5>1
        <5>4. f[x] \in Int
          BY <1>3
        <5>5. c[(s \ {y}) \ {x}] \in Int
          BY <1>5, <3>1, <5>1
        <5>6. QED
          BY <3>2, <3>3, <5>2, <5>3, <5>4, <5>5
      <4>3. QED
        BY <4>1, <4>2
    <3>5. c[s] \in Int /\ \A x \in s : c[s \ {x}] \in Int
      <4>1. c[s] \in Int
        BY <3>2, <3>3
      <4>2. ASSUME NEW x \in s PROVE c[s \ {x}] \in Int
        <5>1. s \ {x} \in T
          BY <1>5
        <5>2. QED
          BY <5>1
      <4>3. QED
        BY <4>1, <4>2
    <3>6. QED
      BY <3>4, <3>5
  <2>3. QED
    BY <2>1, <2>2
<1> HIDE DEF T, D
<1>6. SUBSET D \subseteq T
  BY <1>3, <1>5, SubsetsUpTo
<1>7. QED
  BY <1>1, <1>4, <1>6 DEF T, D, c

(* The sum of a part is at most the sum of the whole, value by value.      *)
LEMMA SumBelow ==
    ASSUME NEW f, IntegersOn(f), NEW g, IntegersOn(g), DOMAIN g \subseteq DOMAIN f,
           \A x \in DOMAIN f : f[x] >= 0, \A x \in DOMAIN g : g[x] <= f[x]
    PROVE  SumFunction(g) <= SumFunction(f)
<1> DEFINE c == PartialSums(f)
           d == PartialSums(g)
           D == DOMAIN f
           E == DOMAIN g
           T == {s \in SUBSET D : d[s \cap E] <= c[s]}
<1>1. /\ SumFunction(f) = c[D] /\ c[{}] = 0
      /\ \A s \in SUBSET D : c[s] \in Int /\ \A x \in s : c[s] = f[x] + c[s \ {x}]
  BY SumFacts
<1>2. /\ SumFunction(g) = d[E] /\ d[{}] = 0
      /\ \A s \in SUBSET E : d[s] \in Int /\ \A x \in s : d[s] = g[x] + d[s \ {x}]
  BY SumFacts
<1>3. /\ IsFiniteSet(D) /\ E \subseteq D
      /\ \A x \in D : f[x] \in Int /\ f[x] >= 0
      /\ \A x \in E : g[x] \in Int /\ g[x] <= f[x]
  BY DEF IntegersOn
<1> HIDE DEF c, d, D, E
<1>4. ASSUME NEW s \in SUBSET D, \A x \in s : s \ {x} \in T PROVE s \in T
  <2>1. CASE s = {}
    <3>1. s \cap E = {}
      BY <2>1
    <3>2. QED
      BY <1>1, <1>2, <2>1, <3>1
  <2>2. CASE s # {}
    <3>1. PICK x \in s : TRUE
      BY <2>2
    <3>2. d[(s \ {x}) \cap E] <= c[s \ {x}] /\ c[s] = f[x] + c[s \ {x}]
      BY <1>1, <1>4
    <3>3. /\ s \cap E \in SUBSET E /\ (s \ {x}) \cap E \in SUBSET E
          /\ s \ {x} \in SUBSET D
      OBVIOUS
    <3>4. /\ d[s \cap E] \in Int /\ d[(s \ {x}) \cap E] \in Int
          /\ c[s \ {x}] \in Int /\ f[x] \in Int /\ f[x] >= 0
      BY <1>1, <1>2, <1>3, <3>3
    <3>5. CASE x \in E
      <4>1. (s \cap E) \ {x} = (s \ {x}) \cap E /\ x \in s \cap E
        BY <3>5
      <4>2. d[s \cap E] = g[x] + d[(s \ {x}) \cap E]
        BY <1>2, <3>3, <4>1
      <4>3. g[x] \in Int /\ g[x] <= f[x]
        BY <1>3, <3>5
      <4>4. d[s \cap E] <= c[s]
        BY <3>2, <3>4, <4>2, <4>3
      <4>5. QED
        BY <4>4
    <3>6. CASE x \notin E
      <4>1. s \cap E = (s \ {x}) \cap E
        BY <3>6
      <4>2. d[s \cap E] = d[(s \ {x}) \cap E]
        BY <4>1, Zenon
      <4>3. d[s \cap E] <= c[s]
        BY <3>2, <3>4, <4>2
      <4>4. QED
        BY <4>3
    <3>7. QED
      BY <3>5, <3>6
  <2>3. QED
    BY <2>1, <2>2
<1> HIDE DEF T
<1>5. D \in T
  BY <1>3, <1>4, SubsetsUpTo
<1>6. D \cap E = E
  BY <1>3
<1>7. QED
  BY <1>1, <1>2, <1>5, <1>6 DEF T

(* One value and the rest.                                                 *)
LEMMA SumSplit ==
    ASSUME NEW f, IntegersOn(f), NEW x \in DOMAIN f, NEW g, DOMAIN g = DOMAIN f \ {x},
           \A y \in DOMAIN g : g[y] = f[y]
    PROVE  /\ SumFunction(f) = f[x] + SumFunction(g)
           /\ SumFunction(f) \in Int /\ SumFunction(g) \in Int
<1> DEFINE c == PartialSums(f)
           d == PartialSums(g)
           D == DOMAIN f
           E == DOMAIN g
           T == {s \in SUBSET E : d[s] = c[s]}
<1>1. /\ SumFunction(f) = c[D] /\ c[{}] = 0
      /\ \A s \in SUBSET D : c[s] \in Int /\ \A y \in s : c[s] = f[y] + c[s \ {y}]
  BY SumFacts
<1>2. IntegersOn(g)
  BY FS_Subset DEF IntegersOn
<1>3. /\ SumFunction(g) = d[E] /\ d[{}] = 0
      /\ \A s \in SUBSET E : d[s] \in Int /\ \A y \in s : d[s] = g[y] + d[s \ {y}]
  BY <1>2, SumFacts
<1>4. IsFiniteSet(E) /\ E = D \ {x} /\ x \in D /\ \A y \in E : g[y] = f[y]
  BY <1>2 DEF IntegersOn
<1> HIDE DEF c, d, D, E
<1>0. D \in SUBSET D /\ D \ {x} \in SUBSET D /\ E \in SUBSET E
  BY Zenon
<1>5. ASSUME NEW s \in SUBSET E, \A y \in s : s \ {y} \in T PROVE s \in T
  <2>1. CASE s = {}
    BY <1>1, <1>3, <2>1
  <2>2. CASE s # {}
    <3>1. PICK y \in s : TRUE
      BY <2>2
    <3>2. s \in SUBSET D /\ y \in E
      BY <1>4
    <3>3. c[s] = f[y] + c[s \ {y}] /\ d[s] = g[y] + d[s \ {y}]
      BY <1>1, <1>3, <3>2
    <3>4. d[s] = c[s]
      BY <1>4, <1>5, <3>2, <3>3
    <3>5. QED
      BY <3>4
  <2>3. QED
    BY <2>1, <2>2
<1> HIDE DEF T
<1>6. E \in T
  <2>1. IsFiniteSet(E)
    BY <1>4
  <2>2. SUBSET E \subseteq T
    BY <1>5, <2>1, SubsetsUpTo
  <2>3. QED
    BY <2>2
<1>7. c[D] = f[x] + c[E]
  BY <1>0, <1>1, <1>4, Zenon
<1>8. c[D] \in Int /\ d[E] \in Int
  BY <1>0, <1>1, <1>3, Zenon
<1>9. QED
  BY <1>1, <1>3, <1>6, <1>7, <1>8 DEF T

LEMMA SumOfNone ==
    ASSUME NEW f, DOMAIN f = {}
    PROVE  SumFunction(f) = 0
<1>1. IntegersOn(f)
  BY FS_EmptySet DEF IntegersOn
<1>2. QED
  BY <1>1, SumFacts

(* A sum of values that are not negative.                                  *)
LEMMA SumNotNegative ==
    ASSUME NEW f, IntegersOn(f), \A x \in DOMAIN f : f[x] >= 0
    PROVE  0 <= SumFunction(f)
<1> DEFINE none == [x \in {} |-> 0]
<1>1. IntegersOn(none) /\ DOMAIN none = {}
  BY FS_EmptySet DEF IntegersOn
<1> HIDE DEF none
<1>2. SumFunction(none) = 0
  BY <1>1, SumOfNone
<1>3. SumFunction(none) <= SumFunction(f)
  BY <1>1, SumBelow
<1>4. QED
  BY <1>2, <1>3

(* The sum of a part whose values are all below the whole's.               *)
LEMMA SumGreater ==
    ASSUME NEW f, IntegersOn(f), NEW g, IntegersOn(g), DOMAIN g \subseteq DOMAIN f,
           NEW y \in DOMAIN g, \A x \in DOMAIN f : f[x] >= 0, \A x \in DOMAIN g : g[x] < f[x]
    PROVE  SumFunction(g) < SumFunction(f)
<1> DEFINE F == [x \in DOMAIN f \ {y} |-> f[x]]
           G == [x \in DOMAIN g \ {y} |-> g[x]]
<1>1. /\ DOMAIN F = DOMAIN f \ {y} /\ \A x \in DOMAIN F : F[x] = f[x]
      /\ DOMAIN G = DOMAIN g \ {y} /\ \A x \in DOMAIN G : G[x] = g[x]
  OBVIOUS
<1> HIDE DEF F, G
<1>2. /\ SumFunction(f) = f[y] + SumFunction(F) /\ SumFunction(F) \in Int
      /\ SumFunction(g) = g[y] + SumFunction(G) /\ SumFunction(G) \in Int
  BY <1>1, SumSplit
<1>3. IntegersOn(F) /\ IntegersOn(G)
  BY <1>1, FS_Subset DEF IntegersOn
<1>4. f[y] \in Int /\ g[y] \in Int /\ \A x \in DOMAIN g : g[x] \in Int /\ f[x] \in Int
  BY DEF IntegersOn
<1>5. \A x \in DOMAIN G : G[x] <= F[x]
  BY <1>1, <1>4
<1>6. \A x \in DOMAIN F : F[x] >= 0
  BY <1>1
<1>7. SumFunction(G) <= SumFunction(F)
  BY <1>1, <1>3, <1>5, <1>6, SumBelow
<1>8. QED
  BY <1>2, <1>4, <1>7

(* A sum of zeros.                                                         *)
LEMMA SumOfZeros ==
    ASSUME NEW f, IntegersOn(f), \A x \in DOMAIN f : f[x] = 0
    PROVE  SumFunction(f) = 0
<1> DEFINE c == PartialSums(f)
           D == DOMAIN f
           T == {s \in SUBSET D : c[s] = 0}
<1>1. /\ SumFunction(f) = c[D] /\ c[{}] = 0
      /\ \A s \in SUBSET D : c[s] \in Int /\ \A x \in s : c[s] = f[x] + c[s \ {x}]
  BY SumFacts
<1>2. IsFiniteSet(D) /\ \A x \in D : f[x] = 0
  BY DEF IntegersOn
<1> HIDE DEF c, D
<1>3. ASSUME NEW s \in SUBSET D, \A x \in s : s \ {x} \in T PROVE s \in T
  <2>1. CASE s = {}
    BY <1>1, <2>1
  <2>2. CASE s # {}
    <3>1. PICK x \in s : TRUE
      BY <2>2
    <3>2. c[s \ {x}] = 0 /\ c[s] = f[x] + c[s \ {x}] /\ f[x] = 0
      BY <1>1, <1>2, <1>3, <3>1
    <3>3. QED
      BY <3>2
  <2>3. QED
    BY <2>1, <2>2
<1> HIDE DEF T
<1>4. SUBSET D \subseteq T
  BY <1>2, <1>3, SubsetsUpTo
<1>5. QED
  BY <1>1, <1>4 DEF T

(* A sum of natural numbers is one.                                        *)
LEMMA SumIsNat ==
    ASSUME NEW f, IsFiniteSet(DOMAIN f), \A x \in DOMAIN f : f[x] \in Nat
    PROVE  SumFunction(f) \in Nat
<1> DEFINE g == [x \in {} |-> 0]
<1>1. IntegersOn(f)
  BY DEF IntegersOn
<1>2. DOMAIN g = {} /\ IntegersOn(g)
  BY FS_EmptySet DEF IntegersOn
<1> HIDE DEF g
<1>3. SumFunction(g) = 0
  BY <1>2, SumOfNone
<1>4. SumFunction(f) \in Int
  BY <1>1, SumFacts
<1>5. SumFunction(g) <= SumFunction(f)
  <2>1. \A x \in DOMAIN f : f[x] >= 0
    OBVIOUS
  <2>2. DOMAIN g \subseteq DOMAIN f /\ \A x \in DOMAIN g : g[x] <= f[x]
    BY <1>2
  <2>3. QED
    BY <1>1, <1>2, <2>1, <2>2, SumBelow
<1>6. QED
  BY <1>3, <1>4, <1>5

-----------------------------------------------------------------------------
(* A left fold takes the last element of a sequence away first; what it    *)
(* computes of the first k elements it computes of k-1 of them and the     *)
(* k-th.                                                                   *)
LEMMA PrefixFacts ==
    ASSUME NEW k \in Nat, k > 0
    PROVE  Max(1..k) = k /\ (1..k) \ {k} = 1..k-1
<1>1. 1..k \in SUBSET Int /\ IsFiniteSet(1..k) /\ k \in 1..k
  BY FS_Interval
<1>2. Max(1..k) \in 1..k /\ Max(1..k) >= k
  BY <1>1, MaxOf
<1>3. QED
  BY <1>2

LastFirst(c, n, V, base, g) ==
    /\ c \in [SUBSET (1..n) -> V]
    /\ c[{}] = base
    /\ \A s \in SUBSET (1..n) : s # {} => Max(s) \in s /\ c[s] = g[<<Max(s), c[s \ {Max(s)}]>>]

LEMMA LastFirstExists ==
    ASSUME NEW n \in Nat, NEW V, NEW base \in V, NEW g, \A i \in 1..n, v \in V : g[<<i, v>>] \in V
    PROVE  \E c : LastFirst(c, n, V, base, g)
<1> DEFINE D  == 1..n
           ch == [s \in SUBSET D |-> Max(s)]
<1>1. IsFiniteSet(D)
  BY FS_Interval
<1>2. ASSUME NEW s \in SUBSET D, s # {} PROVE Max(s) \in s
  <2>1. s \in SUBSET Int
    OBVIOUS
  <2> HIDE DEF D
  <2>2. IsFiniteSet(s)
    BY <1>1, FS_Subset
  <2>3. QED
    BY <1>2, <2>1, <2>2, MaxOf
<1>3. \A s \in SUBSET D : ch[s] = Max(s)
  OBVIOUS
<1> HIDE DEF ch
<1>4. CanFold(D, V, base, g, ch)
  BY <1>1, <1>2, <1>3 DEF CanFold
<1>5. PICK c : IsFoldOf(c, D, V, base, g, ch)
  BY <1>4, FoldExists, Zenon
<1>6. c \in [SUBSET D -> V] /\ \A s \in SUBSET D : c[s] = FoldAt(c, base, g, ch, s)
  BY <1>5, Zenon DEF IsFoldOf
<1>7. c[{}] = base
  BY <1>6 DEF FoldAt
<1>8. ASSUME NEW s \in SUBSET D, s # {}
      PROVE  Max(s) \in s /\ c[s] = g[<<Max(s), c[s \ {Max(s)}]>>]
  BY <1>2, <1>3, <1>6, <1>8 DEF FoldAt
<1>9. LastFirst(c, n, V, base, g)
  BY <1>6, <1>7, <1>8 DEF LastFirst
<1>10. QED
  BY <1>9
=============================================================================
