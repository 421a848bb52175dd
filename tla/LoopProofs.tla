----------------------------- MODULE LoopProofs -----------------------------
(***************************************************************************)
(* Theorems about the autoscaler, the short job scheduler and the choice   *)
(* among scored nodes, for every value of their constants.                 *)
(*                                                                         *)
(* The autoscaler changes the lister's object in place, so that the object *)
(* may differ from every version the API server ever had.  The invariant   *)
(* says when it does not matter: as soon as an object that was changed     *)
(* differs from the latest version by more than one step, its version is   *)
(* an old one, and the API server refuses it.                              *)
(*                                                                         *)
(* The short job scheduler: the round is what the loop went past last, so  *)
(* that it comes to a node of the round only when it has gone past all     *)
(* that suit.                                                              *)
(*                                                                         *)
(* Selection: a count that is stored is never 0, whatever other goroutines *)
(* stored in the meantime, so that a node once used stays one as long as   *)
(* the process; each score was made of a count the node had since the pod  *)
(* was taken.  Scores that are accepted are not negative, so that a node   *)
(* that beats another and was found as often has the greater total.        *)
(***************************************************************************)
EXTENDS Autoscaler, ShortJobScheduler, Selection, ListTheorems

(* Autoscaler.                                                             *)
Decisions == {"ScaleUp", "ScaleDown"}
Versions  == [replicas : Int, by : Decisions \union {"user"}]

ScalerType ==
    /\ api \in Seq(Versions)
    /\ Latest >= 1
    /\ lister \in [replicas : Int, version : 1..Latest]
    /\ phase \in {"sleep", "modify", "send"}
    /\ phase # "sleep" => decision \in Decisions
    /\ phase = "send" => obj \in [replicas : Int, version : 1..Latest]

(* The lister's object is as the API server has it, unless it is an old    *)
(* one or the one that is being sent.                                      *)
ListerTrue ==
    lister.version = Latest /\ (phase = "send" => obj.version # Latest)
        => lister.replicas = api[Latest].replicas

(* An object that would be accepted is one step from what it replaces.     *)
SentByOne ==
    phase = "send" /\ obj.version = Latest =>
        /\ obj.replicas = Changed(api[Latest].replicas)
        /\ decision = "ScaleDown" => obj.replicas >= 1

ScalerInv == ScalerType /\ ListerTrue /\ SentByOne /\ StepsByOne

-----------------------------------------------------------------------------
LEMMA Element ==
    ASSUME NEW S, NEW s \in Seq(S), NEW i \in 1..Len(s)
    PROVE  s[i] \in S
  OBVIOUS

LEMMA Appended ==
    ASSUME NEW S, NEW s \in Seq(S), NEW x \in S
    PROVE  /\ Append(s, x) \in Seq(S) /\ Len(Append(s, x)) = Len(s) + 1
           /\ \A i \in 1..Len(s) : Append(s, x)[i] = s[i]
           /\ Append(s, x)[Len(s) + 1] = x
  OBVIOUS

LEMMA ScalerStarts == ASSUME AutoscalerAssumption, ScalerInit PROVE ScalerInv
  <1>1. PICK r \in 0..MaxReplicas : api = <<Version(r, "user")>>
    BY DEF ScalerInit
  <1>2. Version(r, "user") \in Versions
    BY DEF Versions, Version, AutoscalerAssumption
  <1>3. api \in Seq(Versions) /\ Len(api) = 1 /\ api[1] = Version(r, "user")
    BY <1>1, <1>2
  <1>4. api[1].replicas \in Int
    BY <1>2, <1>3 DEF Versions
  <1>5. lister = [replicas |-> api[1].replicas, version |-> 1] /\ phase = "sleep"
    BY DEF ScalerInit, Object
  <1>6. ScalerType
    BY <1>3, <1>4, <1>5 DEF ScalerType, Latest
  <1>7. ListerTrue /\ SentByOne /\ StepsByOne
    BY <1>3, <1>5 DEF ListerTrue, SentByOne, StepsByOne, Latest
  <1> QED  BY <1>6, <1>7 DEF ScalerInv

(* A new scaler reads the latest version; so far as api is good, all is. *)
LEMMA DiePreserves ==
    ASSUME api' \in Seq(Versions), Len(api') >= 1,
           StepsByOne', Die
    PROVE  ScalerInv'
  <1> DEFINE n == Len(api')
  <1>1. n \in Nat /\ n >= 1 /\ api'[n] \in Versions /\ api'[n].replicas \in Int
    <2>1. n \in Nat /\ n >= 1
      OBVIOUS
    <2>2. api'[n] \in Versions
      BY <2>1, Element
    <2> QED  BY <2>1, <2>2 DEF Versions
  <1>2. phase' = "sleep" /\ lister' = [replicas |-> api'[n].replicas, version |-> n]
    BY DEF Die, Sleep, Object
  <1> QED  BY <1>1, <1>2, SMT DEF ScalerInv, ScalerType, ListerTrue, SentByOne, Latest

(* What others write leaves what the autoscaler has behind.                *)
LEMMA AppendPreserves ==
    ASSUME ScalerInv, NEW r \in Int, NEW by \in Decisions \union {"user"},
           api' = Append(api, Version(r, by)),
           by = "ScaleUp" => r = api[Latest].replicas + 1,
           by = "ScaleDown" => r = api[Latest].replicas - 1 /\ r >= 1
    PROVE  /\ api' \in Seq(Versions)
           /\ Latest' = Latest + 1
           /\ StepsByOne'
  <1>0. api \in Seq(Versions) /\ Version(r, by) \in Versions
    BY DEF ScalerInv, ScalerType, Version, Versions
  <1>1. /\ api' \in Seq(Versions)
        /\ Len(api') = Len(api) + 1 /\ Len(api) \in Nat /\ Len(api) >= 1
    BY <1>0, Appended DEF ScalerInv, ScalerType, Latest
  <1>2. \A i \in 1..Len(api) : api'[i] = api[i]
    BY <1>0, Appended
  <1>3. /\ api'[Len(api) + 1].replicas = r
        /\ api'[Len(api) + 1].by = by
    BY <1>0, Appended DEF Version
  <1>4. ASSUME NEW i \in 2..Len(api')
        PROVE  /\ api'[i].by = "ScaleUp" => api'[i].replicas = api'[i-1].replicas + 1
               /\ api'[i].by = "ScaleDown" => /\ api'[i].replicas = api'[i-1].replicas - 1
                                              /\ api'[i].replicas >= 1
    <2>1. CASE i \in 2..Len(api)
      BY <2>1, <1>1, <1>2 DEF ScalerInv, StepsByOne, Latest
    <2>2. CASE i = Len(api) + 1
      <3>1. i - 1 = Latest /\ api'[i-1] = api[Latest]
        BY <2>2, <1>1, <1>2 DEF Latest
      <3> QED  BY <2>2, <3>1, <1>3
    <2>3. i \in 2..Len(api) \/ i = Len(api) + 1
      BY <1>1
    <2> QED  BY <2>1, <2>2, <2>3
  <1> QED  BY <1>1, <1>4 DEF StepsByOne, Latest

-----------------------------------------------------------------------------
LEMMA Inductive ==
    ASSUME AutoscalerAssumption, ScalerInv, [ScalerNext]_scalerVars
    PROVE  ScalerInv'
  <1> USE DEF scalerVars, scaler
  <1>0. /\ api \in Seq(Versions)
        /\ Latest \in Nat /\ Latest >= 1
        /\ api[Latest] \in Versions /\ api[Latest].replicas \in Int
    <2>1. api \in Seq(Versions) /\ Latest \in Nat /\ Latest >= 1
      BY DEF ScalerInv, ScalerType, Latest
    <2>2. api[Latest] \in Versions
      BY <2>1, Element DEF Latest
    <2> QED  BY <2>1, <2>2 DEF Versions
  <1>1. ASSUME NEW in \in Readings, Compute(in) PROVE ScalerInv'
    <2>1. MakeDecision(Votes(in, dataCount')) \in Decisions \union {"DoNotScale"}
      BY DEF MakeDecision, Decisions
    <2>2. /\ UNCHANGED <<api, lister>> /\ phase = "sleep"
          /\ phase' = "sleep" \/ (phase' = "modify" /\ decision' \in Decisions)
      BY <1>1, <2>1 DEF Compute
    <2> QED  BY <2>2, SMT DEF ScalerInv, ScalerType, ListerTrue, SentByOne, StepsByOne, Latest
  <1>2. CASE Modify
    <2>1. CASE UNCHANGED api /\ Die
      BY <2>1, <1>0, DiePreserves DEF ScalerInv, StepsByOne, Latest
    <2>2. CASE phase = "modify" /\ Sleep /\ UNCHANGED <<api, lister>>
      BY <2>2, SMT DEF ScalerInv, ScalerType, ListerTrue, SentByOne, StepsByOne, Latest, Sleep
    <2>3. CASE /\ phase = "modify" /\ MayChange(lister.replicas)
               /\ lister' = [lister EXCEPT !.replicas = Changed(@)]
               /\ obj' = lister' /\ phase' = "send" /\ UNCHANGED <<api, decision>>
      <3>1. /\ lister' = [replicas |-> Changed(lister.replicas), version |-> lister.version]
            /\ Changed(lister.replicas) \in Int
        BY <2>3 DEF ScalerInv, ScalerType, Changed
      <3>2. ScalerType'
        BY <2>3, <3>1, SMT DEF ScalerInv, ScalerType, Latest
      <3>3. SentByOne'
        <4> SUFFICES ASSUME lister.version = Latest
                     PROVE  /\ Changed(lister.replicas) = Changed(api[Latest].replicas)
                            /\ decision = "ScaleDown" => Changed(lister.replicas) >= 1
          BY <2>3, <3>1 DEF SentByOne, Latest, Changed
        <4>1. lister.replicas = api[Latest].replicas
          BY <2>3 DEF ScalerInv, ListerTrue
        <4> QED  BY <4>1, <2>3 DEF Changed, MayChange, ScalerInv, ScalerType
      <3>4. ListerTrue' /\ StepsByOne'
        BY <2>3, <3>1 DEF ScalerInv, ListerTrue, StepsByOne, Latest
      <3> QED  BY <3>2, <3>3, <3>4 DEF ScalerInv
    <2> QED  BY <1>2, <2>1, <2>2, <2>3 DEF Modify
  <1>3. CASE Send
    <2>1. CASE UNCHANGED api /\ Die
      BY <2>1, <1>0, DiePreserves DEF ScalerInv, StepsByOne, Latest
    <2>2. CASE UNCHANGED api /\ Conflict
      <3>1. CASE Die
        BY <2>2, <3>1, <1>0, DiePreserves DEF ScalerInv, StepsByOne, Latest
      <3>2. CASE phase' = "modify" /\ UNCHANGED <<lister, decision>>
        BY <1>3, <2>2, <3>2, SMT
        DEF Send, Conflict, ScalerInv, ScalerType, ListerTrue, SentByOne, StepsByOne, Latest
      <3> QED  BY <2>2, <3>1, <3>2 DEF Conflict
    <2>3. CASE /\ phase = "send" /\ obj.version = Latest
               /\ api' = Append(api, Version(obj.replicas, decision))
               /\ (Sleep /\ UNCHANGED lister) \/ Die
      <3>1. /\ decision \in Decisions /\ obj.replicas \in Int
            /\ decision = "ScaleUp" => obj.replicas = api[Latest].replicas + 1
            /\ decision = "ScaleDown" => /\ obj.replicas = api[Latest].replicas - 1
                                         /\ obj.replicas >= 1
        BY <2>3 DEF ScalerInv, ScalerType, SentByOne, Changed
      <3>2. /\ api' \in Seq(Versions)
            /\ Latest' = Latest + 1 /\ StepsByOne'
        BY <3>1, <2>3, AppendPreserves
      <3>3. CASE Die
        BY <3>2, <3>3, <1>0, DiePreserves DEF Latest
      <3>4. CASE Sleep /\ UNCHANGED lister
        BY <3>2, <3>4, <1>0, SMT DEF Sleep, ScalerInv, ScalerType, ListerTrue, SentByOne
      <3> QED  BY <2>3, <3>3, <3>4
    <2> QED  BY <1>3, <2>1, <2>2, <2>3 DEF Send
  <1>4. ASSUME NEW r \in 0..MaxReplicas, Edit(r) PROVE ScalerInv'
    <2>1. /\ api' \in Seq(Versions)
          /\ Latest' = Latest + 1 /\ StepsByOne'
      BY <1>4, AppendPreserves DEF Edit, Decisions
    <2> QED  BY <1>0, <1>4, <2>1, SMT DEF Edit, ScalerInv, ScalerType, ListerTrue, SentByOne
  <1>5. CASE Label
    BY <1>5 DEF Label, ScalerInv, ScalerType, ListerTrue, SentByOne, StepsByOne, Latest, Changed
  <1>6. CASE Deliver
    <2>1. lister.version + 1 \in 1..Latest
      BY <1>0, <1>6 DEF Deliver, ScalerInv, ScalerType
    <2>2. lister' = [replicas |-> api[lister.version + 1].replicas, version |-> lister.version + 1]
      BY <1>6 DEF Deliver, Object
    <2>3. api[lister.version + 1].replicas \in Int
      <3>1. api[lister.version + 1] \in Versions
        BY <1>0, <2>1, Element DEF Latest
      <3> QED  BY <3>1 DEF Versions
    <2>4. UNCHANGED <<api, phase, decision, obj>> /\ Latest' = Latest
      BY <1>6 DEF Deliver, Latest
    <2>5. ScalerType'
      BY <1>0, <2>1, <2>2, <2>3, <2>4 DEF ScalerInv, ScalerType
    <2>6. ListerTrue'
      BY <2>2, <2>4 DEF ListerTrue
    <2>7. SentByOne' /\ StepsByOne'
      BY <2>4 DEF ScalerInv, SentByOne, StepsByOne, Changed
    <2> QED  BY <2>5, <2>6, <2>7 DEF ScalerInv
  <1>7. CASE Crash
    BY <1>7, <1>0, DiePreserves DEF Crash, ScalerInv, StepsByOne, Latest
  <1>8. CASE UNCHANGED scalerVars
    BY <1>8, SMT DEF ScalerInv, ScalerType, ListerTrue, SentByOne, StepsByOne, Latest, Changed
  <1> QED  BY <1>1, <1>2, <1>3, <1>4, <1>5, <1>6, <1>7, <1>8 DEF ScalerNext

(* Every version UpdateDeployment gets accepted differs by one replica     *)
(* from the version it replaces, in the direction decided, and the last    *)
(* replica is never taken, although the lister's object is changed in      *)
(* place and changed again on every conflict.                              *)
THEOREM OneReplicaAtATime ==
    ASSUME AutoscalerAssumption
    PROVE  ScalerSpec => []StepsByOne
  <1>1. ScalerInv => StepsByOne
    BY DEF ScalerInv
  <1> QED  BY ScalerStarts, Inductive, <1>1, PTL DEF ScalerSpec

-----------------------------------------------------------------------------
(* ShortJobScheduler.                                                      *)

(* As long as a job is the last one that was placed and nothing else       *)
(* happened to the nodes, those that suit it and that the loop gets to     *)
(* after a node of the round are in the round themselves: the round is     *)
(* what it went past last.                                                 *)
RoundIsLast ==
    \A m \in round, n \in nodes :
        Suits(lastJob, n) /\ TriedAfter(m) <= TriedAfter(n) => n \in round

ShortInv ==
    /\ job \in [Jobs -> [status : {"none", "waiting", "placed", "refused"}, node : Nat]]
    /\ nodes \subseteq NodeNames
    /\ previousNodeIndex \in Nat
    /\ round \subseteq nodes
    /\ lastJob = NoJob => round = {}
    /\ lastJob # NoJob => previousNodeIndex < Cardinality(nodes) /\ RoundIsLast

-----------------------------------------------------------------------------
(* The places of the names in the sorted list, each name has its own.      *)
LEMMA PlacesDiffer ==
    ASSUME ShortJobAssumption, nodes \subseteq NodeNames
    PROVE  /\ IsFiniteSet(nodes) /\ Cardinality(nodes) \in Nat
           /\ \A n \in nodes : PlaceOf(n) \in 0..Cardinality(nodes)-1
           /\ \A m, n \in nodes : m # n => PlaceOf(m) # PlaceOf(n)
<1>1. IsFiniteSet(nodes) /\ Cardinality(nodes) \in Nat
  BY FS_Subset, FS_CardinalityType DEF ShortJobAssumption
<1>2. \A n \in nodes : n \in Nat
  BY DEF ShortJobAssumption
<1> DEFINE Below(n) == {m \in nodes : m < n}
<1>3. ASSUME NEW n \in nodes PROVE IsFiniteSet(Below(n)) /\ Cardinality(Below(n)) \in Nat
  BY <1>1, FS_Subset, FS_CardinalityType
<1>4. ASSUME NEW n \in nodes PROVE Cardinality(Below(n)) < Cardinality(nodes)
  <2>1. n \notin Below(n)
    BY <1>2
  <2>2. Cardinality(Below(n)) <= Cardinality(nodes) /\ Below(n) # nodes
    BY <1>1, <2>1, FS_Subset
  <2>3. Cardinality(Below(n)) # Cardinality(nodes)
    BY <1>1, <2>2, FS_Subset
  <2>4. QED
    BY <1>1, <1>3, <2>2, <2>3
<1>5. ASSUME NEW m \in nodes, NEW n \in nodes, m < n
      PROVE  Cardinality(Below(m)) # Cardinality(Below(n))
  <2>1. Below(m) \in SUBSET Below(n) /\ m \in Below(n) \ Below(m)
    BY <1>2, <1>5
  <2>2. Cardinality(Below(n)) = Cardinality(Below(m)) => Below(n) = Below(m)
    BY <1>3, <2>1, FS_Subset
  <2>3. QED
    BY <2>1, <2>2
<1>6. ASSUME NEW m \in nodes, NEW n \in nodes, m # n PROVE PlaceOf(m) # PlaceOf(n)
  <2>1. m < n \/ n < m
    BY <1>2, <1>6
  <2>2. QED
    BY <1>5, <2>1 DEF PlaceOf
<1>7. ASSUME NEW n \in nodes PROVE PlaceOf(n) \in 0..Cardinality(nodes)-1
  <2>1. PlaceOf(n) = Cardinality(Below(n))
    BY Zenon DEF PlaceOf
  <2> HIDE DEF Below
  <2>2. QED
    BY <1>1, <1>3, <1>4, <2>1
<1>8. QED
  BY <1>1, <1>6, <1>7

(* How a list is gone round: from the place after i, then on from a.       *)
LEMMA Around ==
    ASSUME NEW N \in Nat, NEW i \in 0..N-1, NEW a \in 0..N-1
    PROVE  (a - i - 1) % N = IF a > i THEN a - i - 1 ELSE a - i - 1 + N
<1>1. CASE a > i
  <2>1. a - i - 1 \in 0..N-1
    BY <1>1
  <2>2. QED
    BY <1>1, <2>1
<1>2. CASE a <= i
  <2>1. a - i - 1 + N \in 0..N-1
    BY <1>2
  <2>2. a - i - 1 = (-1) * N + (a - i - 1 + N)
    OBVIOUS
  <2>3. QED
    BY <1>2, <2>1, <2>2
<1>3. QED
  BY <1>1, <1>2

(* When the loop gets to a node, from the place it has now and from the    *)
(* place of another node: that one is last then, and the others are nearer *)
(* by as many as the loop goes past.                                       *)
LEMMA GoneRound ==
    ASSUME ShortJobAssumption, nodes \subseteq NodeNames,
           previousNodeIndex \in 0..Cardinality(nodes)-1, NEW x \in nodes,
           previousNodeIndex' = PlaceOf(x), nodes' = nodes
    PROVE  /\ \A n \in nodes : TriedAfter(n) \in 0..Cardinality(nodes)-1
           /\ \A n \in nodes : TriedAfter(n) = TriedAfter(x) => n = x
           /\ \A n \in nodes :
                 TriedAfter(n)' = IF TriedAfter(n) > TriedAfter(x)
                                  THEN TriedAfter(n) - TriedAfter(x) - 1
                                  ELSE TriedAfter(n) - TriedAfter(x) - 1 + Cardinality(nodes)
<1> DEFINE N == Cardinality(nodes)
           i == previousNodeIndex
<1>1. /\ N \in Nat /\ \A n \in nodes : PlaceOf(n) \in 0..N-1
      /\ \A m, n \in nodes : m # n => PlaceOf(m) # PlaceOf(n)
  BY PlacesDiffer
<1>2. ASSUME NEW n \in nodes
      PROVE  TriedAfter(n) = IF PlaceOf(n) > i THEN PlaceOf(n) - i - 1 ELSE PlaceOf(n) - i - 1 + N
  BY <1>1, Around DEF TriedAfter
<1>3. ASSUME NEW n \in nodes
      PROVE  TriedAfter(n)' = IF PlaceOf(n) > PlaceOf(x) THEN PlaceOf(n) - PlaceOf(x) - 1
                              ELSE PlaceOf(n) - PlaceOf(x) - 1 + N
  <2>1. TriedAfter(n)' = (PlaceOf(n) - PlaceOf(x) - 1) % N
    BY DEF TriedAfter, PlaceOf
  <2>2. QED
    BY <1>1, <2>1, Around
<1> HIDE DEF N, i
<1>4. i \in 0..N-1
  BY DEF i, N
<1>5. ASSUME NEW n \in nodes
      PROVE  /\ TriedAfter(n) \in 0..N-1
             /\ TriedAfter(n) = TriedAfter(x) => n = x
             /\ TriedAfter(n)' = IF TriedAfter(n) > TriedAfter(x)
                                 THEN TriedAfter(n) - TriedAfter(x) - 1
                                 ELSE TriedAfter(n) - TriedAfter(x) - 1 + N
  BY <1>1, <1>2, <1>3, <1>4
<1>6. QED
  BY <1>5 DEF N

-----------------------------------------------------------------------------

(* A step that places a job, and the round after it.                       *)
LEMMA PlacedInRound ==
    ASSUME ShortJobAssumption, ShortInv, NEW j \in Jobs, NEW x \in nodes, Suits(j, x),
           previousNodeIndex < Cardinality(nodes),
           \A n \in nodes : Suits(j, n) => TriedAfter(x) <= TriedAfter(n),
           Found(j, x), lastJob' = j, UNCHANGED <<setting, nodes>>,
           round' = IF Alike(j, lastJob) /\ x \notin round THEN round \cup {x} ELSE {x}
    PROVE  /\ ShortInv'
           /\ Alike(j, lastJob) /\ x \in round => \A n \in nodes : Suits(j, n) => n \in round
<1> DEFINE N == Cardinality(nodes)
<1>1. /\ N \in Nat /\ previousNodeIndex \in 0..N-1 /\ j # NoJob
      /\ previousNodeIndex' = PlaceOf(x) /\ PlaceOf(x) \in 0..N-1
  BY PlacesDiffer DEF ShortInv, Found, ShortJobAssumption
<1>2. /\ \A n \in nodes : TriedAfter(n) \in 0..N-1
      /\ \A n \in nodes : TriedAfter(n) = TriedAfter(x) => n = x
      /\ \A n \in nodes : TriedAfter(n)' = IF TriedAfter(n) > TriedAfter(x)
                                          THEN TriedAfter(n) - TriedAfter(x) - 1
                                          ELSE TriedAfter(n) - TriedAfter(x) - 1 + N
  BY <1>1, GoneRound DEF ShortInv
<1>3. \A n : Suits(lastJob, n)' <=> Suits(j, n)
  BY DEF Suits
<1>4. /\ N' = N /\ nodes' = nodes /\ round \subseteq nodes /\ nodes \subseteq NodeNames
      /\ lastJob # NoJob => RoundIsLast
  BY DEF ShortInv
<1>5. Alike(j, lastJob) => \A n : Suits(lastJob, n) <=> Suits(j, n)
  BY DEF Alike, Suits
<1>6. Alike(j, lastJob) /\ x \in round => \A n \in nodes : Suits(j, n) => n \in round
  BY <1>4, <1>5 DEF RoundIsLast, Alike
<1> HIDE DEF N
<1>7. \A n \in nodes : Suits(j, n) => TriedAfter(n) \in 0..N-1 /\ TriedAfter(x) <= TriedAfter(n)
  BY <1>2
<1>8. TriedAfter(x)' = N - 1
  BY <1>1, <1>2
<1>9. ASSUME NEW m \in round', NEW n \in nodes', Suits(lastJob, n)',
             TriedAfter(m)' <= TriedAfter(n)'
      PROVE  n \in round'
  <2>1. CASE n = x
    BY <2>1
  <2>2. CASE n # x
    <3>1. TriedAfter(n) > TriedAfter(x) /\ TriedAfter(n)' = TriedAfter(n) - TriedAfter(x) - 1
      BY <1>2, <1>3, <1>4, <1>7, <1>9, <2>2
    <3>2. TriedAfter(m)' < N - 1 /\ m # x
      BY <1>1, <1>2, <1>4, <1>8, <1>9, <3>1
    <3>3. Alike(j, lastJob) /\ m \in round /\ round' = round \cup {x}
      BY <3>2
    <3>4. TriedAfter(m) <= TriedAfter(n)
      BY <1>1, <1>2, <1>4, <1>9, <3>1, <3>3
    <3>5. n \in round
      BY <1>3, <1>4, <1>5, <1>9, <3>3, <3>4 DEF RoundIsLast, Alike
    <3>6. QED
      BY <3>3, <3>5
  <2>3. QED
    BY <2>1, <2>2
<1>10. RoundIsLast'
  BY <1>9 DEF RoundIsLast
<1>11. job' \in [Jobs -> [status : {"none", "waiting", "placed", "refused"}, node : Nat]]
  BY <1>4 DEF ShortInv, Found, Job, ShortJobAssumption
<1>12. round' \subseteq nodes'
  BY <1>4
<1>13. QED
  BY <1>1, <1>4, <1>6, <1>10, <1>11, <1>12 DEF ShortInv, N

LEMMA ShortJobStep ==
    ASSUME ShortJobAssumption, ShortInv, [ShortNext]_shortVars
    PROVE  /\ ShortInv'
           /\ \A j \in Jobs : Placed(j) /\ Alike(j, lastJob) /\ job'[j].node \in round =>
                 \A n \in nodes : Suits(j, n) => n \in round
<1> DEFINE JobType == [Jobs -> [status : {"none", "waiting", "placed", "refused"}, node : Nat]]
           Rest    == \A j \in Jobs : ~Placed(j)
<1>0. job \in JobType
  BY DEF ShortInv
<1>1. ASSUME NEW j \in Jobs, Submit(j) PROVE ShortInv' /\ Rest
  <2>1. job' \in JobType /\ Rest
    BY <1>0, <1>1 DEF Submit, Job, Nowhere, Placed
  <2>2. QED
    BY <1>1, <2>1 DEF Submit, ShortInv, RoundIsLast, Suits, TriedAfter, PlaceOf
<1>2. ASSUME NEW j \in Jobs, Schedule(j), NEW x \in nodes, Suits(j, x),
             \A n \in nodes : Suits(j, n) => TriedAfter(x) <= TriedAfter(n),
             Found(j, x), lastJob' = j,
             round' = IF Alike(j, lastJob) /\ x \notin round THEN round \cup {x} ELSE {x}
      PROVE  /\ ShortInv'
             /\ \A k \in Jobs : Placed(k) /\ Alike(k, lastJob) /\ job'[k].node \in round =>
                   \A n \in nodes : Suits(k, n) => n \in round
  <2>1. previousNodeIndex < Cardinality(nodes) /\ UNCHANGED <<setting, nodes>>
    BY <1>2 DEF Schedule
  <2>2. /\ ShortInv'
        /\ Alike(j, lastJob) /\ x \in round => \A n \in nodes : Suits(j, n) => n \in round
    BY <1>2, <2>1, PlacedInRound
  <2>3. job'[j].node = x /\ \A k \in Jobs : Placed(k) => k = j
    BY <1>0, <1>2 DEF Found, Job, Placed
  <2>4. QED
    BY <2>2, <2>3
<1>3. ASSUME NEW j \in Jobs, Schedule(j), job' = [job EXCEPT ![j] = Job("refused", Nowhere)],
             UNCHANGED <<previousNodeIndex, round, lastJob>>
      PROVE  ShortInv' /\ Rest
  <2>1. job' \in JobType /\ Rest
    BY <1>0, <1>3 DEF Job, Nowhere, Placed
  <2>2. UNCHANGED <<setting, nodes>>
    BY <1>3 DEF Schedule
  <2>3. QED
    BY <1>3, <2>1, <2>2 DEF ShortInv, RoundIsLast, Suits, TriedAfter, PlaceOf
<1>4. ASSUME NEW j \in Jobs, IndexOutOfRange(j) PROVE ShortInv' /\ Rest
  BY <1>4 DEF IndexOutOfRange, ShortInv, RoundIsLast, Suits, TriedAfter, PlaceOf, Placed
<1>5. ASSUME Start PROVE ShortInv' /\ Rest
  <2>1. IsFiniteSet(nodes) /\ Cardinality(nodes) \in Nat
    BY PlacesDiffer DEF ShortInv
  <2>2. previousNodeIndex' \in Nat
    BY <1>5, <2>1 DEF Start, Places
  <2>3. QED
    BY <1>5, <2>2 DEF Start, ShortInv, Placed
<1>6. ASSUME NodeChange PROVE ShortInv' /\ Rest
  <2>1. nodes' \subseteq NodeNames
    BY <1>6 DEF NodeChange, ShortInv
  <2>2. QED
    BY <1>6, <2>1 DEF NodeChange, ShortInv, Placed
<1>7. CASE UNCHANGED shortVars
  BY <1>7 DEF shortVars, ShortInv, RoundIsLast, Suits, TriedAfter, PlaceOf, Placed
<1>8. ASSUME NEW j \in Jobs, Schedule(j)
      PROVE  \/ /\ job' = [job EXCEPT ![j] = Job("refused", Nowhere)]
                /\ UNCHANGED <<previousNodeIndex, round, lastJob>>
             \/ \E x \in nodes :
                  /\ Suits(j, x) /\ Found(j, x) /\ lastJob' = j
                  /\ \A n \in nodes : Suits(j, n) => TriedAfter(x) <= TriedAfter(n)
                  /\ round' = IF Alike(j, lastJob) /\ x \notin round THEN round \cup {x} ELSE {x}
  BY <1>8 DEF Schedule
<1>9. QED
  BY <1>1, <1>2, <1>3, <1>4, <1>5, <1>6, <1>7, <1>8 DEF ShortNext, ShortLoop

(* The jobs that are alike go round the nodes.                             *)
THEOREM JobsGoRound == ASSUME ShortJobAssumption PROVE ShortSpec => RoundRobin
<1>1. ASSUME ShortInit PROVE ShortInv
  <2>1. nodes \subseteq NodeNames
    BY <1>1 DEF ShortInit
  <2>2. previousNodeIndex \in Nat
    BY <1>1, <2>1, PlacesDiffer DEF ShortInit, Places
  <2>3. QED
    BY <1>1, <2>1, <2>2 DEF ShortInit, ShortInv, Job, Nowhere
<1>2. ShortInv /\ [ShortNext]_shortVars => ShortInv'
  BY ShortJobStep
<1>3. ShortInv /\ [ShortNext]_shortVars =>
        [\A j \in Jobs : Placed(j) /\ Alike(j, lastJob) /\ job'[j].node \in round =>
             \A n \in nodes : Suits(j, n) => n \in round]_shortVars
  BY ShortJobStep
<1>4. QED
  BY <1>1, <1>2, <1>3, PTL DEF ShortSpec, RoundRobin

-----------------------------------------------------------------------------
(* Selection.                                                              *)

(* The six scores of a node, and their total.                              *)
ScoresOf(p, n, x) == Append(Others(p, n), x)

LEMMA SixScores ==
    ASSUME NEW p, NEW n, NEW x
    PROVE  /\ DOMAIN ScoresOf(p, n, x) = 1..6 /\ DOMAIN Others(p, n) = 1..5
           /\ ScoresOf(p, n, x)[6] = x
           /\ \A i \in 1..5 : ScoresOf(p, n, x)[i] = Others(p, n)[i]
<1>1. PICK a, b, c, d, e : Others(p, n) = Append(<<a, b, c, d>>, e)
  BY DEF Others, FixedScores
<1> DEFINE S == {a, b, c, d, e, x}
           four == <<a, b, c, d>>
           five == Append(four, e)
<1>2. four \in Seq(S) /\ Len(four) = 4 /\ e \in S /\ x \in S
  OBVIOUS
<1> HIDE DEF S, four
<1>3. five \in Seq(S) /\ Len(five) = 5
  <2>1. five \in Seq(S) /\ Len(five) = Len(four) + 1
    <3>1. four \in Seq(S) /\ e \in S
      BY <1>2
    <3>2. Append(four, e) \in Seq(S) /\ Len(Append(four, e)) = Len(four) + 1
      BY <3>1, AppendFacts
    <3>3. QED
      BY <3>2 DEF five
  <2>2. QED
    BY <1>2, <2>1
<1> HIDE DEF five
<1>4. /\ Append(five, x) \in Seq(S) /\ Len(Append(five, x)) = 6
      /\ Append(five, x)[6] = x /\ \A i \in 1..5 : Append(five, x)[i] = five[i]
  <2>1. /\ Append(five, x) \in Seq(S) /\ Len(Append(five, x)) = Len(five) + 1
        /\ Append(five, x)[Len(five) + 1] = x
        /\ \A i \in 1..Len(five) : Append(five, x)[i] = five[i]
    <3>1. five \in Seq(S) /\ x \in S
      BY <1>2, <1>3
    <3>2. QED
      BY <3>1, AppendFacts
  <2>2. Len(five) + 1 = 6
    BY <1>3
  <2>3. QED
    BY <1>3, <2>1, <2>2
<1>5. DOMAIN Append(five, x) = 1..6 /\ DOMAIN five = 1..5
  BY <1>3, <1>4
<1>6. Others(p, n) = five /\ ScoresOf(p, n, x) = Append(five, x)
  BY <1>1 DEF five, four, ScoresOf
<1>7. QED
  BY <1>4, <1>5, <1>6

LEMMA TotalOfSix ==
    ASSUME NEW p, NEW n, NEW x, Acceptable(ScoresOf(p, n, x))
    PROVE  /\ x \in Int /\ SumFunction(Others(p, n)) \in Int
           /\ TotalScore(ScoresOf(p, n, x)) = x + SumFunction(Others(p, n))
<1> DEFINE s == ScoresOf(p, n, x)
           o == Others(p, n)
<1>1. DOMAIN s = 1..6 /\ DOMAIN o = 1..5 /\ s[6] = x /\ \A i \in 1..5 : s[i] = o[i]
  BY SixScores
<1> HIDE DEF s, o
<1>2. \A i \in DOMAIN s : s[i] \in Int
  <2>1. \A i \in DOMAIN s : s[i] \in 0..100
    BY DEF s, Acceptable, InRange, MinNodeScore, MaxNodeScore
  <2>2. QED
    BY <2>1
<1>3. IntegersOn(s)
  <2>1. 1 \in Int /\ 6 \in Int
    OBVIOUS
  <2>2. IsFiniteSet(1..6)
    BY <2>1, FS_Interval
  <2>3. QED
    BY <1>1, <1>2, <2>2 DEF IntegersOn
<1>4. 6 \in DOMAIN s /\ DOMAIN o = DOMAIN s \ {6} /\ \A i \in DOMAIN o : o[i] = s[i]
  BY <1>1
<1>5. SumFunction(s) = s[6] + SumFunction(o) /\ SumFunction(s) \in Int /\ SumFunction(o) \in Int
  BY <1>3, <1>4, SumSplit
<1>6. x \in Int
  BY <1>1, <1>2
<1>7. QED
  BY <1>1, <1>5, <1>6 DEF TotalScore, s, o

LEMMA TotalNotNegative ==
    ASSUME NEW p, NEW n, NEW x, Acceptable(ScoresOf(p, n, x))
    PROVE  TotalScore(ScoresOf(p, n, x)) \in Nat
<1> DEFINE s == ScoresOf(p, n, x)
<1>1. DOMAIN s = 1..6 /\ \A i \in 1..6 : s[i] \in 0..100
  <2>1. DOMAIN s = 1..6
    BY SixScores
  <2>2. QED
    BY <2>1 DEF Acceptable, InRange, MinNodeScore, MaxNodeScore
<1> HIDE DEF s
<1>2. IntegersOn(s) /\ \A i \in DOMAIN s : s[i] >= 0
  <2>1. IsFiniteSet(1..6)
    BY 1 \in Int, 6 \in Int, FS_Interval
  <2>2. \A k \in 0..100 : k \in Int /\ k >= 0
    OBVIOUS
  <2>3. QED
    BY <1>1, <2>1, <2>2 DEF IntegersOn
<1>3. SumFunction(s) \in Int /\ 0 <= SumFunction(s)
  BY <1>2, SumFacts, SumNotNegative
<1>4. QED
  BY <1>3 DEF TotalScore, s

-----------------------------------------------------------------------------
(* In results that descend from one to the next, none is better than one   *)
(* before it.                                                              *)
LEMMA Descending ==
    ASSUME NEW k \in Nat, NEW t \in [1..k -> Int], \A i \in 1..k-1 : t[i] >= t[i+1],
           NEW i \in 1..k, NEW j \in 1..k, i <= j
    PROVE  t[i] >= t[j]
<1> SUFFICES ASSUME ~(t[i] >= t[j]) PROVE FALSE
  OBVIOUS
<1> DEFINE T == {m \in i..k : ~(t[i] >= t[m])}
<1>1. PICK m \in T : \A n \in T : m <= n
  <2>1. T \subseteq Nat /\ j \in T
    OBVIOUS
  <2>2. QED
    BY <2>1, NatHasLeast
<1>2. m # i
  OBVIOUS
<1>3. m - 1 \in i..k /\ m - 1 \notin T /\ m - 1 \in 1..k-1
  BY <1>1, <1>2
<1>4. t[m-1] >= t[m] /\ t[i] >= t[m-1]
  BY <1>3
<1>5. t[m] \in Int /\ t[m-1] \in Int /\ t[i] \in Int
  BY <1>3
<1>6. QED
  BY <1>4, <1>5

(* The index that Select draws is one of the best.                         *)
LEMMA DrawnIsBest ==
    ASSUME IsFiniteSet(Viable), \A n \in Viable : Total(n) \in Int,
           NEW r \in Results(Viable), NEW i \in Indices(r), Viable # {}
    PROVE  r[i] \in Viable /\ \A n \in Viable : Total(n) <= Total(r[i])
<1> DEFINE k == Cardinality(Viable)
           t == [m \in 1..k |-> Total(r[m])]
<1>1. k \in Nat \ {0}
  BY FS_CardinalityType, FS_EmptySet
<1>2. r \in [1..k -> Viable] /\ \A a, b \in 1..k : a # b => r[a] # r[b]
  BY DEF Results, SetToSeqs
<1>3. Len(r) = k
  BY <1>1, <1>2
<1>4. \A m \in 1..k-1 : Total(r[m]) >= Total(r[m+1])
  BY <1>3 DEF Results
<1>5. t \in [1..k -> Int] /\ \A m \in 1..k-1 : t[m] >= t[m+1]
  BY <1>1, <1>2, <1>4
<1>6. \A n \in Viable : \E m \in 1..k : r[m] = n
  <2>1. r \in Injection(1..k, Viable) /\ Cardinality(1..k) = k /\ IsFiniteSet(1..k)
    BY <1>1, <1>2, FS_Interval DEF Injection, IsInjective
  <2>2. r \in Surjection(1..k, Viable)
    BY <2>1, FS_Injection
  <2>3. QED
    BY <2>2 DEF Surjection
<1>7. BestOf(r) = {m \in 1..k : t[m] = t[1]}
  BY <1>1, <1>2 DEF BestOf
<1> HIDE DEF k, t
<1>8. ASSUME NEW m \in 1..k PROVE t[1] >= t[m]
  <2>1. 1 \in 1..k /\ 1 <= m
    BY <1>1
  <2>2. QED
    BY <1>1, <1>5, <2>1, Descending
<1> DEFINE B == BestOf(r)
<1>9. B \subseteq 1..k /\ 1 \in B /\ IsFiniteSet(B) /\ Cardinality(B) \in Nat
  <2>1. B \subseteq 1..k /\ 1 \in B /\ IsFiniteSet(1..k)
    BY <1>1, <1>7, FS_Interval
  <2>2. QED
    BY <2>1, FS_Subset, FS_CardinalityType
<1>10. i \in B
  <2>1. CASE Cardinality(B) = 1
    BY <1>9, <2>1 DEF Indices
  <2>2. CASE Cardinality(B) # 1
    <3>1. i \in 1..Cardinality(B)-1
      BY <2>2 DEF Indices
    <3> SUFFICES ASSUME i \notin B PROVE FALSE
      OBVIOUS
    <3> HIDE DEF B
    <3>2. Cardinality(B) <= k
      <4>1. IsFiniteSet(1..k) /\ Cardinality(1..k) = k
        BY <1>1, FS_Interval
      <4>2. B \in SUBSET (1..k)
        BY <1>9
      <4>3. Cardinality(B) <= Cardinality(1..k)
        BY <4>1, <4>2, FS_Subset
      <4>4. QED
        BY <4>1, <4>3
    <3>3. i \in 1..k /\ i \in Nat
      BY <1>1, <1>9, <3>1, <3>2
    <3>4. ASSUME NEW m \in B PROVE m \in 1..i-1
      <4>1. m \in 1..k /\ t[m] = t[1]
        BY <1>7, <1>9 DEF B
      <4>2. ~(i <= m)
        <5> SUFFICES ASSUME i <= m PROVE FALSE
          OBVIOUS
        <5>1. t[i] >= t[m]
          BY <1>1, <1>5, <3>3, <4>1, Descending
        <5>2. t[1] >= t[i] /\ t[i] \in Int /\ t[1] \in Int
          BY <1>1, <1>5, <1>8, <3>3
        <5>3. t[i] = t[1]
          BY <4>1, <5>1, <5>2
        <5>4. QED
          BY <1>7, <3>3, <5>3 DEF B
      <4>3. QED
        BY <3>3, <4>1, <4>2
    <3>5. IsFiniteSet(1..i-1) /\ Cardinality(1..i-1) = i - 1
      BY <3>3, FS_Interval
    <3>6. Cardinality(B) <= i - 1
      BY <3>4, <3>5, FS_Subset
    <3>7. QED
      BY <1>9, <3>1, <3>6
  <2>3. QED
    BY <2>1, <2>2
<1>11. i \in 1..k /\ t[i] = t[1]
  BY <1>7, <1>9, <1>10
<1>12. r[i] \in Viable /\ \A m \in 1..k : Total(r[m]) = t[m]
  BY <1>2, <1>11 DEF t
<1>13. ASSUME NEW n \in Viable PROVE Total(n) <= Total(r[i])
  <2>1. PICK m \in 1..k : r[m] = n
    BY <1>6
  <2>2. t[m] <= t[i] /\ t[m] \in Int
    BY <1>1, <1>5, <1>8, <1>11
  <2>3. QED
    BY <1>11, <1>12, <2>1, <2>2
<1>14. QED
  BY <1>12, <1>13

-----------------------------------------------------------------------------
ChoiceType ==
    /\ world \in Worlds
    /\ answer \in [NewPods -> Nodes \cup {None}]
    /\ pod \in NewPods \cup {None}
    /\ Viable \subseteq Nodes /\ (pod # None => Viable # {})
    /\ viable \in [Viable -> Nat \ {0}]
    /\ nodeUsageMap \in [Nodes -> Nat] /\ before \in [Nodes -> Nat]
    /\ counting \in [NewPods -> [step : {"none", "start", "assign", "load", "store", "compare"},
                                 node : Nodes \cup {None}, count : Nat]]

(* A score was made of a count the node had since the pod was taken.       *)
CountedSince(e, u) ==
    /\ scores[e] = ScoresOf(pod, e[1], RepeatPriorityScore(u, PluginsHighest))
    /\ before[e[1]] > 0 => u > 0
    /\ u > 0 => nodeUsageMap[e[1]] > 0

ScoresCount ==
    DOMAIN scores \subseteq Entries /\ \A e \in DOMAIN scores : \E u \in Nat : CountedSince(e, u)

(* A count that is stored is of a node and is not 0, so that a node that   *)
(* was used stays one.                                                     *)
UsedStays == \A n \in Nodes : before[n] > 0 => nodeUsageMap[n] > 0

CountsGrow ==
    \A p \in NewPods :
        /\ counting[p].step # "none" => counting[p].node \in Nodes
        /\ counting[p].step = "store" => counting[p].count > 0

ChoiceInv == ChoiceType /\ ScoresCount /\ UsedStays /\ CountsGrow

-----------------------------------------------------------------------------
LEMMA WorldStays ==
    ASSUME world' = world
    PROVE  /\ NewPods' = NewPods /\ Nodes' = Nodes
           /\ \A p, n : Others(p, n)' = Others(p, n)
  BY DEF NewPods, Nodes, Others, PreScore

(* An entry is one of a viable node.                                       *)
LEMMA EntryNode ==
    ASSUME ChoiceType, NEW e \in Entries
    PROVE  /\ e[1] \in Viable /\ e[1] \in Nodes
           /\ \E i \in 1..viable[e[1]] : e = <<e[1], i>>
<1>1. PICK n \in Viable : e \in {n} \X (1..viable[n])
  BY DEF Entries
<1>2. PICK i \in 1..viable[n] : e = <<n, i>>
  BY <1>1
<1>3. QED
  BY <1>2 DEF ChoiceType

(* Where no count goes back to 0, what was said of the scores stays true.  *)
LEMMA ScoresStay ==
    ASSUME ScoresCount, world' = world, ChoiceType,
           \A n \in Nodes : nodeUsageMap[n] > 0 => nodeUsageMap'[n] > 0,
           UNCHANGED <<pod, viable, scores, before>>
    PROVE  ScoresCount'
<1>1. ASSUME NEW e \in DOMAIN scores, NEW u \in Nat, CountedSince(e, u) PROVE CountedSince(e, u)'
  <2>1. e[1] \in Nodes
    BY EntryNode DEF ScoresCount
  <2>2. QED
    BY <1>1, <2>1, WorldStays DEF CountedSince, ScoresOf, PluginsHighest
<1>2. Entries' = Entries
  BY DEF Entries, Viable
<1>3. QED
  BY <1>1, <1>2 DEF ScoresCount

LEMMA RestartInv ==
    ASSUME SelectionAssumption, ChoiceInv, ProcessEnds
    PROVE  ChoiceInv' /\ answer' = answer
<1>1. world' = world /\ answer' = answer /\ Restart
  BY DEF ProcessEnds
<1>2. NewPods' = NewPods /\ Nodes' = Nodes
  BY <1>1, WorldStays
<1>3. ChoiceType'
  BY <1>1, <1>2 DEF ChoiceInv, ChoiceType, Restart, Unused, Idle, Viable
<1>4. ScoresCount'
  <2>1. scores' = <<>> /\ DOMAIN <<>> = {}
    BY <1>1 DEF Restart
  <2>2. QED
    BY <2>1 DEF ScoresCount
<1>5. UsedStays' /\ CountsGrow'
  BY <1>1, <1>2 DEF Restart, Unused, Idle, UsedStays, CountsGrow
<1>6. QED
  BY <1>1, <1>3, <1>4, <1>5 DEF ChoiceInv

LEMMA TakePodInv ==
    ASSUME SelectionAssumption, ChoiceInv, NEW p \in NewPods, TakePod(p)
    PROVE  ChoiceInv' /\ answer' = answer
<1>1. world' = world /\ NewPods' = NewPods /\ Nodes' = Nodes
  BY WorldStays DEF TakePod
<1>2. ChoiceType'
  <2>1. PICK S \in (SUBSET Nodes) \ {{}} : viable' \in Finds(S)
    BY DEF TakePod
  <2>2. \A n \in Nodes : world.slots[n] \in Nat
    BY DEF SelectionAssumption, ChoiceInv, ChoiceType, Nodes
  <2>3. UNION {1..world.slots[n] : n \in S} \subseteq Nat \ {0}
    BY <2>2
  <2>4. viable' \in [S -> Nat \ {0}] /\ DOMAIN viable' = S
    BY <2>1, <2>3 DEF Finds
  <2>5. Viable' = S
    BY <2>4 DEF Viable
  <2>6. QED
    BY <1>1, <2>4, <2>5 DEF ChoiceInv, ChoiceType, TakePod
<1>3. ScoresCount'
  <2>1. scores' = <<>> /\ DOMAIN <<>> = {}
    BY DEF TakePod
  <2>2. QED
    BY <2>1 DEF ScoresCount
<1>4. UsedStays' /\ CountsGrow'
  BY <1>1 DEF ChoiceInv, TakePod, UsedStays, CountsGrow
<1>5. QED
  BY <1>2, <1>3, <1>4 DEF ChoiceInv, TakePod

LEMMA ScoreNodeInv ==
    ASSUME SelectionAssumption, ChoiceInv, NEW e \in Entries, ScoreNode(e)
    PROVE  ChoiceInv' /\ answer' = answer
<1>1. CASE Assigning
  BY <1>1, RestartInv DEF ScoreNode
<1>2. CASE ~Assigning
  <2> DEFINE s == ScoresOf(pod, e[1], RepeatPriorityScore(nodeUsageMap[e[1]], PluginsHighest))
  <2>0. e[1] \in Nodes
    BY EntryNode DEF ChoiceInv
  <2>1. /\ UNCHANGED <<world, answer, pod, viable, nodeUsageMap, highest, counting, before>>
        /\ scores' = [d \in DOMAIN scores \cup {e} |-> IF d # e THEN scores[d] ELSE s]
    BY <1>2 DEF ScoreNode, ScoresOf
  <2>2. NewPods' = NewPods /\ Nodes' = Nodes /\ \A q, m : Others(q, m)' = Others(q, m)
    BY <2>1, WorldStays
  <2>3. /\ DOMAIN scores' = DOMAIN scores \cup {e}
        /\ scores'[e] = s /\ \A d \in DOMAIN scores : d # e => scores'[d] = scores[d]
    <3> HIDE DEF s
    <3>1. QED
      BY <2>1
  <2>4. Viable' = Viable /\ Entries' = Entries
    BY <2>1 DEF Viable, Entries
  <2>5. ChoiceType' /\ UsedStays' /\ CountsGrow'
    BY <2>1, <2>2, <2>4 DEF ChoiceInv, ChoiceType, UsedStays, CountsGrow
  <2>6. ASSUME NEW d \in DOMAIN scores' PROVE \E u \in Nat : CountedSince(d, u)'
    <3>1. CASE d = e
      <4>1. nodeUsageMap[e[1]] \in Nat /\ (before[e[1]] > 0 => nodeUsageMap[e[1]] > 0)
        BY <2>0 DEF ChoiceInv, ChoiceType, UsedStays
      <4>2. PICK u \in Nat : u = nodeUsageMap[e[1]]
        BY <4>1
      <4>3. CountedSince(e, u)'
        BY <2>1, <2>2, <2>3, <4>1, <4>2 DEF CountedSince, ScoresOf, PluginsHighest
      <4>4. QED
        BY <3>1, <4>3
    <3>2. CASE d # e
      <4>1. PICK u \in Nat : CountedSince(d, u)
        BY <2>3, <3>2 DEF ChoiceInv, ScoresCount
      <4>2. CountedSince(d, u)'
        BY <2>1, <2>2, <2>3, <3>2, <4>1 DEF CountedSince, ScoresOf, PluginsHighest
      <4>3. QED
        BY <4>2
    <3>3. QED
      BY <3>1, <3>2
  <2>7. DOMAIN scores' \subseteq Entries'
    BY <2>3, <2>4 DEF ChoiceInv, ScoresCount
  <2>8. QED
    BY <2>1, <2>5, <2>6, <2>7 DEF ChoiceInv, ScoresCount
<1>3. QED
  BY <1>1, <1>2

LEMMA CountingInv ==
    ASSUME SelectionAssumption, ChoiceInv, NEW p \in NewPods, IncreaseNodeUsageFactor(p)
    PROVE  ChoiceInv' /\ answer' = answer
<1> DEFINE Kept == UNCHANGED <<world, answer, pod, viable, scores, before>>
           Counters == [step : {"none", "start", "assign", "load", "store", "compare"},
                        node : Nodes \cup {None}, count : Nat]
           Right(c) == (c.step # "none" => c.node \in Nodes) /\ (c.step = "store" => c.count > 0)
<1>1. /\ counting \in [NewPods -> Counters] /\ nodeUsageMap \in [Nodes -> Nat]
      /\ \A q \in NewPods : Right(counting[q])
  BY DEF ChoiceInv, ChoiceType, CountsGrow
<1>2. ASSUME Kept, NEW c \in Counters, Right(c), counting' = [counting EXCEPT ![p] = c],
             nodeUsageMap' \in [Nodes -> Nat],
             \A n \in Nodes : nodeUsageMap[n] > 0 => nodeUsageMap'[n] > 0
      PROVE  ChoiceInv' /\ answer' = answer
  <2>1. NewPods' = NewPods /\ Nodes' = Nodes
    BY <1>2, WorldStays
  <2>2. counting' \in [NewPods -> Counters] /\ \A q \in NewPods : Right(counting'[q])
    BY <1>1, <1>2
  <2>3. ChoiceType'
    BY <1>2, <2>1, <2>2 DEF ChoiceInv, ChoiceType, Viable
  <2>4. CountsGrow' /\ UsedStays'
    BY <1>2, <2>1, <2>2 DEF ChoiceInv, CountsGrow, UsedStays
  <2>5. ScoresCount'
    BY <1>2, ScoresStay DEF ChoiceInv
  <2>6. QED
    BY <1>2, <2>3, <2>4, <2>5 DEF ChoiceInv
<1>3. ASSUME Assigning, ProcessEnds PROVE ChoiceInv' /\ answer' = answer
  BY <1>3, RestartInv
<1>4. counting[p] \in Counters /\ Right(counting[p])
  BY <1>1
<1>5. ASSUME NEW to \in {"assign", "load", "compare"}, counting[p].step # "none"
      PROVE  /\ [counting[p] EXCEPT !.step = to] \in Counters
             /\ Right([counting[p] EXCEPT !.step = to])
  BY <1>4, <1>5
<1>6. CASE Assign(p)
  <2>1. CASE ~Assigning
    <3>1. Kept /\ nodeUsageMap' = nodeUsageMap /\ counting[p].step = "start"
          /\ counting' = [counting EXCEPT ![p] = [counting[p] EXCEPT !.step = "assign"]]
      BY <1>6, <2>1 DEF Assign, Step
    <3>2. QED
      BY <1>1, <1>2, <1>5, <3>1
  <2>2. QED
    BY <1>3, <1>6, <2>1 DEF Assign
<1>7. CASE Assigned(p)
  <2>1. Kept /\ nodeUsageMap' = nodeUsageMap /\ counting[p].step = "assign"
        /\ counting' = [counting EXCEPT ![p] = [counting[p] EXCEPT !.step = "load"]]
    BY <1>7 DEF Assigned, Step
  <2>2. QED
    BY <1>1, <1>2, <1>5, <2>1
<1>8. CASE Load(p)
  <2>1. PICK old \in Counters : old = counting[p]
    BY <1>4
  <2>2. PICK k : k = nodeUsageMap[old.node] + 1
    OBVIOUS
  <2> DEFINE c == [old EXCEPT !.step = "store", !.count = k]
  <2>3. c.step = "store" /\ c.node = old.node /\ c.count = k
    BY <2>1
  <2>4. k \in Nat => c \in Counters
    <3>1. PICK d \in Counters : d = [old EXCEPT !.step = "store"]
      BY <2>1
    <3>2. k \in Nat => [d EXCEPT !.count = k] \in Counters
      BY <3>1
    <3>3. c = [d EXCEPT !.count = k]
      BY <3>1
    <3>4. QED
      BY <3>2, <3>3
  <2> HIDE DEF c, Counters
  <2>5. Kept /\ nodeUsageMap' = nodeUsageMap /\ counting' = [counting EXCEPT ![p] = c]
    BY <1>8, <2>1, <2>2 DEF Load, c
  <2>6. old.node \in Nodes /\ nodeUsageMap[old.node] \in Nat
    BY <1>1, <1>4, <1>8, <2>1 DEF Load
  <2>7. k \in Nat /\ k > 0
    BY <2>2, <2>6
  <2>8. c \in Counters /\ Right(c)
    BY <2>3, <2>4, <2>6, <2>7
  <2>9. QED
    BY <1>1, <1>2, <2>5, <2>8
<1>9. CASE Store(p)
  <2>1. /\ Kept /\ counting[p].step = "store"
        /\ counting' = [counting EXCEPT ![p] = [counting[p] EXCEPT !.step = "compare"]]
        /\ nodeUsageMap' = [nodeUsageMap EXCEPT ![counting[p].node] = counting[p].count]
    BY <1>9 DEF Store, Step
  <2>2. counting[p].node \in Nodes /\ counting[p].count \in Nat /\ counting[p].count > 0
    BY <1>4, <2>1
  <2>3. /\ nodeUsageMap' \in [Nodes -> Nat]
        /\ \A n \in Nodes : nodeUsageMap[n] > 0 => nodeUsageMap'[n] > 0
    BY <1>1, <2>1, <2>2
  <2>4. QED
    BY <1>2, <1>5, <2>1, <2>3
<1>10. CASE Compare(p)
  <2>1. CASE ~Assigning
    <3>1. Kept /\ nodeUsageMap' = nodeUsageMap /\ counting' = [counting EXCEPT ![p] = Idle]
      BY <1>10, <2>1 DEF Compare
    <3>2. Idle \in Counters /\ Right(Idle)
      BY DEF Idle
    <3>3. QED
      BY <1>1, <1>2, <3>1, <3>2
  <2>2. QED
    BY <1>3, <1>10, <2>1 DEF Compare
<1>11. QED
  BY <1>6, <1>7, <1>8, <1>9, <1>10 DEF IncreaseNodeUsageFactor

LEMMA NodesAreFinite ==
    ASSUME SelectionAssumption, ChoiceType
    PROVE  IsFiniteSet(Viable) /\ None \notin Nodes
  BY FS_Subset DEF SelectionAssumption, ChoiceType, Nodes

(* What the entries of a node add up to.                                   *)
Row(n) == [i \in 1..viable[n] |-> EntryScore(n, i)]

LEMMA RowsAreIntegers ==
    ASSUME ChoiceInv, NEW n \in Viable, \A i \in 1..viable[n] : EntryScore(n, i) \in Nat
    PROVE  IntegersOn(Row(n)) /\ Total(n) = SumFunction(Row(n)) /\ Total(n) \in Int
<1>1. viable[n] \in Nat
  BY DEF ChoiceInv, ChoiceType
<1>2. IsFiniteSet(1..viable[n])
  BY <1>1, FS_Interval
<1>3. IntegersOn(Row(n)) /\ Total(n) = SumFunction(Row(n))
  BY <1>2 DEF IntegersOn, Row, Total
<1>4. QED
  BY <1>3, SumFacts

(* A node that beats another and was found as often has a greater total.   *)
LEMMA BeatenInTotal ==
    ASSUME ChoiceInv, NEW n \in Viable, NEW c \in Viable, viable[n] >= viable[c], Beats(n, c),
           \A m \in Viable : \A i \in 1..viable[m] : EntryScore(m, i) \in Nat
    PROVE  Total(c) < Total(n)
<1>1. viable[n] \in Nat \ {0} /\ viable[c] \in Nat \ {0}
  BY DEF ChoiceInv, ChoiceType
<1>2. /\ IntegersOn(Row(n)) /\ Total(n) = SumFunction(Row(n))
      /\ IntegersOn(Row(c)) /\ Total(c) = SumFunction(Row(c))
  BY RowsAreIntegers
<1>3. DOMAIN Row(c) = 1..viable[c] /\ DOMAIN Row(n) = 1..viable[n] /\ 1 \in DOMAIN Row(c)
  BY <1>1 DEF Row
<1>4. DOMAIN Row(c) \subseteq DOMAIN Row(n)
  BY <1>1, <1>3
<1>5. \A i \in DOMAIN Row(n) : Row(n)[i] >= 0
  BY DEF Row
<1>6. \A i \in DOMAIN Row(c) : Row(c)[i] < Row(n)[i]
  <2> SUFFICES ASSUME NEW i \in 1..viable[c] PROVE Row(c)[i] < Row(n)[i]
    BY <1>3
  <2>1. i \in 1..viable[n]
    BY <1>1
  <2>2. EntryScore(n, i) > EntryScore(c, i) /\ EntryScore(n, i) \in Nat /\ EntryScore(c, i) \in Nat
    BY <2>1 DEF Beats
  <2>3. QED
    BY <2>1, <2>2 DEF Row
<1>7. QED
  BY <1>2, <1>3, <1>4, <1>5, <1>6, SumGreater

(* What Select does: it answers a node that is not beaten by one that was  *)
(* found as often.                                                         *)
LEMMA SelectFacts ==
    ASSUME SelectionAssumption, ChoiceInv, Select
    PROVE  /\ pod \in NewPods
           /\ \A e \in Entries : e \in DOMAIN scores /\ Acceptable(scores[e])
           /\ \E c \in Viable :
                 /\ answer' = [answer EXCEPT ![pod] = c]
                 /\ counting' = [counting EXCEPT ![pod] = [step |-> "start", node |-> c, count |-> 0]]
                 /\ \A n \in Viable : viable[n] >= viable[c] => ~Beats(n, c)
<1>1. /\ pod \in NewPods /\ DOMAIN scores = Entries
      /\ \A e \in Entries : Acceptable(scores[e])
  BY DEF Select, Scored, ChoiceInv, ChoiceType
<1>2. IsFiniteSet(Viable)
  BY NodesAreFinite DEF ChoiceInv
<1>3. ASSUME NEW n \in Viable, NEW i \in 1..viable[n] PROVE EntryScore(n, i) \in Nat
  <2>1. <<n, i>> \in Entries
    BY DEF Entries
  <2>2. PICK u \in Nat : scores[<<n, i>>] = ScoresOf(pod, n, RepeatPriorityScore(u, PluginsHighest))
    BY <1>1, <2>1 DEF ChoiceInv, ScoresCount, CountedSince
  <2>3. QED
    BY <1>1, <2>1, <2>2, TotalNotNegative DEF EntryScore
<1>4. PICK r \in Results(Viable) : \E i \in Indices(r) :
         /\ answer' = [answer EXCEPT ![pod] = r[i]]
         /\ counting' = [counting EXCEPT ![pod] = [step |-> "start", node |-> r[i], count |-> 0]]
  BY DEF Select
<1>5. PICK i \in Indices(r) :
         /\ answer' = [answer EXCEPT ![pod] = r[i]]
         /\ counting' = [counting EXCEPT ![pod] = [step |-> "start", node |-> r[i], count |-> 0]]
  BY <1>4
<1>6. Viable # {}
  BY DEF Select, Scored, ChoiceInv, ChoiceType
<1>7. \A n \in Viable : Total(n) \in Int
  BY <1>3, RowsAreIntegers
<1>8. r[i] \in Viable /\ \A n \in Viable : Total(n) <= Total(r[i])
  BY <1>2, <1>6, <1>7, DrawnIsBest
<1>9. ASSUME NEW n \in Viable, viable[n] >= viable[r[i]], Beats(n, r[i]) PROVE FALSE
  <2>1. Total(r[i]) < Total(n)
    BY <1>3, <1>8, <1>9, BeatenInTotal
  <2>2. QED
    BY <1>7, <1>8, <2>1
<1>10. QED
  BY <1>1, <1>5, <1>8, <1>9

LEMMA SelectInv ==
    ASSUME SelectionAssumption, ChoiceInv, Select
    PROVE  ChoiceInv'
<1>1. PICK c \in Viable :
         /\ answer' = [answer EXCEPT ![pod] = c]
         /\ counting' = [counting EXCEPT ![pod] = [step |-> "start", node |-> c, count |-> 0]]
  BY SelectFacts
<1>2. pod \in NewPods /\ c \in Nodes
  BY SelectFacts DEF ChoiceInv, ChoiceType
<1>3. /\ pod' = None /\ viable' = <<>> /\ scores' = <<>>
      /\ UNCHANGED <<world, nodeUsageMap, highest, before>>
  BY DEF Select
<1>4. NewPods' = NewPods /\ Nodes' = Nodes
  BY <1>3, WorldStays
<1>5. ChoiceType'
  BY <1>1, <1>2, <1>3, <1>4 DEF ChoiceInv, ChoiceType, Viable
<1>6. ScoresCount'
  <2>1. DOMAIN <<>> = {}
    OBVIOUS
  <2>2. QED
    BY <1>3, <2>1 DEF ScoresCount
<1>7. UsedStays'
  BY <1>3, <1>4 DEF ChoiceInv, UsedStays
<1>8. CountsGrow'
  BY <1>1, <1>2, <1>4 DEF ChoiceInv, ChoiceType, CountsGrow
<1>9. QED
  BY <1>5, <1>6, <1>7, <1>8 DEF ChoiceInv

(* Every step keeps the invariant, and only Select answers.                *)
LEMMA ChoiceStep ==
    ASSUME SelectionAssumption, ChoiceInv, [ChoiceNext]_choiceVars
    PROVE  ChoiceInv' /\ (Select \/ answer' = answer)
<1>1. CASE UNCHANGED choiceVars
  <2>1. UNCHANGED <<world, answer, pod, viable, scores, nodeUsageMap, highest, counting, before>>
    BY <1>1 DEF choiceVars, process
  <2>2. NewPods' = NewPods /\ Nodes' = Nodes
    BY <2>1, WorldStays
  <2>3. ChoiceType' /\ UsedStays' /\ CountsGrow'
    BY <2>1, <2>2 DEF ChoiceInv, ChoiceType, UsedStays, CountsGrow, Viable
  <2>4. ScoresCount'
    BY <2>1, ScoresStay DEF ChoiceInv
  <2>5. QED
    BY <2>1, <2>3, <2>4 DEF ChoiceInv
<1>2. ASSUME NoResults PROVE ChoiceInv' /\ answer' = answer
  BY <1>2, RestartInv DEF NoResults
<1>3. QED
  BY <1>1, <1>2, SelectInv, TakePodInv, ScoreNodeInv, CountingInv DEF ChoiceNext, ChoiceLoop

LEMMA ChoiceStarts == ASSUME SelectionAssumption, ChoiceInit PROVE ChoiceInv
<1>1. scores = <<>> /\ DOMAIN <<>> = {}
  BY DEF ChoiceInit
<1>2. ChoiceType
  BY DEF ChoiceInit, ChoiceType, Unused, Idle, Viable
<1>3. ScoresCount
  BY <1>1 DEF ScoresCount
<1>4. UsedStays /\ CountsGrow
  BY DEF ChoiceInit, UsedStays, CountsGrow, Unused, Idle
<1>5. QED
  BY <1>2, <1>3, <1>4 DEF ChoiceInv

-----------------------------------------------------------------------------
(* The node that is answered is not beaten by one found as often.          *)
LEMMA AnsweredIsBest ==
    ASSUME SelectionAssumption, ChoiceInv, Select, NEW p \in NewPods,
           answer[p] = None, answer'[p] # None
    PROVE  /\ p = pod /\ answer'[p] \in Viable
           /\ \A e \in Entries : e \in DOMAIN scores /\ Acceptable(scores[e])
           /\ \A n \in Viable : viable[n] >= viable[answer'[p]] => ~Beats(n, answer'[p])
<1>1. PICK c \in Viable :
         /\ answer' = [answer EXCEPT ![pod] = c]
         /\ \A n \in Viable : viable[n] >= viable[c] => ~Beats(n, c)
  BY SelectFacts
<1>2. answer \in [NewPods -> Nodes \cup {None}]
  BY DEF ChoiceInv, ChoiceType
<1>3. p = pod /\ answer'[p] = c
  BY <1>1, <1>2
<1>4. QED
  BY <1>1, <1>3, SelectFacts

(* Every entry of a used node has 100 less than one of an unused node that *)
(* is otherwise as good.                                                   *)
LEMMA UnusedIsBetter ==
    ASSUME SelectionAssumption, ChoiceInv, NEW c \in Viable, NEW n \in Viable, ~Beats(n, c),
           \A e \in Entries : e \in DOMAIN scores /\ Acceptable(scores[e]),
           before[c] > 0, Others(pod, n) = Others(pod, c)
    PROVE  nodeUsageMap[n] > 0
<1>1. PICK i \in 1..viable[n], j \in 1..viable[c] : ~(EntryScore(n, i) > EntryScore(c, j))
  BY DEF Beats
<1> DEFINE d == <<n, i>>
           e == <<c, j>>
<1>2. d \in Entries /\ e \in Entries /\ d[1] = n /\ e[1] = c
  BY DEF Entries
<1>3. TotalScore(scores[d]) = EntryScore(n, i) /\ TotalScore(scores[e]) = EntryScore(c, j)
  BY DEF EntryScore
<1> HIDE DEF d, e
<1>4. PICK u \in Nat : CountedSince(d, u)
  BY <1>2 DEF ChoiceInv, ScoresCount
<1>5. PICK v \in Nat : CountedSince(e, v)
  BY <1>2 DEF ChoiceInv, ScoresCount
<1>6. v > 0
  BY <1>2, <1>5 DEF CountedSince
<1>7. RepeatPriorityScore(v, PluginsHighest) = 0
  BY <1>6 DEF RepeatPriorityScore, Decay, PluginsHighest
<1>8. u = 0 => RepeatPriorityScore(u, PluginsHighest) = 100
  BY DEF RepeatPriorityScore, Decay, PluginsHighest
<1>9. /\ SumFunction(Others(pod, n)) \in Int
      /\ TotalScore(scores[d]) = RepeatPriorityScore(u, PluginsHighest) + SumFunction(Others(pod, n))
  BY <1>2, <1>4, TotalOfSix DEF CountedSince
<1>10. TotalScore(scores[e]) = RepeatPriorityScore(v, PluginsHighest) + SumFunction(Others(pod, c))
  BY <1>2, <1>5, TotalOfSix DEF CountedSince
<1>11. u # 0
  BY <1>1, <1>3, <1>7, <1>8, <1>9, <1>10
<1>12. QED
  BY <1>2, <1>4, <1>11 DEF CountedSince

(* No viable node that was found as often is better than the one that is   *)
(* chosen.                                                                 *)
THEOREM NoBetterNode == ASSUME SelectionAssumption PROVE ChoiceSpec => BestIsChosen
<1>1. ChoiceInit => ChoiceInv
  BY ChoiceStarts
<1>2. ChoiceInv /\ [ChoiceNext]_choiceVars => ChoiceInv'
  BY ChoiceStep
<1>3. ChoiceInv /\ [ChoiceNext]_choiceVars =>
        [\A p \in NewPods : answer[p] = None /\ answer'[p] # None =>
            \A n \in Viable : viable[n] >= viable[answer'[p]] => ~Beats(n, answer'[p])]_choiceVars
  BY ChoiceStep, AnsweredIsBest
<1>4. QED
  BY <1>1, <1>2, <1>3, PTL DEF ChoiceSpec, BestIsChosen

(* A used node is not chosen over one that has no pod yet, is otherwise as *)
(* good and was found as often.                                            *)
THEOREM UnusedGoFirst == ASSUME SelectionAssumption PROVE ChoiceSpec => UnusedNodesFirst
<1>1. ChoiceInit => ChoiceInv
  BY ChoiceStarts
<1>2. ChoiceInv /\ [ChoiceNext]_choiceVars => ChoiceInv'
  BY ChoiceStep
<1>3. ASSUME ChoiceInv, [ChoiceNext]_choiceVars, NEW p \in NewPods,
             answer[p] = None, answer'[p] # None, NEW n \in Viable,
             before[answer'[p]] > 0, Others(p, n) = Others(p, answer'[p]),
             viable[n] >= viable[answer'[p]]
      PROVE  nodeUsageMap[n] > 0
  <2>1. Select
    BY <1>3, ChoiceStep
  <2>2. /\ p = pod /\ answer'[p] \in Viable
        /\ \A e \in Entries : e \in DOMAIN scores /\ Acceptable(scores[e])
        /\ ~Beats(n, answer'[p])
    BY <1>3, <2>1, AnsweredIsBest
  <2>3. QED
    BY <1>3, <2>2, UnusedIsBetter
<1>4. ChoiceInv /\ [ChoiceNext]_choiceVars =>
        [\A p \in NewPods : answer[p] = None /\ answer'[p] # None =>
            \A n \in Viable :
               /\ before[answer'[p]] > 0 /\ Others(p, n) = Others(p, answer'[p])
               /\ viable[n] >= viable[answer'[p]]
               => nodeUsageMap[n] > 0]_choiceVars
  BY <1>3
<1>5. QED
  BY <1>1, <1>2, <1>4, PTL DEF ChoiceSpec, UnusedNodesFirst
=============================================================================
